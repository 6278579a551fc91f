-------------------------- MODULE ContractProofs --------------------------
(***************************************************************************)
(* What the contract guarantees, for every set of accounts and tokens,     *)
(* lists of every length and every amount.                                 *)
(*                                                                         *)
(* Who decides: it always has somebody who can act for it, a timelocked    *)
(* rotation is never completed early, the royalty rate and its history     *)
(* agree, and a proposal takes effect only by a majority and is frozen     *)
(* when its window closes.                                                 *)
(*                                                                         *)
(* The split and the money: the books stay exact, every payment that is    *)
(* made can be made and is made in full, and nobody is overruled or made   *)
(* to pay without having signed.                                           *)
(***************************************************************************)
EXTENDS RoyaltySplitter, ShareMathProofs

\* set_admins keeps the threshold within the list, and the configured timelock
\* is never below the minimum.
ThresholdFits == adminList # <<>> => adminThreshold <= Len(adminList)
TimelockLongEnough == rotationTimelock # None => rotationTimelock >= MIN_ADMIN_ROTATION_TIMELOCK

AdminInv == AdminTypeOK /\ ThresholdFits /\ TimelockLongEnough

-----------------------------------------------------------------------------
\* Only the administration's own entry points and initialize write adminVars.
LEMMA AdminFrame ==
    ASSUME [Next]_vars
    PROVE  \/ AdminNext
           \/ UNCHANGED adminVars
           \/ /\ InitializeNext /\ admin = None /\ admin' \in Address
              /\ UNCHANGED <<adminList, adminThreshold, pendingAdmin, pendingRotation,
                             rotationTimelock>>
<1>1. CASE CloseLedger
  BY <1>1 DEF CloseLedger
<1>2. CASE InitializeNext
  BY <1>2, SetupAssumption DEF InitializeNext, CommitInitialize, Initialize, RevealInitialize,
       initialize_validated, initialized
<1>3. CASE RecipientsNext
  BY <1>3 DEF RecipientsNext, SetRecipients, SetDefaultRecipients, UpdateShare,
       SetIncentivesEnabled
<1>4. CASE AdminNext
  BY <1>4
<1>5. CASE EmergencyNext \/ SwitchNext
  BY <1>5 DEF EmergencyNext, SwitchNext, SetPaused, Pause, Unpause, SetOperationPaused,
     TriggerEmergencyPause,
       ClearEmergencyPause, SetAnomalyThreshold, ClearAnomalyThreshold, SetApprovedTokens,
       NotSwitch
<1>6. CASE UpgradeNext
  BY <1>6 DEF UpgradeNext, UpdateWasm, Migrate, NotUpgrade
<1>7. CASE DepositNext
  BY <1>7 DEF DepositNext, Deposit
<1>8. CASE PaymentsNext
  BY <1>8 DEF PaymentsNext, Withdraw, RecordSecondaryRoyalty, DistributeWithOverride,
       DistributeResilient, DistributeWithIncentives, BatchDistribute, DistributeSecondary,
       TripOnly, PrimaryFrame
<1>9. CASE GovernanceNext
  BY <1>9 DEF GovernanceNext, ProposalNext, SetRoyaltyRate, ProposeRateChange, Vote,
       ExecuteProposal, RejectProposal, NotRate
<1>10. CASE DisputesNext
  BY <1>10 DEF DisputesNext, RecordDispute, ResolveDispute, Clawback, NotDispute
<1>11. CASE UNCHANGED vars
  BY <1>11 DEF vars
<1> QED
  BY <1>1, <1>2, <1>3, <1>4, <1>5, <1>6, <1>7, <1>8, <1>9, <1>10, <1>11 DEF Next

\* Nothing turns the clock back.
LEMMA LedgerAdvances ==
    ASSUME [Next]_vars, ledger \in Nat
    PROVE  ledger' \in Nat /\ ledger' >= ledger
<1>1. CASE CloseLedger
  BY <1>1 DEF CloseLedger
<1>2. SUFFICES ASSUME ~CloseLedger
               PROVE  ledger' = ledger
  BY <1>1
<1>3. CASE InitializeNext
  BY <1>3 DEF InitializeNext, CommitInitialize, Initialize, RevealInitialize,
       initialize_validated
<1>4. CASE RecipientsNext
  BY <1>4 DEF RecipientsNext, SetRecipients, SetDefaultRecipients, UpdateShare,
       SetIncentivesEnabled
<1>5. CASE AdminNext
  BY <1>5 DEF AdminNext, AdminTransfer, ProposeAdminTransfer, AcceptAdmin, SetAdmins,
       InitiateAdminRotation, CancelAdminRotation, FinalizeAdminRotation,
       SetAdminRotationTimelock, NotAdmin
<1>6. CASE EmergencyNext \/ SwitchNext
  BY <1>6 DEF EmergencyNext, SwitchNext, SetPaused, Pause, Unpause, SetOperationPaused,
     TriggerEmergencyPause,
       ClearEmergencyPause, SetAnomalyThreshold, ClearAnomalyThreshold, SetApprovedTokens,
       NotSwitch
<1>7. CASE UpgradeNext
  BY <1>7 DEF UpgradeNext, UpdateWasm, Migrate, NotUpgrade
<1>8. CASE DepositNext \/ PaymentsNext
  BY <1>8 DEF DepositNext, Deposit, PaymentsNext, Withdraw, RecordSecondaryRoyalty,
       DistributeWithOverride, DistributeResilient, DistributeWithIncentives, BatchDistribute,
       DistributeSecondary, TripOnly, PrimaryFrame
<1>9. CASE GovernanceNext
  BY <1>9 DEF GovernanceNext, ProposalNext, SetRoyaltyRate, ProposeRateChange, Vote,
       ExecuteProposal, RejectProposal, NotRate
<1>10. CASE DisputesNext
  BY <1>10 DEF DisputesNext, RecordDispute, ResolveDispute, Clawback, NotDispute
<1>11. CASE UNCHANGED vars
  BY <1>11 DEF vars
<1> QED
  BY <1>2, <1>3, <1>4, <1>5, <1>6, <1>7, <1>8, <1>9, <1>10, <1>11 DEF Next

-----------------------------------------------------------------------------
\* A contract just deployed satisfies AdminInv: no admin, no list, no timelock.
LEMMA AdminInvInit == Init => AdminInv
  BY SplitterAssumption DEF Init, Deployed, AdminInv, AdminTypeOK, ThresholdFits,
     TimelockLongEnough

\* Each entry point of the administration keeps AdminInv.
LEMMA AdminInvStep == AdminInv /\ [Next]_vars => AdminInv'
<1> SUFFICES ASSUME AdminInv, [Next]_vars
             PROVE  AdminInv'
  OBVIOUS
<1> USE SplitterAssumption, AdminAssumption
<1>1. ledger' \in Nat
  BY LedgerAdvances DEF AdminInv, AdminTypeOK
<1>2. CASE UNCHANGED adminVars
  BY <1>1, <1>2 DEF adminVars, AdminInv, AdminTypeOK, ThresholdFits, TimelockLongEnough
<1>3. CASE /\ admin' \in Address
           /\ UNCHANGED <<adminList, adminThreshold, pendingAdmin, pendingRotation,
                          rotationTimelock>>
  BY <1>1, <1>3 DEF AdminInv, AdminTypeOK, ThresholdFits, TimelockLongEnough
<1>4. CASE FinalizeAdminRotation
  BY <1>1, <1>4 DEF FinalizeAdminRotation, AdminInv, AdminTypeOK, ThresholdFits,
     TimelockLongEnough
<1>5. ASSUME NEW signers \in AuthSets, AcceptAdmin(signers) \/ CancelAdminRotation(signers)
      PROVE  AdminInv'
  BY <1>1, <1>5 DEF AcceptAdmin, CancelAdminRotation, AdminInv, AdminTypeOK, ThresholdFits,
     TimelockLongEnough
<1>6. ASSUME NEW signers \in AuthSets, NEW a \in Address,
             AdminTransfer(signers, a) \/ ProposeAdminTransfer(signers, a)
      PROVE  AdminInv'
  BY <1>1, <1>6 DEF AdminTransfer, ProposeAdminTransfer, AdminInv, AdminTypeOK, ThresholdFits,
     TimelockLongEnough
<1>7. ASSUME NEW signers \in AuthSets, NEW a \in Address, InitiateAdminRotation(signers, a)
      PROVE  AdminInv'
  BY <1>1, <1>7 DEF InitiateAdminRotation, Rotation, AdminInv, AdminTypeOK, ThresholdFits,
     TimelockLongEnough
<1>8. ASSUME NEW signers \in AuthSets, NEW admins \in AdminLists,
             NEW threshold \in 0..MAX_ADMIN_LIST, SetAdmins(signers, admins, threshold)
      PROVE  AdminInv'
  BY <1>1, <1>8 DEF SetAdmins, ValidAdmins, AdminInv, AdminTypeOK, ThresholdFits,
     TimelockLongEnough
<1>9. ASSUME NEW signers \in AuthSets, NEW seconds \in 0..MaxTime,
             SetAdminRotationTimelock(signers, seconds)
      PROVE  AdminInv'
  BY <1>1, <1>9 DEF SetAdminRotationTimelock, AdminInv, AdminTypeOK, ThresholdFits,
     TimelockLongEnough
<1> QED
  BY AdminFrame, <1>2, <1>3, <1>4, <1>5, <1>6, <1>7, <1>8, <1>9 DEF AdminNext

\* The administration keeps its types, a threshold within its list and a timelock
\* that is long enough, through every entry point of the contract.
THEOREM AdminInvariant == Spec => []AdminInv
  BY AdminInvInit, AdminInvStep, PTL DEF Spec

\* An initialized contract always has somebody who satisfies check_admin_auth:
\* the first AdminThreshold entries of the list exist and are accounts.
THEOREM NeverLockedOut == Spec => []AdminNeverLockedOut
<1>1. AdminInv => AdminNeverLockedOut
  BY DEF AdminInv, AdminTypeOK, ThresholdFits, AdminNeverLockedOut, initialized,
     check_admin_auth
<1> QED
  BY <1>1, AdminInvariant, PTL

\* finalize_admin_rotation hands the admin over no sooner than the minimum
\* timelock after the rotation it completes was initiated.
THEOREM RotationsWait == Spec => RotationWaits
<1> DEFINE Waits ==
      pendingRotation # None /\ pendingRotation' = None /\ admin' # admin =>
          /\ admin' = pendingRotation.new_admin
          /\ ledger >= pendingRotation.initiated_at + MIN_ADMIN_ROTATION_TIMELOCK
<1>1. AdminInv /\ [Next]_vars => Waits
  <2> SUFFICES ASSUME AdminInv, [Next]_vars, pendingRotation # None,
                      pendingRotation' = None, admin' # admin
               PROVE  /\ admin' = pendingRotation.new_admin
                      /\ ledger >= pendingRotation.initiated_at + MIN_ADMIN_ROTATION_TIMELOCK
    OBVIOUS
  <2>1. AdminNext
    BY AdminFrame DEF adminVars
  <2>2. FinalizeAdminRotation
    BY <2>1 DEF AdminNext, AcceptAdmin, CancelAdminRotation, AdminTransfer,
       ProposeAdminTransfer, InitiateAdminRotation, SetAdmins, SetAdminRotationTimelock
  <2>3. admin_rotation_timelock >= MIN_ADMIN_ROTATION_TIMELOCK /\ admin_rotation_timelock \in Nat
    BY AdminAssumption DEF AdminInv, AdminTypeOK, TimelockLongEnough, admin_rotation_timelock
  <2> QED
    BY <2>2, <2>3, AdminAssumption DEF FinalizeAdminRotation, AdminInv, AdminTypeOK
<1> QED
  BY <1>1, AdminInvariant, PTL DEF Spec, RotationWaits

-----------------------------------------------------------------------------
(***************************************************************************)
(* The royalty rate and the proposals that change it.                      *)
(***************************************************************************)
ShareMapType == IsMap(shareMap, Nat)

\* The newest entry of the history is not from the future.
HistoryIsPast == rateHistory # <<>> => rateHistory[Len(rateHistory)].timestamp <= ledger

RateInv == RateTypeOK /\ ShareMapType /\ RateHistoryChains /\ HistoryIsPast /\ ExecutedHadMajority

-----------------------------------------------------------------------------
\* Only GovernanceNext writes the rate, its history, the proposals and the votes.
LEMMA RateFrame ==
    ASSUME [Next]_vars, ~GovernanceNext
    PROVE  UNCHANGED rateVars
<1>1. CASE CloseLedger
  BY <1>1 DEF CloseLedger
<1>2. CASE InitializeNext
  BY <1>2 DEF InitializeNext, CommitInitialize, Initialize, RevealInitialize,
       initialize_validated
<1>3. CASE RecipientsNext
  BY <1>3 DEF RecipientsNext, SetRecipients, SetDefaultRecipients, UpdateShare,
       SetIncentivesEnabled
<1>4. CASE AdminNext
  BY <1>4 DEF AdminNext, AdminTransfer, ProposeAdminTransfer, AcceptAdmin, SetAdmins,
       InitiateAdminRotation, CancelAdminRotation, FinalizeAdminRotation,
       SetAdminRotationTimelock, NotAdmin
<1>5. CASE EmergencyNext \/ SwitchNext
  BY <1>5 DEF EmergencyNext, SwitchNext, SetPaused, Pause, Unpause, SetOperationPaused,
     TriggerEmergencyPause,
       ClearEmergencyPause, SetAnomalyThreshold, ClearAnomalyThreshold, SetApprovedTokens,
       NotSwitch
<1>6. CASE UpgradeNext
  BY <1>6 DEF UpgradeNext, UpdateWasm, Migrate, NotUpgrade
<1>7. CASE DepositNext \/ PaymentsNext
  BY <1>7 DEF DepositNext, Deposit, PaymentsNext, Withdraw, RecordSecondaryRoyalty,
       DistributeWithOverride, DistributeResilient, DistributeWithIncentives, BatchDistribute,
       DistributeSecondary, TripOnly, PrimaryFrame
<1>8. CASE DisputesNext
  BY <1>8 DEF DisputesNext, RecordDispute, ResolveDispute, Clawback, NotDispute
<1>9. CASE UNCHANGED vars
  BY <1>9 DEF vars
<1> QED
  BY <1>1, <1>2, <1>3, <1>4, <1>5, <1>6, <1>7, <1>8, <1>9 DEF Next

\* The shares of a list of recipients are numbers.
LEMMA ShareMapOfType ==
    ASSUME NEW recipients \in Seq(Recipient)
    PROVE  IsMap(ShareMapOf(recipients), Nat)
<1> DEFINE A == Range(AddressesOf(recipients))
<1>0. /\ \A i \in 1..Len(recipients) : /\ recipients[i] \in Recipient
                                        /\ recipients[i].address \in Address
                                        /\ recipients[i].share \in Nat
      /\ DOMAIN AddressesOf(recipients) = 1..Len(recipients)
      /\ \A i \in 1..Len(recipients) : AddressesOf(recipients)[i] = recipients[i].address
  <2>1. \A i \in 1..Len(recipients) : recipients[i] \in Recipient
    OBVIOUS
  <2>2. \A r \in Recipient : r.address \in Address /\ r.share \in Nat
    BY DEF Recipient
  <2> QED
    BY <2>1, <2>2 DEF AddressesOf
<1>1. A \subseteq Address
  BY <1>0 DEF Range
<1>2. ASSUME NEW x \in A
      PROVE  recipients[CHOOSE i \in 1..Len(recipients) : recipients[i].address = x].share \in Nat
  <2>1. \E i \in 1..Len(recipients) : recipients[i].address = x
    BY <1>0 DEF Range
  <2>2. (CHOOSE i \in 1..Len(recipients) : recipients[i].address = x) \in 1..Len(recipients)
    BY <2>1
  <2> QED
    BY <1>0, <2>2
<1> QED
  BY <1>1, <1>2 DEF IsMap, ShareMapOf

\* Every writer of the share map (initialize, set_recipients, update_share) writes
\* numbers.
LEMMA ShareMapStep == ShareMapType /\ [Next]_vars => ShareMapType'
<1> SUFFICES ASSUME ShareMapType, [Next]_vars
             PROVE  ShareMapType'
  OBVIOUS
<1>1. ASSUME UNCHANGED shareMap
      PROVE  ShareMapType'
  BY <1>1 DEF ShareMapType, IsMap
<1>2. ASSUME NEW in \in InitInputs, initialize_validated(in[1], in[2])
      PROVE  ShareMapType'
  <2>1. in[1] \in Seq(Address) /\ in[2] \in Seq(Nat) /\ Len(in[1]) = Len(in[2])
    BY <1>2, SetupAssumption DEF initialize_validated
  <2>2. Recipients(in[1], in[2]) \in Seq(Recipient)
    BY <2>1 DEF Recipients, Recipient
  <2> QED
    BY <1>2, <2>2, ShareMapOfType DEF initialize_validated, ShareMapType
<1>3. ASSUME NEW signers, NEW recipients \in RecipientLists, SetRecipients(signers, recipients)
      PROVE  ShareMapType'
  BY <1>3, SplitterAssumption, ShareMapOfType DEF SetRecipients, ShareMapType, Recipient
<1>4. ASSUME NEW signers, NEW x \in Address, NEW share \in NewShares,
             UpdateShare(signers, x, share)
      PROVE  ShareMapType'
  BY <1>4, SetupAssumption DEF UpdateShare, ShareMapType, IsMap
<1>5. CASE InitializeNext
  BY <1>1, <1>2, <1>5 DEF InitializeNext, CommitInitialize, Initialize, RevealInitialize,
     shareVars
<1>6. CASE RecipientsNext
  BY <1>1, <1>3, <1>4, <1>6 DEF RecipientsNext, SetDefaultRecipients, SetIncentivesEnabled
<1>7. CASE CloseLedger \/ AdminNext \/ UNCHANGED vars
  BY <1>1, <1>7 DEF CloseLedger, AdminNext, AdminTransfer, ProposeAdminTransfer, AcceptAdmin,
     SetAdmins, InitiateAdminRotation, CancelAdminRotation, FinalizeAdminRotation,
     SetAdminRotationTimelock, NotAdmin, vars, shareVars
<1>8. CASE EmergencyNext \/ SwitchNext \/ UpgradeNext
  BY <1>1, <1>8 DEF EmergencyNext, SwitchNext, SetPaused, Pause, Unpause, SetOperationPaused,
     TriggerEmergencyPause, ClearEmergencyPause, SetAnomalyThreshold, ClearAnomalyThreshold,
     SetApprovedTokens, NotSwitch, UpgradeNext, UpdateWasm, Migrate, NotUpgrade, shareVars
<1>9. CASE DepositNext \/ PaymentsNext
  BY <1>1, <1>9 DEF DepositNext, Deposit, PaymentsNext, Withdraw, RecordSecondaryRoyalty,
     DistributeWithOverride, DistributeResilient, DistributeWithIncentives, BatchDistribute,
     DistributeSecondary, TripOnly, PrimaryFrame, shareVars
<1>10. CASE GovernanceNext
  BY <1>1, <1>10 DEF GovernanceNext, ProposalNext, SetRoyaltyRate, ProposeRateChange, Vote,
     ExecuteProposal, RejectProposal, NotRate, shareVars
<1>11. CASE DisputesNext
  BY <1>1, <1>11 DEF DisputesNext, RecordDispute, ResolveDispute, Clawback, NotDispute, shareVars
<1> QED
  BY <1>5, <1>6, <1>7, <1>8, <1>9, <1>10, <1>11 DEF Next

-----------------------------------------------------------------------------
\* Counting a vote yields a proposal with the same window and outcome.
LEMMA CountVoteType ==
    ASSUME NEW p \in Proposal, NEW support \in BOOLEAN, NEW weight \in Nat
    PROVE  /\ CountVote(p, support, weight) \in Proposal
           /\ CountVote(p, support, weight).new_rate = p.new_rate
           /\ CountVote(p, support, weight).deadline = p.deadline
           /\ CountVote(p, support, weight).executed = p.executed
           /\ CountVote(p, support, weight).rejected = p.rejected
  BY ShareMathAssumption DEF CountVote, Proposal, Lesser

\* Settling a proposal (execute_proposal) yields a proposal.
LEMMA SettledType ==
    ASSUME NEW p \in Proposal
    PROVE  /\ [p EXCEPT !.executed = TRUE] \in Proposal
           /\ [p EXCEPT !.rejected = TRUE] \in Proposal
  BY DEF Proposal

-----------------------------------------------------------------------------
\* What one more entry makes of the history: the bound, the chain and the time
\* order survive, also when the oldest entry is dropped.
LEMMA RecordedHistoryChains ==
    ASSUME RateInv, ledger \in Nat, NEW rate \in Nat, NEW caller \in Address
    PROVE  LET h == RecordedHistory(rate, caller)
               n == Len(h)
           IN  /\ h \in Seq(RateChange)
               /\ n \in 1..RATE_HISTORY_CAP
               /\ h[n].new_rate = rate /\ h[n].timestamp = ledger
               /\ \A i \in 1..(n - 1) : /\ h[i].new_rate = h[i + 1].old_rate
                                        /\ h[i].timestamp <= h[i + 1].timestamp
<1> DEFINE entry == [old_rate |-> royaltyRate, new_rate |-> rate,
                     timestamp |-> ledger, caller |-> caller]
           base == IF Len(rateHistory) >= RATE_HISTORY_CAP THEN Tail(rateHistory)
                   ELSE rateHistory
           m == Len(base)
<1>0. /\ rateHistory \in Seq(RateChange) /\ royaltyRate \in Nat
      /\ RATE_HISTORY_CAP \in Nat \ {0} /\ Len(rateHistory) \in Nat
      /\ Len(rateHistory) <= RATE_HISTORY_CAP
  BY GovernanceAssumption DEF RateInv, RateTypeOK, RateHistoryChains
<1>1. /\ entry \in RateChange
      /\ entry.old_rate = royaltyRate /\ entry.new_rate = rate /\ entry.timestamp = ledger
  BY <1>0 DEF RateChange
<1>2. /\ base \in Seq(RateChange) /\ m \in Nat /\ m < RATE_HISTORY_CAP
      /\ m # 0 => base[m].new_rate = royaltyRate /\ base[m].timestamp <= ledger
      /\ \A i \in 1..(m - 1) : /\ base[i].new_rate = base[i + 1].old_rate
                               /\ base[i].timestamp <= base[i + 1].timestamp
  <2>1. CASE Len(rateHistory) >= RATE_HISTORY_CAP
    <3>1. /\ rateHistory # <<>> /\ base = Tail(rateHistory)
          /\ base \in Seq(RateChange) /\ m = Len(rateHistory) - 1
          /\ \A i \in 1..m : base[i] = rateHistory[i + 1]
      BY <1>0, <2>1
    <3> HIDE DEF base
    <3> QED
      BY <1>0, <2>1, <3>1 DEF RateInv, RateHistoryChains, HistoryIsPast
  <2>2. CASE ~(Len(rateHistory) >= RATE_HISTORY_CAP)
    BY <1>0, <2>2 DEF RateInv, RateHistoryChains, HistoryIsPast
  <2> QED
    BY <2>1, <2>2
<1>3. RecordedHistory(rate, caller) = Append(base, entry)
  BY DEF RecordedHistory
<1> HIDE DEF base, entry
<1>4. /\ Append(base, entry) \in Seq(RateChange)
      /\ Len(Append(base, entry)) = m + 1
      /\ Append(base, entry)[m + 1] = entry
      /\ \A i \in 1..m : Append(base, entry)[i] = base[i]
  BY <1>1, <1>2
<1>5. ASSUME NEW i \in 1..m
      PROVE  /\ Append(base, entry)[i].new_rate = Append(base, entry)[i + 1].old_rate
             /\ Append(base, entry)[i].timestamp <= Append(base, entry)[i + 1].timestamp
  <2>1. CASE i = m
    BY <1>1, <1>2, <1>4, <2>1
  <2>2. CASE i \in 1..(m - 1)
    BY <1>2, <1>4, <2>2
  <2> QED
    BY <1>2, <2>1, <2>2
<1> QED
  BY <1>0, <1>1, <1>2, <1>3, <1>4, <1>5

-----------------------------------------------------------------------------
\* A step that records a change to `rate` under an account's name, leaves the
\* proposals typed and majorities in order, keeps RateInv.
LEMMA RecordingStep ==
    ASSUME RateInv, ledger \in Nat, ledger' = ledger, ShareMapType',
           NEW rate \in Nat, NEW caller \in Address,
           royaltyRate' = rate, rateHistory' = RecordedHistory(rate, caller)
    PROVE  /\ royaltyRate' \in Nat /\ rateHistory' \in Seq(RateChange)
           /\ RateHistoryChains' /\ HistoryIsPast'
<1> DEFINE h == RecordedHistory(rate, caller)
           n == Len(h)
<1>1. /\ h \in Seq(RateChange)
      /\ n \in 1..RATE_HISTORY_CAP
      /\ h[n].new_rate = rate /\ h[n].timestamp = ledger
      /\ \A i \in 1..(n - 1) : /\ h[i].new_rate = h[i + 1].old_rate
                               /\ h[i].timestamp <= h[i + 1].timestamp
  BY RecordedHistoryChains
<1> HIDE DEF h
<1>2. rateHistory' = h
  BY DEF h
<1> QED
  BY <1>1, <1>2, GovernanceAssumption DEF RateHistoryChains, HistoryIsPast

\* The part of RateInv that is about proposals.
ProposalsOK ==
    /\ proposals \in Seq(Proposal)
    /\ DOMAIN proposalVotes = DOMAIN proposals
    /\ \A id \in 1..Len(proposals) : IsMap(proposalVotes[id], BOOLEAN)
    /\ ExecutedHadMajority

\* propose_rate_change appends a proposal that is open, and an empty vote map.
LEMMA ProposeStep ==
    ASSUME ProposalsOK, ledger \in Nat, NEW signers, NEW proposer \in Address, NEW rate \in Rates,
           NEW duration \in Durations, ProposeRateChange(signers, proposer, rate, duration)
    PROVE  ProposalsOK'
<1> DEFINE new == [new_rate |-> rate, proposer |-> proposer, created_at |-> ledger,
                   deadline |-> ledger + duration, yes_weight |-> 0, no_weight |-> 0,
                   executed |-> FALSE, rejected |-> FALSE]
<1>1. /\ proposals' = Append(proposals, new)
      /\ proposalVotes' = Append(proposalVotes, EmptyMap)
      /\ ledger' = ledger
  BY DEF ProposeRateChange, NotRate
<1>2. new \in Proposal /\ new.executed = FALSE
  BY GovernanceAssumption DEF Proposal
<1> HIDE DEF new
<1>3. /\ proposals \in Seq(Proposal) /\ Len(proposals) \in Nat
      /\ DOMAIN proposals = 1..Len(proposals)
      /\ DOMAIN proposalVotes = 1..Len(proposals)
  BY DEF ProposalsOK
<1>4. /\ proposals' \in Seq(Proposal) /\ Len(proposals') = Len(proposals) + 1
      /\ \A id \in 1..Len(proposals) : proposals'[id] = proposals[id]
      /\ proposals'[Len(proposals) + 1] = new
      /\ DOMAIN proposals' = 1..(Len(proposals) + 1)
  BY <1>1, <1>2, <1>3
<1>5. /\ DOMAIN proposalVotes' = 1..(Len(proposals) + 1)
      /\ \A id \in 1..Len(proposals) : proposalVotes'[id] = proposalVotes[id]
      /\ proposalVotes'[Len(proposals) + 1] = EmptyMap
  BY <1>1, <1>3
<1>6. IsMap(EmptyMap, BOOLEAN)
  BY DEF IsMap, EmptyMap
<1>7. \A id \in 1..Len(proposals') : IsMap(proposalVotes'[id], BOOLEAN)
  BY <1>3, <1>4, <1>5, <1>6 DEF ProposalsOK
<1>8. ExecutedHadMajority'
  BY <1>1, <1>2, <1>3, <1>4 DEF ProposalsOK, ExecutedHadMajority
<1> QED
  BY <1>4, <1>5, <1>7, <1>8 DEF ProposalsOK

\* vote touches one open proposal, so no executed one loses its majority.
LEMMA VoteStep ==
    ASSUME ProposalsOK, ShareMapType, NEW signers, NEW voter \in Address,
           NEW id \in 1..Len(proposals), NEW support \in BOOLEAN,
           Vote(signers, voter, id, support)
    PROVE  ProposalsOK'
<1> DEFINE new == CountVote(proposals[id], support, shareMap[voter])
<1>1. /\ proposals' = [proposals EXCEPT ![id] = new]
      /\ proposalVotes' = [proposalVotes EXCEPT ![id] = MapSet(proposalVotes[id], voter, support)]
      /\ ~proposals[id].executed
      /\ shareMap[voter] \in Nat
      /\ ledger' = ledger
  BY DEF Vote, voting_open, NotRate, ShareMapType, IsMap
<1>2. /\ proposals \in Seq(Proposal) /\ proposals[id] \in Proposal
      /\ DOMAIN proposalVotes = DOMAIN proposals /\ IsMap(proposalVotes[id], BOOLEAN)
  BY DEF ProposalsOK
<1>3. new \in Proposal /\ new.executed = proposals[id].executed
  BY <1>1, <1>2, CountVoteType
<1> HIDE DEF new
<1>4. /\ proposals' \in Seq(Proposal) /\ Len(proposals') = Len(proposals)
      /\ DOMAIN proposals' = DOMAIN proposals
      /\ proposals'[id] = new
      /\ \A other \in 1..Len(proposals) : other # id => proposals'[other] = proposals[other]
  BY <1>1, <1>2, <1>3
<1>5. IsMap(MapSet(proposalVotes[id], voter, support), BOOLEAN)
  BY <1>2 DEF IsMap, MapSet
<1>6. /\ DOMAIN proposalVotes' = DOMAIN proposals'
      /\ \A other \in 1..Len(proposals') : IsMap(proposalVotes'[other], BOOLEAN)
  BY <1>1, <1>2, <1>4, <1>5 DEF ProposalsOK
<1>7. ExecutedHadMajority'
  BY <1>1, <1>3, <1>4 DEF ProposalsOK, ExecutedHadMajority
<1> QED
  BY <1>4, <1>6, <1>7 DEF ProposalsOK

\* execute_proposal, whichever way the vote went.
LEMMA SettleStep ==
    ASSUME ProposalsOK, NEW id \in 1..Len(proposals), ExecuteProposal(id) \/ RejectProposal(id)
    PROVE  ProposalsOK'
<1> DEFINE new == IF passed(proposals[id]) THEN [proposals[id] EXCEPT !.executed = TRUE]
                  ELSE [proposals[id] EXCEPT !.rejected = TRUE]
<1>1. /\ proposals' = [proposals EXCEPT ![id] = new]
      /\ proposalVotes' = proposalVotes
      /\ voting_closed(proposals[id])
      /\ ledger' = ledger
  BY DEF ExecuteProposal, RejectProposal, NotRate
<1>2. proposals \in Seq(Proposal) /\ proposals[id] \in Proposal
  BY DEF ProposalsOK
<1>3. /\ new \in Proposal
      /\ new.executed => /\ passed(proposals[id]) /\ ~new.rejected
                         /\ new.yes_weight = proposals[id].yes_weight
                         /\ new.no_weight = proposals[id].no_weight
                         /\ new.deadline = proposals[id].deadline
  BY <1>1, <1>2, SettledType DEF voting_closed, Proposal
<1> HIDE DEF new
<1>4. /\ proposals' \in Seq(Proposal) /\ Len(proposals') = Len(proposals)
      /\ DOMAIN proposals' = DOMAIN proposals
      /\ proposals'[id] = new
      /\ \A other \in 1..Len(proposals) : other # id => proposals'[other] = proposals[other]
  BY <1>1, <1>2, <1>3
<1>5. ExecutedHadMajority'
  BY <1>1, <1>3, <1>4 DEF ProposalsOK, ExecutedHadMajority, passed, voting_closed
<1> QED
  BY <1>1, <1>4, <1>5 DEF ProposalsOK

-----------------------------------------------------------------------------
\* A contract just deployed satisfies RateInv: no rate, no history, no proposal.
LEMMA RateInvInit == Init => RateInv
<1> SUFFICES ASSUME Init PROVE RateInv
  OBVIOUS
<1>1. royaltyRate = 0 /\ rateHistory = <<>> /\ proposals = <<>> /\ proposalVotes = <<>>
  BY DEF Init, Deployed
<1>2. IsMap(shareMap, Nat)
  BY DEF Init, Deployed, IsMap, EmptyMap
<1> QED
  BY <1>1, <1>2, GovernanceAssumption DEF RateInv, RateTypeOK, ShareMapType, RateHistoryChains,
     HistoryIsPast, ExecutedHadMajority

\* Each entry point keeps RateInv; the admin's name in the history is an account
\* because AdminInv holds.
LEMMA RateInvStep == AdminInv /\ RateInv /\ [Next]_vars => RateInv'
<1> SUFFICES ASSUME AdminInv, RateInv, [Next]_vars
             PROVE  RateInv'
  OBVIOUS
<1>0. /\ ledger \in Nat /\ ledger' \in Nat /\ ledger' >= ledger
      /\ ShareMapType /\ ShareMapType'
      /\ ProposalsOK /\ royaltyRate \in Nat /\ rateHistory \in Seq(RateChange)
  BY LedgerAdvances, ShareMapStep DEF AdminInv, AdminTypeOK, RateInv, RateTypeOK, ProposalsOK
<1>1. CASE ~GovernanceNext
  <2>1. /\ royaltyRate' = royaltyRate /\ rateHistory' = rateHistory
        /\ proposals' = proposals /\ proposalVotes' = proposalVotes
    BY <1>1, RateFrame DEF rateVars
  <2>2. HistoryIsPast'
    <3>1. rateHistory # <<>> => rateHistory[Len(rateHistory)] \in RateChange
      BY <1>0
    <3>2. rateHistory # <<>> => rateHistory[Len(rateHistory)].timestamp \in Nat
      BY <3>1 DEF RateChange
    <3> QED
      BY <1>0, <2>1, <3>2 DEF RateInv, HistoryIsPast
  <2>3. ExecutedHadMajority'
    <3>1. \A id \in 1..Len(proposals) : proposals[id] \in Proposal
      BY <1>0 DEF ProposalsOK
    <3>2. \A id \in 1..Len(proposals) : proposals[id].deadline \in Nat
      BY <3>1 DEF Proposal
    <3> QED
      BY <1>0, <2>1, <3>2 DEF RateInv, ExecutedHadMajority
  <2>4. RateTypeOK' /\ RateHistoryChains'
    BY <2>1 DEF RateInv, RateTypeOK, RateHistoryChains
  <2> QED
    BY <1>0, <2>2, <2>3, <2>4 DEF RateInv
<1>2. ASSUME NEW signers \in AuthSets, NEW rate \in Rates, SetRoyaltyRate(signers, rate)
      PROVE  RateInv'
  <2>1. /\ rate \in Nat /\ admin \in Address /\ ledger' = ledger
        /\ royaltyRate' = rate /\ rateHistory' = RecordedHistory(rate, admin)
        /\ proposals' = proposals /\ proposalVotes' = proposalVotes
    BY <1>2, GovernanceAssumption DEF SetRoyaltyRate, NotRate, initialized, AdminInv, AdminTypeOK
  <2>2. /\ royaltyRate' \in Nat /\ rateHistory' \in Seq(RateChange)
        /\ RateHistoryChains' /\ HistoryIsPast'
    BY <1>0, <2>1, RecordingStep
  <2> QED
    BY <1>0, <2>1, <2>2 DEF RateInv, RateTypeOK, ProposalsOK, ExecutedHadMajority
<1>3. ASSUME NEW signers \in AuthSets, NEW a \in Address, NEW rate \in Rates,
             NEW duration \in Durations, ProposeRateChange(signers, a, rate, duration)
      PROVE  RateInv'
  <2>1. ProposalsOK'
    BY <1>0, <1>3, ProposeStep
  <2>2. royaltyRate' = royaltyRate /\ rateHistory' = rateHistory /\ ledger' = ledger
    BY <1>3 DEF ProposeRateChange, NotRate
  <2> QED
    BY <1>0, <2>1, <2>2 DEF RateInv, RateTypeOK, ProposalsOK, RateHistoryChains, HistoryIsPast
<1>4. ASSUME NEW signers \in AuthSets, NEW a \in Address, NEW id \in 1..Len(proposals),
             NEW support \in BOOLEAN, Vote(signers, a, id, support)
      PROVE  RateInv'
  <2>1. ProposalsOK'
    BY <1>0, <1>4, VoteStep
  <2>2. royaltyRate' = royaltyRate /\ rateHistory' = rateHistory /\ ledger' = ledger
    BY <1>4 DEF Vote, NotRate
  <2> QED
    BY <1>0, <2>1, <2>2 DEF RateInv, RateTypeOK, ProposalsOK, RateHistoryChains, HistoryIsPast
<1>5. ASSUME NEW id \in 1..Len(proposals), ExecuteProposal(id)
      PROVE  RateInv'
  <2>1. ProposalsOK'
    BY <1>0, <1>5, SettleStep
  <2>2. proposals[id] \in Proposal
    BY <1>0 DEF ProposalsOK
  <2>3. proposals[id].new_rate \in Nat /\ proposals[id].proposer \in Address
    BY <2>2 DEF Proposal
  <2>4. /\ ledger' = ledger /\ royaltyRate' = proposals[id].new_rate
        /\ rateHistory' = RecordedHistory(proposals[id].new_rate, proposals[id].proposer)
    BY <1>5 DEF ExecuteProposal, NotRate
  <2>5. /\ royaltyRate' \in Nat /\ rateHistory' \in Seq(RateChange)
        /\ RateHistoryChains' /\ HistoryIsPast'
    BY <1>0, <2>3, <2>4, RecordingStep
  <2> QED
    BY <1>0, <2>1, <2>5 DEF RateInv, RateTypeOK, ProposalsOK
<1>6. ASSUME NEW id \in 1..Len(proposals), RejectProposal(id)
      PROVE  RateInv'
  <2>1. ProposalsOK'
    BY <1>0, <1>6, SettleStep
  <2>2. royaltyRate' = royaltyRate /\ rateHistory' = rateHistory /\ ledger' = ledger
    BY <1>6 DEF RejectProposal, NotRate
  <2> QED
    BY <1>0, <2>1, <2>2 DEF RateInv, RateTypeOK, ProposalsOK, RateHistoryChains, HistoryIsPast
<1> QED
  BY <1>1, <1>2, <1>3, <1>4, <1>5, <1>6 DEF GovernanceNext, ProposalNext

\* The rate, its history, the proposals and the votes keep RateInv through every
\* entry point of the contract.
THEOREM RateInvariant == Spec => []RateInv
  BY RateInvInit, RateInvStep, AdminInvariant, PTL DEF Spec

\* The bounded history chains up to the rate in force, whichever of
\* set_royalty_rate and execute_proposal wrote it and however often it was cut.
THEOREM HistoryChains == Spec => []RateHistoryChains
<1>1. RateInv => RateHistoryChains
  BY DEF RateInv
<1> QED
  BY <1>1, RateInvariant, PTL

\* A proposal that was executed has a strict majority of yes weight, was not
\* rejected, and its window has closed.
THEOREM MajorityRules == Spec => []ExecutedHadMajority
<1>1. RateInv => ExecutedHadMajority
  BY DEF RateInv
<1> QED
  BY <1>1, RateInvariant, PTL

\* Once its window has closed a proposal's tally is frozen, and once it is settled
\* nothing touches it again: vote and execute_proposal are the only writers.
THEOREM ClosedStaysClosed == Spec => ClosedProposalsFreeze
<1> DEFINE Frozen(id) ==
      /\ ledger >= proposals[id].deadline =>
            /\ proposalVotes'[id] = proposalVotes[id]
            /\ proposals'[id].yes_weight = proposals[id].yes_weight
            /\ proposals'[id].no_weight = proposals[id].no_weight
      /\ proposals[id].executed \/ proposals[id].rejected => proposals'[id] = proposals[id]
<1>1. ASSUME RateInv, AdminInv, [Next]_vars, NEW id \in 1..Len(proposals)
      PROVE  Frozen(id)
  <2>0. /\ proposals \in Seq(Proposal) /\ proposals[id] \in Proposal
        /\ proposals[id].deadline \in Nat
        /\ DOMAIN proposalVotes = DOMAIN proposals /\ ledger \in Nat
    <3>1. proposals \in Seq(Proposal) /\ proposals[id] \in Proposal
      BY <1>1 DEF RateInv, RateTypeOK
    <3> QED
      BY <1>1, <3>1 DEF RateInv, RateTypeOK, Proposal, AdminInv, AdminTypeOK
  <2>1. CASE ~GovernanceNext
    BY <1>1, <2>1, RateFrame DEF rateVars
  <2>2. ASSUME NEW signers, NEW rate, SetRoyaltyRate(signers, rate)
        PROVE  Frozen(id)
    BY <2>2 DEF SetRoyaltyRate
  <2>3. ASSUME NEW signers, NEW a, NEW rate, NEW duration,
               ProposeRateChange(signers, a, rate, duration)
        PROVE  Frozen(id)
    <3>1. proposals'[id] = proposals[id] /\ proposalVotes'[id] = proposalVotes[id]
      BY <2>0, <2>3 DEF ProposeRateChange
    <3> QED
      BY <3>1
  <2>4. ASSUME NEW signers, NEW a, NEW other \in 1..Len(proposals), NEW support \in BOOLEAN,
               Vote(signers, a, other, support)
        PROVE  Frozen(id)
    <3>1. CASE other = id
      BY <2>0, <2>4, <3>1 DEF Vote, voting_open
    <3>2. CASE other # id
      BY <2>0, <2>4, <3>2 DEF Vote
    <3> QED
      BY <3>1, <3>2
  <2>5. ASSUME NEW other \in 1..Len(proposals), ExecuteProposal(other) \/ RejectProposal(other)
        PROVE  Frozen(id)
    <3>1. CASE other # id
      BY <2>0, <2>5, <3>1 DEF ExecuteProposal, RejectProposal
    <3>2. CASE other = id
      <4> DEFINE new == IF passed(proposals[id]) THEN [proposals[id] EXCEPT !.executed = TRUE]
                        ELSE [proposals[id] EXCEPT !.rejected = TRUE]
      <4>1. /\ proposalVotes' = proposalVotes
            /\ ~proposals[id].executed /\ ~proposals[id].rejected
            /\ proposals' = [proposals EXCEPT ![id] = new]
        BY <2>5, <3>2 DEF ExecuteProposal, RejectProposal, voting_closed
      <4>2. new.yes_weight = proposals[id].yes_weight /\ new.no_weight = proposals[id].no_weight
        BY <2>0 DEF Proposal
      <4> HIDE DEF new
      <4> QED
        BY <2>0, <4>1, <4>2
    <3> QED
      BY <3>1, <3>2
  <2> QED
    BY <2>1, <2>2, <2>3, <2>4, <2>5 DEF GovernanceNext, ProposalNext
<1>2. RateInv /\ AdminInv /\ [Next]_vars =>
        \A id \in 1..Len(proposals) :
          LET old == proposals[id]
              new == proposals'[id]
          IN  /\ ledger >= old.deadline =>
                    /\ proposalVotes'[id] = proposalVotes[id]
                    /\ new.yes_weight = old.yes_weight /\ new.no_weight = old.no_weight
              /\ old.executed \/ old.rejected => new = old
  BY <1>1
<1> QED
  BY <1>2, RateInvariant, AdminInvariant, PTL DEF Spec, ClosedProposalsFreeze

-----------------------------------------------------------------------------
\* Which entry points write what.  InitializeNext and RecipientsNext write the
\* split; only record_secondary_royalty counts activity besides.
LEMMA Writers ==
    ASSUME [Next]_vars
    PROVE  /\ InitializeNext \/ UNCHANGED initVars
           /\ \/ InitializeNext \/ RecipientsNext
              \/ UNCHANGED <<collaborators, shareMap, defaultRecipients, joinDate,
                             incentivesEnabled>>
           /\ PaymentsNext \/ UNCHANGED activity
           /\ EmergencyNext \/ SwitchNext \/ PaymentsNext \/ UNCHANGED switchVars
           /\ DepositNext \/ PaymentsNext \/ DisputesNext \/ UNCHANGED moneyVars
           /\ DisputesNext \/ UNCHANGED disputes
           /\ UpgradeNext \/ InitializeNext \/ UNCHANGED upgradeVars
<1> USE DEF initVars, shareVars, switchVars, moneyVars, upgradeVars
<1>1. CASE CloseLedger
  BY <1>1 DEF CloseLedger
<1>2. CASE InitializeNext
  BY <1>2 DEF InitializeNext, CommitInitialize, Initialize, RevealInitialize,
       initialize_validated
<1>3. CASE RecipientsNext
  BY <1>3 DEF RecipientsNext, SetRecipients, SetDefaultRecipients, UpdateShare,
       SetIncentivesEnabled
<1>4. CASE AdminNext
  BY <1>4 DEF AdminNext, AdminTransfer, ProposeAdminTransfer, AcceptAdmin, SetAdmins,
       InitiateAdminRotation, CancelAdminRotation, FinalizeAdminRotation,
       SetAdminRotationTimelock, NotAdmin
<1>5. CASE EmergencyNext \/ SwitchNext
  BY <1>5 DEF EmergencyNext, SwitchNext, SetPaused, Pause, Unpause, SetOperationPaused,
       TriggerEmergencyPause, ClearEmergencyPause, SetAnomalyThreshold, ClearAnomalyThreshold,
       SetApprovedTokens, NotSwitch
<1>6. CASE UpgradeNext
  BY <1>6 DEF UpgradeNext, UpdateWasm, Migrate, NotUpgrade
<1>7. CASE DepositNext
  BY <1>7 DEF DepositNext, Deposit
<1>8. CASE PaymentsNext
  <2>1. ASSUME NEW signers, NEW token, NEW amount, Withdraw(signers, token, amount)
        PROVE  UNCHANGED <<initVars, shareVars, switchVars, disputes, upgradeVars>>
    BY <2>1 DEF Withdraw
  <2>2. ASSUME NEW signers, NEW token, NEW from, NEW amount,
               RecordSecondaryRoyalty(signers, token, from, amount)
        PROVE  UNCHANGED <<initVars, collaborators, shareMap, defaultRecipients, joinDate,
                           incentivesEnabled, switchVars, disputes, upgradeVars>>
    BY <2>2 DEF RecordSecondaryRoyalty
  <2>3. ASSUME NEW signers, NEW token, NEW override,
               DistributeWithOverride(signers, token, override)
        PROVE  UNCHANGED <<initVars, shareVars, disputes, upgradeVars>>
    BY <2>3 DEF DistributeWithOverride, TripOnly, PrimaryFrame
  <2>4. ASSUME NEW signers, NEW token, NEW override, NEW paid,
               DistributeResilient(signers, token, override, paid)
        PROVE  UNCHANGED <<initVars, shareVars, disputes, upgradeVars>>
    BY <2>4 DEF DistributeResilient, PrimaryFrame
  <2>5. ASSUME NEW signers, NEW token, DistributeWithIncentives(signers, token)
        PROVE  UNCHANGED <<initVars, shareVars, disputes, upgradeVars>>
    BY <2>5 DEF DistributeWithIncentives, PrimaryFrame
  <2>6. ASSUME NEW signers, NEW tokens, BatchDistribute(signers, tokens)
        PROVE  UNCHANGED <<initVars, shareVars, disputes, upgradeVars>>
    BY <2>6 DEF BatchDistribute, PrimaryFrame
  <2>7. ASSUME NEW signers, DistributeSecondary(signers)
        PROVE  UNCHANGED <<initVars, shareVars, disputes, upgradeVars>>
    BY <2>7 DEF DistributeSecondary, TripOnly
  <2> QED
    BY <1>8, <2>1, <2>2, <2>3, <2>4, <2>5, <2>6, <2>7 DEF PaymentsNext
<1>9. CASE GovernanceNext
  BY <1>9 DEF GovernanceNext, ProposalNext, SetRoyaltyRate, ProposeRateChange, Vote,
       ExecuteProposal, RejectProposal, NotRate
<1>10. CASE DisputesNext
  BY <1>10 DEF DisputesNext, RecordDispute, ResolveDispute, Clawback, NotDispute
<1>11. CASE UNCHANGED vars
  BY <1>11 DEF vars
<1> QED
  BY <1>1, <1>2, <1>3, <1>4, <1>5, <1>6, <1>7, <1>8, <1>9, <1>10, <1>11 DEF Next

-----------------------------------------------------------------------------
\* Before initialize nobody passes check_admin_auth, and nothing that the split is
\* made of has been written.
FreshUntilInitialized ==
    ~initialized =>
        /\ adminList = <<>> /\ shareMap = EmptyMap /\ joinDate = EmptyMap
        /\ defaultRecipients = <<>> /\ appliedMigrations = <<>>

\* The collaborators fit a list that a distribution accepts.
CollaboratorsFit == initialized => collaborators # <<>> /\ Len(collaborators) <= MAX_RECIPIENTS

SetupInv ==
    /\ SetupTypeOK /\ FreshUntilInitialized /\ CollaboratorsFit
    /\ SplitIsWhole /\ DefaultsAreWhole

\* Whoever passes check_admin_auth acts for an initialized contract.
LEMMA AuthIsInitialized ==
    ASSUME FreshUntilInitialized, NEW signers, check_admin_auth(signers)
    PROVE  initialized
  BY DEF FreshUntilInitialized, check_admin_auth, initialized

\* An initialized contract stays initialized.
LEMMA StaysInitialized ==
    ASSUME AdminInv, [Next]_vars, initialized
    PROVE  initialized'
<1> USE SplitterAssumption
<1>1. CASE AdminNext
  BY <1>1 DEF AdminNext, AdminTransfer, ProposeAdminTransfer, AcceptAdmin, SetAdmins,
     InitiateAdminRotation, CancelAdminRotation, FinalizeAdminRotation,
     SetAdminRotationTimelock, initialized, AdminInv, AdminTypeOK
<1> QED
  BY <1>1, AdminFrame DEF initialized, adminVars
-----------------------------------------------------------------------------
\* A vector of recipients is a list with shares, to accounts.
LEMMA RecipientsAreList ==
    ASSUME NEW recipients \in Seq(Recipient)
    PROVE  /\ IsList(recipients)
           /\ \A i \in 1..Len(recipients) : recipients[i].address \in Address
           /\ AddressesOf(recipients) \in Seq(Address)
           /\ Len(AddressesOf(recipients)) = Len(recipients)
<1>1. \A i \in 1..Len(recipients) : recipients[i] \in Recipient
  OBVIOUS
<1>2. \A r \in Recipient : r.address \in Address /\ r.share \in Nat
  BY DEF Recipient
<1>3. \A i \in 1..Len(recipients) : recipients[i].address \in Address /\ recipients[i].share \in Nat
  BY <1>1, <1>2
<1>4. IsList(recipients)
  BY <1>3 DEF IsList
<1> QED
  BY <1>3, <1>4 DEF AddressesOf

\* The share map of a valid list has the list's shares and its total.
LEMMA ShareMapOfWhole ==
    ASSUME NEW recipients \in Seq(Recipient), validate_unique_addresses(recipients),
           \A i \in 1..Len(recipients) : recipients[i].share # 0,
           SumFunction(SharesOf(recipients)) = BPS
    PROVE  LET map == ShareMapOf(recipients)
               addresses == AddressesOf(recipients)
           IN  /\ IsInjective(addresses)
               /\ DOMAIN map = Range(addresses)
               /\ \A a \in DOMAIN map : map[a] # 0
               /\ SumFunction(map) = BPS
<1> DEFINE map == ShareMapOf(recipients)
           addresses == AddressesOf(recipients)
           n == Len(recipients)
           S == 1..n
           shares == SharesOf(recipients)
<1>0. /\ IsList(recipients) /\ n \in Nat
      /\ DOMAIN addresses = S
      /\ \A i \in S : addresses[i] = recipients[i].address
      /\ DOMAIN shares = S
      /\ \A i \in S : shares[i] = recipients[i].share /\ shares[i] \in Nat
      /\ SumFunction(shares) = SumFunctionOnSet(shares, S)
  BY RecipientsAreList, ListShares DEF AddressesOf
<1>1. IsInjective(addresses)
  BY DEF validate_unique_addresses
<1>2. DOMAIN map = Range(addresses) /\ Range(addresses) = {addresses[i] : i \in S}
  BY <1>0 DEF ShareMapOf, Range
<1>3. ASSUME NEW i \in S
      PROVE  map[addresses[i]] = recipients[i].share
  <2> DEFINE j == CHOOSE k \in 1..Len(recipients) : recipients[k].address = addresses[i]
  <2>1. j \in S /\ recipients[j].address = addresses[i]
    BY <1>0
  <2>2. j = i
    BY <1>0, <1>1, <2>1 DEF IsInjective
  <2>3. map[addresses[i]] = recipients[j].share
    BY <1>2 DEF ShareMapOf
  <2> QED
    BY <2>2, <2>3
<1>4. \A a \in DOMAIN map : map[a] # 0
  BY <1>2, <1>3
<1> HIDE DEF map, addresses, shares
<1>5. SumFunctionOnSet(map, Range(addresses)) = SumFunctionOnSet(shares, S)
  <2>1. Renames(addresses, map, shares)
    BY <1>0, <1>1, <1>3 DEF Renames, IntsOn
  <2>2. IsFiniteSet(S)
    BY <1>0, CountedSetIsFinite
  <2> QED
    BY <1>0, <2>1, <2>2, SumRenamed
<1>6. SumFunction(map) = BPS
  BY <1>0, <1>2, <1>5 DEF SumFunction, shares
<1> QED
  BY <1>1, <1>2, <1>4, <1>6 DEF map, addresses

\* Two vectors of one length are the addresses and the shares of their list.
LEMMA ZippedVectors ==
    ASSUME NEW addresses \in Seq(Address), NEW shares \in Seq(Nat), Len(addresses) = Len(shares)
    PROVE  LET recipients == Recipients(addresses, shares)
           IN  /\ recipients \in Seq(Recipient) /\ Len(recipients) = Len(addresses)
               /\ AddressesOf(recipients) = addresses /\ SharesOf(recipients) = shares
               /\ \A i \in 1..Len(shares) : recipients[i].share = shares[i]
<1> DEFINE recipients == Recipients(addresses, shares)
<1>1. /\ recipients \in Seq(Recipient) /\ Len(recipients) = Len(addresses)
      /\ \A i \in 1..Len(addresses) : /\ recipients[i].address = addresses[i]
                                      /\ recipients[i].share = shares[i]
  BY DEF Recipients, Recipient
<1> HIDE DEF recipients
<1>2. AddressesOf(recipients) = addresses
  <2>1. addresses = [i \in 1..Len(addresses) |-> addresses[i]]
    OBVIOUS
  <2> QED
    BY <1>1, <2>1 DEF AddressesOf
<1>3. SharesOf(recipients) = shares
  <2>1. shares = [i \in 1..Len(shares) |-> shares[i]]
    OBVIOUS
  <2> QED
    BY <1>1, <2>1 DEF SharesOf
<1> QED
  BY <1>1, <1>2, <1>3 DEF recipients

\* initialize and reveal_initialize install a whole split.
LEMMA InitializedStep ==
    ASSUME SetupInv, AdminInv, NEW addresses \in Seq(Address), NEW shares \in Seq(Nat),
           initialize_validated(addresses, shares),
           commitment' \in [collaborators : Seq(Address), shares : Seq(Nat), ledger : Nat] \cup {None}
    PROVE  SetupInv'
<1> DEFINE recipients == Recipients(addresses, shares)
<1>1. /\ addresses # <<>> /\ Len(addresses) <= MAX_RECIPIENTS /\ Len(addresses) = Len(shares)
      /\ SumFunction(shares) = BPS
      /\ \A i \in 1..Len(shares) : shares[i] # 0
      /\ validate_unique_addresses(recipients)
      /\ joinDate' = [a \in Range(addresses) |-> ledger]
      /\ admin' = addresses[1] /\ collaborators' = addresses
      /\ shareMap' = ShareMapOf(recipients)
      /\ UNCHANGED <<ledger, nonce, defaultRecipients, activity, incentivesEnabled>>
  BY DEF initialize_validated
<1>2. /\ recipients \in Seq(Recipient) /\ Len(recipients) = Len(addresses)
      /\ AddressesOf(recipients) = addresses /\ SharesOf(recipients) = shares
      /\ \A i \in 1..Len(shares) : recipients[i].share = shares[i]
  BY <1>1, ZippedVectors
<1> HIDE DEF recipients
<1>3. /\ IsInjective(addresses) /\ DOMAIN shareMap' = Range(addresses)
      /\ \A a \in DOMAIN shareMap' : shareMap'[a] # 0
      /\ SumFunction(shareMap') = BPS
  BY <1>1, <1>2, ShareMapOfWhole
<1>4. Range(addresses) \subseteq Address /\ addresses[1] \in Address /\ ledger \in Nat
  BY <1>1 DEF Range, AdminInv, AdminTypeOK
<1>5. IsMap(joinDate', Nat) /\ IsMap(shareMap', Nat)
  BY <1>1, <1>2, <1>4, ShareMapOfType DEF IsMap
<1>6. SetupTypeOK'
  BY <1>1, <1>5 DEF SetupInv, SetupTypeOK, IsMap
<1>7. initialized'
  BY <1>1, <1>4, SplitterAssumption DEF initialized
<1>8. SplitIsWhole' /\ CollaboratorsFit' /\ FreshUntilInitialized'
  BY <1>1, <1>3, <1>7 DEF SplitIsWhole, CollaboratorsFit, FreshUntilInitialized, get_total_shares
<1>9. DefaultsAreWhole'
  BY <1>1 DEF SetupInv, DefaultsAreWhole
<1> QED
  BY <1>6, <1>8, <1>9 DEF SetupInv

\* A vector without duplicates has as many values as elements.
LEMMA DistinctValues ==
    ASSUME NEW T, NEW s \in Seq(T), IsInjective(s)
    PROVE  IsFiniteSet(Range(s)) /\ Cardinality(Range(s)) = Len(s)
<1> DEFINE S == 1..Len(s)
<1>1. Len(s) \in Nat /\ DOMAIN s = S
  OBVIOUS
<1>2. IsFiniteSet(S) /\ Cardinality(S) = Len(s)
  BY <1>1, FS_Interval
<1>3. s \in [S -> Range(s)]
  BY <1>1 DEF Range
<1>4. s \in Surjection(S, Range(s)) /\ s \in Injection(S, Range(s))
  BY <1>1, <1>3 DEF Surjection, Injection, Range
<1> QED
  BY <1>2, <1>4, FS_Surjection

\* set_recipients replaces the split by a whole one and keeps the join dates.
LEMMA SetRecipientsStep ==
    ASSUME SetupInv, AdminInv, NEW signers, NEW recipients \in RecipientLists,
           SetRecipients(signers, recipients)
    PROVE  SetupInv'
<1>1. /\ recipients \in Seq(Recipient) /\ validate_recipient_list(recipients)
      /\ collaborators' = AddressesOf(recipients)
      /\ shareMap' = ShareMapOf(recipients)
      /\ joinDate' = JoinDates(collaborators')
      /\ UNCHANGED <<admin, adminList, initVars, defaultRecipients, activity, incentivesEnabled,
                     appliedMigrations>>
  BY SplitterAssumption DEF SetRecipients, Recipient, adminVars, upgradeVars
<1>2. /\ Len(recipients) # 0 /\ Len(recipients) <= MAX_RECIPIENTS
      /\ validate_unique_addresses(recipients)
      /\ \A i \in 1..Len(recipients) : recipients[i].share # 0
      /\ SumFunction(SharesOf(recipients)) = BPS
  BY <1>1 DEF validate_recipient_list
<1>3. collaborators' \in Seq(Address) /\ Len(collaborators') = Len(recipients)
  BY <1>1, RecipientsAreList
<1>4. /\ IsInjective(collaborators') /\ DOMAIN shareMap' = Range(collaborators')
      /\ \A a \in DOMAIN shareMap' : shareMap'[a] # 0
      /\ SumFunction(shareMap') = BPS
  BY <1>1, <1>2, ShareMapOfWhole
<1>5. Range(collaborators') \subseteq Address /\ ledger \in Nat
  BY <1>3 DEF Range, AdminInv, AdminTypeOK
<1>6. IsMap(joinDate', Nat) /\ Range(collaborators') \subseteq DOMAIN joinDate'
  BY <1>1, <1>5 DEF JoinDates, MapGet, IsMap, SetupInv, SetupTypeOK
<1>7. IsMap(shareMap', Nat)
  BY <1>1, ShareMapOfType
<1>8. SetupTypeOK'
  BY <1>1, <1>3, <1>6, <1>7 DEF SetupInv, SetupTypeOK, initVars, IsMap
<1>9. initialized /\ initialized'
  BY <1>1, AuthIsInitialized DEF SetupInv, SetRecipients, initialized
<1>10. SplitIsWhole' /\ CollaboratorsFit' /\ FreshUntilInitialized'
  BY <1>2, <1>3, <1>4, <1>6, <1>9 DEF SplitIsWhole, CollaboratorsFit, FreshUntilInitialized,
     get_total_shares
<1>11. DefaultsAreWhole'
  BY <1>1 DEF SetupInv, DefaultsAreWhole
<1> QED
  BY <1>8, <1>10, <1>11 DEF SetupInv

\* set_default_recipients stores a list a distribution accepts.
LEMMA SetDefaultRecipientsStep ==
    ASSUME SetupInv, NEW signers, NEW recipients \in RecipientLists,
           SetDefaultRecipients(signers, recipients)
    PROVE  SetupInv'
<1>1. /\ recipients \in Seq(Recipient) /\ validate_recipient_list(recipients)
      /\ defaultRecipients' = recipients
      /\ UNCHANGED <<admin, adminList, initVars, collaborators, shareMap, joinDate, activity,
                     incentivesEnabled, appliedMigrations>>
  BY SplitterAssumption DEF SetDefaultRecipients, DefaultsAccepted, Recipient, adminVars,
     upgradeVars
<1>2. AddressesOf(recipients) \in Seq(Address) /\ Len(AddressesOf(recipients)) = Len(recipients)
  BY <1>1, RecipientsAreList
<1>3. Cardinality(Range(AddressesOf(recipients))) = Len(recipients)
  BY <1>1, <1>2, DistinctValues DEF validate_recipient_list, validate_unique_addresses
<1>4. DefaultsAreWhole'
  BY <1>1, <1>3 DEF DefaultsAreWhole, validate_recipient_list
<1>5. initialized /\ initialized'
  BY <1>1, AuthIsInitialized DEF SetupInv, SetDefaultRecipients, initialized
<1>6. SplitIsWhole' /\ CollaboratorsFit' /\ FreshUntilInitialized'
  BY <1>1, <1>5 DEF SetupInv, SplitIsWhole, CollaboratorsFit, FreshUntilInitialized,
     get_total_shares
<1>7. SetupTypeOK'
  BY <1>1 DEF SetupInv, SetupTypeOK, initVars, IsMap
<1> QED
  BY <1>4, <1>6, <1>7 DEF SetupInv

\* update_share moves one share and leaves the total whole.
LEMMA UpdateShareStep ==
    ASSUME SetupInv, NEW signers, NEW x \in Address, NEW share \in NewShares,
           UpdateShare(signers, x, share)
    PROVE  SetupInv'
<1> DEFINE S == DOMAIN shareMap
           map == [shareMap EXCEPT ![x] = share]
<1>1. /\ x \in S /\ share # 0 /\ share \in Nat /\ shareMap' = map
      /\ SumFunction(shareMap) - shareMap[x] + share = BPS
      /\ UNCHANGED <<admin, adminList, initVars, collaborators, defaultRecipients, joinDate,
                     activity, incentivesEnabled, appliedMigrations>>
  BY SetupAssumption DEF UpdateShare, TotalStaysWhole, get_total_shares, adminVars, upgradeVars
<1>2. initialized /\ initialized'
  BY <1>1, AuthIsInitialized DEF SetupInv, UpdateShare, initialized
<1>3. /\ collaborators \in Seq(Address) /\ IsInjective(collaborators)
      /\ S = Range(collaborators) /\ S \subseteq Address
      /\ shareMap \in [S -> Nat]
      /\ \A a \in S : shareMap[a] # 0
  BY <1>2 DEF SetupInv, SetupTypeOK, SplitIsWhole, IsMap
<1>4. /\ map \in [S -> Nat] /\ map[x] = share
      /\ \A a \in S \ {x} : map[a] = shareMap[a]
      /\ \A a \in S : map[a] # 0
  BY <1>1, <1>3
<1> HIDE DEF map
<1>5. IsFiniteSet(S)
  BY <1>3, DistinctValues
<1>6. SumFunctionOnSet(map, S) = BPS
  <2> DEFINE old == SumFunctionOnSet(shareMap, S \ {x})
             new == SumFunctionOnSet(map, S \ {x})
  <2>1. IntsOn(map, S) /\ IntsOn(shareMap, S) /\ IntsOn(shareMap, S \ {x})
    BY <1>3, <1>4 DEF IntsOn
  <2>2. IsFiniteSet(S \ {x})
    BY <1>5, FS_RemoveElement
  <2>3. SumFunctionOnSet(map, S) = map[x] + new
    BY <1>1, <1>5, <2>1, SumRemove
  <2>4. SumFunctionOnSet(shareMap, S) = shareMap[x] + old
    BY <1>1, <1>5, <2>1, SumRemove
  <2>5. old = new
    BY <1>4, <2>1, <2>2, SumEqual
  <2>6. old \in Int
    BY <2>1, <2>2, SumType
  <2> HIDE DEF old, new
  <2>7. SumFunctionOnSet(shareMap, S) - shareMap[x] + share = BPS /\ shareMap[x] \in Nat
    BY <1>1, <1>3 DEF SumFunction
  <2> QED
    BY <1>1, <1>4, <2>3, <2>4, <2>5, <2>6, <2>7
<1>7. SplitIsWhole'
  BY <1>1, <1>3, <1>4, <1>6, <1>2 DEF SetupInv, SplitIsWhole, get_total_shares, SumFunction
<1>8. IsMap(shareMap', Nat)
  BY <1>1, <1>3, <1>4 DEF IsMap
<1>9. SetupTypeOK'
  BY <1>1, <1>8 DEF SetupInv, SetupTypeOK, initVars, IsMap
<1> QED
  BY <1>1, <1>2, <1>7, <1>9 DEF SetupInv, CollaboratorsFit, FreshUntilInitialized,
     DefaultsAreWhole

\* What no entry point but set_admins and migrate writes is fresh as long as nobody
\* can call them.
LEMMA FreshStep ==
    ASSUME SetupInv, AdminInv, [Next]_vars, ~initialized'
    PROVE  /\ ~initialized
           /\ adminList' = adminList /\ appliedMigrations' = appliedMigrations
<1>1. ~initialized
  BY StaysInitialized
<1>2. \A signers : ~check_admin_auth(signers)
  BY <1>1, AuthIsInitialized DEF SetupInv
<1>3. adminList' = adminList
  <2>1. CASE AdminNext
    BY <1>2, <2>1 DEF AdminNext, AdminTransfer, ProposeAdminTransfer, AcceptAdmin, SetAdmins,
       InitiateAdminRotation, CancelAdminRotation, FinalizeAdminRotation,
       SetAdminRotationTimelock
  <2> QED
    BY <2>1, AdminFrame DEF adminVars
<1>4. appliedMigrations' = appliedMigrations
  <2>1. CASE UpgradeNext
    BY <1>2, <2>1 DEF UpgradeNext, UpdateWasm, Migrate
  <2>2. CASE InitializeNext
    BY <2>2 DEF InitializeNext, CommitInitialize, Initialize, RevealInitialize,
       initialize_validated, upgradeVars
  <2> QED
    BY <2>1, <2>2, Writers DEF upgradeVars
<1> QED
  BY <1>1, <1>3, <1>4

\* A step that leaves the split alone keeps SetupInv if it keeps its types.
LEMMA SplitUntouched ==
    ASSUME SetupInv, AdminInv, [Next]_vars, SetupTypeOK',
           UNCHANGED <<collaborators, shareMap, defaultRecipients, joinDate>>,
           initialized' => initialized
    PROVE  SetupInv'
<1>1. SplitIsWhole' /\ CollaboratorsFit' /\ DefaultsAreWhole'
  BY DEF SetupInv, SplitIsWhole, CollaboratorsFit, DefaultsAreWhole, get_total_shares
<1>2. FreshUntilInitialized'
  BY FreshStep DEF SetupInv, FreshUntilInitialized
<1> QED
  BY <1>1, <1>2 DEF SetupInv

\* record_secondary_royalty counts the activity of collaborators.
LEMMA ActivityStep ==
    ASSUME IsMap(activity, Nat), PaymentsNext
    PROVE  IsMap(activity', Nat)
<1>1. ASSUME UNCHANGED activity
      PROVE  IsMap(activity', Nat)
  BY <1>1 DEF IsMap
<1>2. ASSUME NEW signers, NEW token, NEW from \in Address, NEW amount,
             RecordSecondaryRoyalty(signers, token, from, amount)
      PROVE  IsMap(activity', Nat)
  <2>1. CASE from \in DOMAIN shareMap
    <3>1. activity' = MapSet(activity, from, MapGet(activity, from, 0) + 1)
      BY <1>2, <2>1 DEF RecordSecondaryRoyalty
    <3>2. MapGet(activity, from, 0) \in Nat
      BY DEF MapGet, IsMap
    <3> QED
      BY <3>1, <3>2 DEF IsMap, MapSet
  <2>2. CASE from \notin DOMAIN shareMap
    BY <1>1, <1>2, <2>2 DEF RecordSecondaryRoyalty
  <2> QED
    BY <2>1, <2>2
<1>3. ASSUME NEW signers, NEW token, NEW amount, Withdraw(signers, token, amount)
      PROVE  UNCHANGED activity
  BY <1>3 DEF Withdraw, shareVars
<1>4. ASSUME NEW signers, NEW token, NEW override,
             DistributeWithOverride(signers, token, override)
      PROVE  UNCHANGED activity
  BY <1>4 DEF DistributeWithOverride, TripOnly, PrimaryFrame, shareVars
<1>5. ASSUME NEW signers, NEW token, NEW override, NEW paid,
             DistributeResilient(signers, token, override, paid)
      PROVE  UNCHANGED activity
  BY <1>5 DEF DistributeResilient, PrimaryFrame, shareVars
<1>6. ASSUME NEW signers, NEW token, DistributeWithIncentives(signers, token)
      PROVE  UNCHANGED activity
  BY <1>6 DEF DistributeWithIncentives, PrimaryFrame, shareVars
<1>7. ASSUME NEW signers, NEW tokens, BatchDistribute(signers, tokens)
      PROVE  UNCHANGED activity
  BY <1>7 DEF BatchDistribute, PrimaryFrame, shareVars
<1>8. ASSUME NEW signers, DistributeSecondary(signers)
      PROVE  UNCHANGED activity
  BY <1>8 DEF DistributeSecondary, TripOnly, shareVars
<1> QED
  BY <1>1, <1>2, <1>3, <1>4, <1>5, <1>6, <1>7, <1>8 DEF PaymentsNext

\* A contract just deployed has no split yet.
LEMMA SetupInvInit == Init => SetupInv
<1> SUFFICES ASSUME Init PROVE SetupInv
  OBVIOUS
<1>1. /\ admin = None /\ adminList = <<>> /\ commitment = None /\ nonce = 0
      /\ collaborators = <<>> /\ shareMap = EmptyMap /\ defaultRecipients = <<>>
      /\ joinDate = EmptyMap /\ activity = EmptyMap /\ incentivesEnabled = FALSE
      /\ appliedMigrations = <<>>
  BY DEF Init, Deployed
<1>2. IsMap(EmptyMap, Nat)
  BY DEF IsMap, EmptyMap
<1>3. ~initialized
  BY <1>1 DEF initialized
<1>4. SetupTypeOK
  <2>1. IsMap(shareMap, Nat) /\ IsMap(joinDate, Nat) /\ IsMap(activity, Nat)
    BY <1>1, <1>2
  <2>2. collaborators \in Seq(Address) /\ defaultRecipients \in Seq(Recipient)
    BY <1>1
  <2> QED
    BY <1>1, <2>1, <2>2 DEF SetupTypeOK
<1>5. FreshUntilInitialized /\ CollaboratorsFit /\ SplitIsWhole /\ DefaultsAreWhole
  BY <1>1, <1>3 DEF FreshUntilInitialized, CollaboratorsFit, SplitIsWhole, DefaultsAreWhole
<1> QED
  BY <1>4, <1>5 DEF SetupInv

\* Each entry point keeps SetupInv.
LEMMA SetupInvStep == AdminInv /\ SetupInv /\ [Next]_vars => SetupInv'
<1> SUFFICES ASSUME AdminInv, SetupInv, [Next]_vars
             PROVE  SetupInv'
  OBVIOUS
<1>1. CASE InitializeNext
  <2>1. PICK in \in InitInputs :
            \/ CommitInitialize(in[1], in[2])
            \/ \E signers \in AuthSets : \/ Initialize(signers, in[1], in[2])
                                         \/ RevealInitialize(signers, in[1], in[2])
    BY <1>1 DEF InitializeNext
  <2>2. in[1] \in Seq(Address) /\ in[2] \in Seq(Nat)
    BY SetupAssumption
  <2>3. CASE CommitInitialize(in[1], in[2])
    <3>1. /\ commitment' = [collaborators |-> in[1], shares |-> in[2], ledger |-> ledger]
          /\ nonce' = nonce + 1 /\ ledger \in Nat
          /\ UNCHANGED <<collaborators, shareMap, defaultRecipients, joinDate, activity,
                         incentivesEnabled, admin>>
      BY <2>3 DEF CommitInitialize, AdminInv, AdminTypeOK, shareVars, adminVars
    <3>2. SetupTypeOK'
      BY <2>2, <3>1 DEF SetupInv, SetupTypeOK, IsMap
    <3> QED
      BY <3>1, <3>2, SplitUntouched DEF initialized
  <2>4. ASSUME NEW signers \in AuthSets, \/ Initialize(signers, in[1], in[2])
                                         \/ RevealInitialize(signers, in[1], in[2])
        PROVE  SetupInv'
    <3>1. initialize_validated(in[1], in[2]) /\ (UNCHANGED commitment \/ commitment' = None)
      BY <2>4 DEF Initialize, RevealInitialize
    <3>2. commitment' \in [collaborators : Seq(Address), shares : Seq(Nat), ledger : Nat] \cup {None}
      BY <3>1 DEF SetupInv, SetupTypeOK
    <3> QED
      BY <2>2, <3>1, <3>2, InitializedStep
  <2> QED
    BY <2>1, <2>3, <2>4
<1>2. CASE RecipientsNext
  <2>1. ASSUME NEW signers, NEW enabled \in BOOLEAN, SetIncentivesEnabled(signers, enabled)
        PROVE  SetupInv'
    <3>1. /\ UNCHANGED <<admin, initVars, collaborators, shareMap, defaultRecipients, joinDate,
                         activity>>
          /\ incentivesEnabled' = enabled
      BY <2>1 DEF SetIncentivesEnabled, adminVars
    <3>2. SetupTypeOK'
      BY <3>1 DEF SetupInv, SetupTypeOK, initVars, IsMap
    <3> QED
      BY <3>1, <3>2, SplitUntouched DEF initialized
  <2> QED
    BY <1>2, <2>1, SetRecipientsStep, SetDefaultRecipientsStep, UpdateShareStep
       DEF RecipientsNext
<1>3. CASE ~InitializeNext /\ ~RecipientsNext
  <2>1. UNCHANGED <<initVars, collaborators, shareMap, defaultRecipients, joinDate,
                    incentivesEnabled>>
    BY <1>3, Writers
  <2>2. IsMap(activity', Nat)
    BY Writers, ActivityStep DEF SetupInv, SetupTypeOK, IsMap
  <2>3. SetupTypeOK'
    BY <2>1, <2>2 DEF SetupInv, SetupTypeOK, initVars, IsMap
  <2>4. initialized' => initialized
    <3>1. CASE AdminNext
      BY <3>1 DEF AdminNext, AdminTransfer, ProposeAdminTransfer, AcceptAdmin, SetAdmins,
         InitiateAdminRotation, CancelAdminRotation, FinalizeAdminRotation,
         SetAdminRotationTimelock, initialized
    <3>2. CASE UNCHANGED admin
      BY <3>2 DEF initialized
    <3> QED
      BY <1>3, <3>1, <3>2, AdminFrame DEF adminVars
  <2> QED
    BY <2>1, <2>3, <2>4, SplitUntouched
<1> QED
  BY <1>1, <1>2, <1>3

\* The split and the defaults keep SetupInv through every entry point.
LEMMA SetupInvariant == Spec => []SetupInv
  BY SetupInvInit, SetupInvStep, AdminInvariant, PTL DEF Spec

-----------------------------------------------------------------------------
\* A list whose shares make up the whole.
Payable(recipients) ==
    /\ recipients \in Seq(Recipient) /\ Len(recipients) # 0
    /\ SumFunction(SharesOf(recipients)) = BPS

\* A holding of every token by every holder, none overdrawn.
Holdings == [Token -> [Holder -> Nat]]

\* What the contract pays of an amount it holds overdraws nobody, takes nothing from
\* an account, and is the whole amount when every transfer succeeds.
LEMMA PaidOutHolds ==
    ASSUME balance \in Holdings, NEW token \in Token, NEW recipients, Payable(recipients),
           NEW amount \in Nat, amount <= held(token), NEW paid \in SUBSET (1..Len(recipients))
    PROVE  LET new == PaidOut(token, recipients, Split(amount, recipients), paid)
           IN  /\ new \in [Holder -> Nat]
               /\ \A a \in Address : new[a] >= balance[token][a]
               /\ paid = 1..Len(recipients) => new[Self] = held(token) - amount
<1> DEFINE n == Len(recipients)
           payouts == Split(amount, recipients)
           new == PaidOut(token, recipients, payouts, paid)
           all == SumFunctionOnSet(payouts, 1..n)
           part == SumFunctionOnSet(payouts, paid)
           To(h) == {i \in paid : recipients[i].address = h}
           gain(h) == SumFunctionOnSet(payouts, To(h))
<1>1. IsList(recipients) /\ n \in Nat \ {0}
  BY RecipientsAreList DEF Payable, IsList
<1>2. all = amount
  BY <1>1, SplitConsists
<1>3. \A i \in 1..n : payouts[i] \in Nat
  BY <1>1, SplitIsFair DEF Payable
<1>4. IsFiniteSet(1..n)
  BY <1>1, FS_Interval
<1> HIDE DEF payouts
<1>5. /\ all \in Nat /\ part <= all
      /\ IsFiniteSet(paid) /\ \A i \in paid : payouts[i] \in Nat
  BY <1>3, <1>4, SumNonNegative, SumOfPart, FS_Subset
<1>6. part \in Nat
  BY <1>5, SumNonNegative
<1>7. ASSUME NEW h
      PROVE  gain(h) \in Nat
  <2>1. To(h) \in SUBSET paid
    OBVIOUS
  <2> HIDE DEF To
  <2>2. IsFiniteSet(To(h)) /\ \A i \in To(h) : payouts[i] \in Nat
    BY <1>5, <2>1, FS_Subset
  <2> QED
    BY <2>2, SumNonNegative
<1> HIDE DEF all, part, gain
<1>8. /\ \A h \in Holder : balance[token][h] \in Nat
      /\ held(token) \in Nat /\ Self \in Holder /\ Self \notin Address
      /\ Address \subseteq Holder
  BY SplitterAssumption DEF Holdings, Holder, held
<1>9. new = [h \in Holder |-> IF h = Self THEN held(token) - part
                              ELSE balance[token][h] + gain(h)]
  BY DEF PaidOut, part, gain
<1> HIDE DEF new
<1>10. held(token) - part \in Nat
  BY <1>2, <1>5, <1>6, <1>8
<1>11. new \in [Holder -> Nat]
  BY <1>7, <1>8, <1>9, <1>10
<1>12. \A a \in Address : new[a] >= balance[token][a]
  BY <1>7, <1>8, <1>9
<1>13. paid = 1..n => new[Self] = held(token) - amount
  BY <1>2, <1>8, <1>9 DEF all, part
<1> QED
  BY <1>11, <1>12, <1>13 DEF new, payouts

\* A transfer of an amount the sender holds.
LEMMA TransferHolds ==
    ASSUME balance \in Holdings, NEW token \in Token, NEW from \in Holder, NEW to \in Holder,
           NEW amount \in Nat, from # to, Transfer(token, from, to, amount)
    PROVE  /\ balance' \in Holdings
           /\ \A other \in Token \ {token} : balance'[other] = balance[other]
           /\ \A h \in Holder \ {from, to} : balance'[token][h] = balance[token][h]
           /\ balance'[token][from] = balance[token][from] - amount
           /\ balance'[token][to] = balance[token][to] + amount
<1> DEFINE new == [balance[token] EXCEPT ![from] = balance[token][from] - amount,
                                         ![to] = balance[token][to] + amount]
<1>1. balance[token] \in [Holder -> Nat] /\ amount <= balance[token][from]
  BY DEF Holdings, Transfer
<1>2. balance' = [balance EXCEPT ![token] = new]
  BY <1>1 DEF Transfer, Holdings
<1>3. /\ new \in [Holder -> Nat]
      /\ \A h \in Holder \ {from, to} : new[h] = balance[token][h]
      /\ new[from] = balance[token][from] - amount
      /\ new[to] = balance[token][to] + amount
  BY <1>1
<1> HIDE DEF new
<1> QED
  BY <1>2, <1>3 DEF Holdings

\* The collaborators with their shares are a list that distributions accept.
LEMMA CollaboratorsPayable ==
    ASSUME SetupInv
    PROVE  /\ get_recipients \in Seq(Recipient) /\ Len(get_recipients) = Len(collaborators)
           /\ initialized => Payable(get_recipients) /\ validate_recipient_list(get_recipients)
<1> DEFINE list == get_recipients
           n == Len(collaborators)
<1>1. /\ n \in Nat /\ DOMAIN collaborators = 1..n
      /\ \A i \in 1..n : collaborators[i] \in Address
      /\ \A a : MapGet(shareMap, a, 0) \in Nat
  BY DEF SetupInv, SetupTypeOK, IsMap, MapGet
<1>2. /\ list \in Seq(Recipient) /\ Len(list) = n
      /\ \A i \in 1..n : /\ list[i].address = collaborators[i]
                         /\ list[i].share = MapGet(shareMap, collaborators[i], 0)
  BY <1>1 DEF get_recipients, Recipient
<1> HIDE DEF list
<1>3. ASSUME initialized
      PROVE  Payable(list) /\ validate_recipient_list(list)
  <2>1. /\ IsInjective(collaborators) /\ DOMAIN shareMap = Range(collaborators)
        /\ \A a \in DOMAIN shareMap : shareMap[a] # 0
        /\ SumFunction(shareMap) = BPS
        /\ n # 0 /\ n <= MAX_RECIPIENTS
    BY <1>1, <1>3 DEF SetupInv, SplitIsWhole, CollaboratorsFit, get_total_shares, SetupTypeOK
  <2>2. \A i \in 1..n : /\ collaborators[i] \in DOMAIN shareMap
                        /\ list[i].share = shareMap[collaborators[i]]
    BY <1>1, <1>2, <2>1 DEF Range, MapGet
  <2>3. IsList(list) /\ validate_unique_addresses(list)
    <3>1. IsList(list)
      BY <1>2, RecipientsAreList
    <3>2. DOMAIN AddressesOf(list) = 1..n /\ \A i \in 1..n : AddressesOf(list)[i] = collaborators[i]
      BY <1>2 DEF AddressesOf
    <3> QED
      BY <1>1, <2>1, <3>1, <3>2 DEF validate_unique_addresses, IsInjective
  <2> DEFINE shares == SharesOf(list)
  <2>4. /\ DOMAIN shares = 1..n
        /\ \A i \in 1..n : shares[i] = list[i].share /\ shares[i] \in Nat
        /\ SumFunction(shares) = SumFunctionOnSet(shares, 1..n)
    BY <1>2, <2>3, ListShares
  <2>5. Len(shares) = n
    BY <1>1, <1>2 DEF SharesOf
  <2> HIDE DEF shares
  <2>6. SumFunction(shares) = BPS
    <3>1. Renames(collaborators, shareMap, shares)
      BY <1>1, <2>1, <2>2, <2>4 DEF Renames, IntsOn
    <3>2. IsFiniteSet(1..n)
      BY <1>1, FS_Interval
    <3>3. SumFunctionOnSet(shareMap, Range(collaborators)) = SumFunctionOnSet(shares, 1..n)
      BY <1>1, <3>1, <3>2, SumRenamed
    <3> QED
      BY <2>1, <2>4, <3>3 DEF SumFunction
  <2>7. checked_share_total_ok(shares)
    <3>1. U32_MAX \in Int /\ BPS <= U32_MAX
      BY ShareMathAssumption DEF BPS
    <3>2. SumFunctionOnSet(shares, 1..Len(shares)) <= U32_MAX
      BY <2>4, <2>5, <2>6, <3>1
    <3>3. Len(shares) \in Nat /\ \A i \in 1..Len(shares) : shares[i] \in Nat
      BY <1>1, <2>4, <2>5
    <3> QED
      BY <3>1, <3>2, <3>3, TotalFits DEF checked_share_total_ok
  <2> QED
    BY <1>2, <2>1, <2>2, <2>3, <2>6, <2>7 DEF Payable, validate_recipient_list, shares
<1> QED
  BY <1>2, <1>3 DEF list

\* A bonus is a number, whatever the join date and the activity.
LEMMA BonusType ==
    ASSUME SetupInv, AdminInv, NEW a
    PROVE  incentive_bonus_bps(a) \in Nat
<1> DEFINE early == IF a \in DOMAIN joinDate /\ ledger - joinDate[a] <= EARLY_ADOPTER_WINDOW
                    THEN EARLY_ADOPTER_BONUS_BPS ELSE 0
           steps == Lesser(MapGet(activity, a, 0) \div ACTIVITY_BONUS_STEP,
                           ACTIVITY_BONUS_MAX_STEPS)
<1>1. early \in Nat
  BY DEF EARLY_ADOPTER_BONUS_BPS
<1>2. MapGet(activity, a, 0) \in Nat /\ ACTIVITY_BONUS_STEP \in Nat \ {0}
  BY PaymentsAssumption DEF SetupInv, SetupTypeOK, IsMap, MapGet
<1>3. MapGet(activity, a, 0) \div ACTIVITY_BONUS_STEP \in Nat
  BY <1>2
<1>4. steps \in Nat
  BY <1>3 DEF Lesser, ACTIVITY_BONUS_MAX_STEPS
<1> HIDE DEF early, steps
<1>5. Lesser(early + steps * ACTIVITY_BONUS_BPS_PER_STEP, MAX_INDIVIDUAL_INCENTIVE_BPS) \in Nat
  BY <1>1, <1>4 DEF Lesser, ACTIVITY_BONUS_BPS_PER_STEP, MAX_INDIVIDUAL_INCENTIVE_BPS
<1> QED
  BY <1>5 DEF incentive_bonus_bps, early, steps

\* The shares with incentives make up the whole again, and when everybody has two
\* basis points or more nobody's share vanishes.
LEMMA IncentivesPayable ==
    ASSUME SetupInv, AdminInv, initialized
    PROVE  /\ Payable(calculate_incentive_shares)
           /\ (\A a \in DOMAIN shareMap : shareMap[a] >= 2) =>
                 validate_recipient_list(calculate_incentive_shares)
<1> DEFINE base == get_recipients
           n == Len(collaborators)
           raw == [i \in 1..n |-> incentive_bonus_bps(collaborators[i])]
           adjusted == AdjustShares(base, raw)
<1>1. /\ Payable(base) /\ validate_recipient_list(base) /\ Len(base) = n
      /\ base \in Seq(Recipient)
  BY CollaboratorsPayable
<1>2. CASE calculate_incentive_shares = base
  BY <1>1, <1>2
<1>3. ASSUME calculate_incentive_shares # base
      PROVE  /\ calculate_incentive_shares = adjusted
             /\ SumFunction(raw) # 0
  BY <1>3 DEF calculate_incentive_shares, AdjustShares
<1>4. CASE calculate_incentive_shares # base
  <2>1. IsList(base) /\ Len(base) # 0 /\ SumFunction(SharesOf(base)) = BPS
    BY <1>1, RecipientsAreList DEF Payable
  <2>2. raw \in [1..Len(base) -> Nat]
    BY <1>1, BonusType
  <2> DEFINE scaled == ScaledBonuses(raw)
             pool == BPS - SumFunctionOnSet(scaled, 1..n)
  <2> HIDE DEF raw
  <2>3. /\ IsList(adjusted) /\ Len(adjusted) = n /\ DOMAIN adjusted = 1..n
        /\ \A i \in 1..n : adjusted[i].address = base[i].address
        /\ SumFunction(SharesOf(adjusted)) = BPS
        /\ \A i \in 1..n : adjusted[i].share >= (base[i].share * pool) \div BPS + scaled[i]
    BY <1>1, <1>3, <1>4, <2>1, <2>2, AdjustmentIsWhole
  <2>4. adjusted \in Seq(Recipient)
    <3>1. Recipients(AddressesOf(base), SharesOf(adjusted)) \in Seq(Recipient)
      <4>1. AddressesOf(base) \in Seq(Address) /\ Len(AddressesOf(base)) = n
        BY <1>1, RecipientsAreList
      <4>2. SharesOf(adjusted) \in Seq(Nat) /\ Len(SharesOf(adjusted)) = n
        BY <2>3 DEF SharesOf, IsList
      <4> HIDE DEF base, adjusted
      <4> QED
        BY <4>1, <4>2, ZippedVectors
    <3>2. adjusted = Recipients(AddressesOf(base), SharesOf(adjusted))
      <4> DEFINE front == [i \in 1..(Len(base) - 1) |->
                             (base[i].share * (BPS - SumFunction(scaled))) \div BPS + scaled[i]]
                 shares == Append(front, BPS - SumFunction(front))
      <4>1. adjusted = Recipients(AddressesOf(base), shares)
        BY <1>3, <1>4 DEF AdjustShares
      <4> HIDE DEF shares
      <4>2. Len(AddressesOf(base)) = n /\ n \in Nat
        BY <1>1, <2>1, RecipientsAreList DEF IsList
      <4>3. \A i \in 1..n : SharesOf(adjusted)[i] = shares[i]
        BY <4>1, <4>2, <2>3 DEF SharesOf, Recipients
      <4> QED
        BY <4>1, <4>2, <4>3 DEF Recipients
    <3> QED
      BY <3>1, <3>2
  <2>5. Payable(adjusted)
    BY <1>1, <2>1, <2>3, <2>4 DEF Payable
  <2>6. ASSUME \A a \in DOMAIN shareMap : shareMap[a] >= 2
        PROVE  validate_recipient_list(adjusted)
    <3>1. /\ scaled \in [1..n -> Nat] /\ n \in Nat
          /\ SumFunctionOnSet(scaled, 1..n) \in 0..MAX_TOTAL_INCENTIVE_BPS
      BY <1>1, <2>1, <2>2, BonusesAreCapped DEF IsList
    <3>2. pool \in Nat /\ pool >= 8000
      <4> DEFINE sum == SumFunctionOnSet(scaled, 1..n)
      <4> HIDE DEF sum
      <4>1. sum \in 0..2000
        BY <3>1 DEF sum, MAX_TOTAL_INCENTIVE_BPS
      <4>2. BPS - sum \in Nat /\ BPS - sum >= 8000
        BY <4>1 DEF BPS
      <4> QED
        BY <4>2 DEF sum
    <3> HIDE DEF scaled, pool
    <3>3. ASSUME NEW i \in 1..n
          PROVE  adjusted[i].share # 0
      <4>1. base[i].share \in Nat /\ base[i].share >= 2
        <5>1. collaborators[i] \in DOMAIN shareMap
          BY DEF SetupInv, SplitIsWhole, Range, SetupTypeOK
        <5>2. base[i].share = shareMap[collaborators[i]]
          BY <5>1 DEF get_recipients, MapGet
        <5> QED
          BY <1>1, <2>1, <2>6, <5>1, <5>2 DEF IsList
      <4> DEFINE p == base[i].share * pool
      <4>2. p \in Nat /\ p >= 16000
        BY <3>2, <4>1
      <4> HIDE DEF p
      <4>3. p \div BPS >= 1 /\ p \div BPS \in Nat
        BY <4>2 DEF BPS
      <4>4. adjusted[i].share >= p \div BPS + scaled[i] /\ scaled[i] \in Nat
        BY <2>3, <3>1 DEF p
      <4>5. adjusted[i].share \in Nat
        BY <2>3 DEF IsList
      <4> QED
        BY <4>3, <4>4, <4>5
    <3> HIDE DEF adjusted
    <3>4. validate_unique_addresses(adjusted)
      <4>1. AddressesOf(adjusted) = AddressesOf(base)
        BY <1>1, <2>3 DEF AddressesOf
      <4> QED
        BY <1>1, <4>1 DEF validate_recipient_list, validate_unique_addresses
    <3>5. checked_share_total_ok(SharesOf(adjusted))
      <4> DEFINE shares == SharesOf(adjusted)
      <4>1. Len(shares) = n
        BY <2>3, <3>1 DEF SharesOf
      <4>2. /\ \A i \in 1..n : shares[i] \in Nat
            /\ SumFunctionOnSet(shares, 1..n) = BPS
        BY <2>3, ListShares
      <4> HIDE DEF shares
      <4>3. U32_MAX \in Int /\ BPS <= U32_MAX
        BY ShareMathAssumption DEF BPS
      <4>4. Len(shares) \in Nat /\ \A i \in 1..Len(shares) : shares[i] \in Nat
        BY <3>1, <4>1, <4>2
      <4>5. SumFunctionOnSet(shares, 1..Len(shares)) <= U32_MAX
        BY <4>1, <4>2, <4>3
      <4>6. AddsUpTo(shares, U32_MAX)
        BY <4>3, <4>4, <4>5, TotalFits
      <4> QED
        BY <4>6 DEF checked_share_total_ok, shares
    <3>6. n # 0 /\ n <= MAX_RECIPIENTS
      BY <1>1 DEF validate_recipient_list
    <3> QED
      BY <2>3, <3>3, <3>4, <3>5, <3>6 DEF validate_recipient_list
  <2> QED
    BY <1>3, <1>4, <2>5, <2>6
<1> QED
  BY <1>2, <1>4

-----------------------------------------------------------------------------
\* Whatever list a distribution is called with, it pays accounts.
LEMMA UsedListType ==
    ASSUME SetupInv, NEW override \in RecipientLists \cup {<<>>}
    PROVE  recipients_to_use(override) \in Seq(Recipient)
<1>1. override # <<>> => override \in Seq(Recipient)
  BY SplitterAssumption DEF Recipient
<1>2. defaultRecipients \in Seq(Recipient) /\ get_recipients \in Seq(Recipient)
  BY CollaboratorsPayable DEF SetupInv, SetupTypeOK
<1> QED
  BY <1>1, <1>2 DEF recipients_to_use

\* What becomes of the holdings when one token's ledger is replaced.
LEMMA OneToken ==
    ASSUME balance \in Holdings, NEW token \in Token, NEW new \in [Holder -> Nat],
           balance' = [balance EXCEPT ![token] = new]
    PROVE  /\ balance' \in Holdings /\ balance'[token] = new
           /\ \A other \in Token \ {token} : balance'[other] = balance[other]
  BY DEF Holdings

\* A distribution of a token's whole balance empties it and touches no other token.
LEMMA PayAllHolds ==
    ASSUME balance \in Holdings, NEW token \in Token, NEW recipients, Payable(recipients),
           PayAll(token, recipients)
    PROVE  /\ balance' \in Holdings /\ balance'[token][Self] = 0
           /\ \A other \in Token \ {token} : balance'[other] = balance[other]
<1> DEFINE paid == 1..Len(recipients)
           new == PaidOut(token, recipients, Split(held(token), recipients), paid)
<1>1. balance' = [balance EXCEPT ![token] = new]
  BY DEF PayAll
<1>2. held(token) \in Nat
  BY DEF held, Holdings, Holder
<1>3. new \in [Holder -> Nat] /\ new[Self] = held(token) - held(token)
  <2>1. held(token) <= held(token) /\ paid \in SUBSET (1..Len(recipients))
    BY <1>2
  <2> QED
    BY <1>2, <2>1, PaidOutHolds
<1> HIDE DEF new
<1>4. new[Self] = 0
  BY <1>2, <1>3
<1> QED
  BY <1>1, <1>3, <1>4, OneToken

\* distribute_resilient with the transfers in paid.
LEMMA ResilientHolds ==
    ASSUME SetupInv, balance \in Holdings, NEW signers, NEW token \in Token,
           NEW override \in RecipientLists \cup {<<>>}, NEW paid,
           DistributeResilient(signers, token, override, paid)
    PROVE  /\ balance' \in Holdings
           /\ paid = 1..Len(recipients_to_use(override)) => balance'[token][Self] = 0
           /\ \A other \in Token \ {token} : balance'[other] = balance[other]
<1> DEFINE recipients == recipients_to_use(override)
           new == PaidOut(token, recipients, Split(held(token), recipients), paid)
<1>1. /\ balance' = [balance EXCEPT ![token] = new]
      /\ paid \in SUBSET (1..Len(recipients))
      /\ validate_recipient_list(recipients)
  BY DEF DistributeResilient
<1>2. Payable(recipients)
  BY <1>1, UsedListType DEF Payable, validate_recipient_list
<1>3. held(token) \in Nat /\ held(token) <= held(token)
  BY DEF held, Holdings, Holder
<1> HIDE DEF recipients
<1>4. /\ new \in [Holder -> Nat]
      /\ paid = 1..Len(recipients) => new[Self] = held(token) - held(token)
  BY <1>1, <1>2, <1>3, PaidOutHolds
<1> HIDE DEF new
<1>5. paid = 1..Len(recipients) => new[Self] = 0
  BY <1>3, <1>4
<1> QED
  BY <1>1, <1>4, <1>5, OneToken DEF recipients

\* The tokens paid in a batch are tokens of it, in its order.
LEMMA BatchPrefixType ==
    ASSUME NEW tokens \in Seq(Token)
    PROVE  BatchPrefix(tokens) \in Seq(Token)
<1> DEFINE calm(k) == \A i \in 1..k : ~exceeds_anomaly_threshold(held(tokens[i]))
           k0 == CHOOSE k \in 0..Len(tokens) : calm(k) /\ (k < Len(tokens) => ~calm(k + 1))
<1>1. \E k \in 0..Len(tokens) : calm(k) /\ (k < Len(tokens) => ~calm(k + 1))
  <2> SUFFICES ASSUME \A k \in 0..Len(tokens) : calm(k) => k < Len(tokens) /\ calm(k + 1)
               PROVE  FALSE
    OBVIOUS
  <2> DEFINE Good == {k \in Nat : k \in 0..Len(tokens) /\ calm(k)}
  <2>1. 0 \in Good
    OBVIOUS
  <2>2. \A k \in Nat : k \in Good => k + 1 \in Good
    OBVIOUS
  <2>3. Nat \subseteq Good
    <3> HIDE DEF Good
    <3> QED
      BY <2>1, <2>2, NaturalInduction
  <2>4. Len(tokens) + 1 \in Good
    BY <2>3
  <2> QED
    BY <2>4
<1>2. k0 \in 0..Len(tokens)
  BY <1>1
<1> HIDE DEF k0
<1>3. SubSeq(tokens, 1, k0) \in Seq(Token)
  BY <1>2
<1> QED
  BY <1>3 DEF BatchPrefix, k0

\* batch_distribute empties the tokens of its prefix and touches no other.
LEMMA BatchHolds ==
    ASSUME SetupInv, balance \in Holdings, NEW signers, NEW tokens \in Batches,
           BatchDistribute(signers, tokens)
    PROVE  LET prefix == BatchPrefix(tokens)
           IN  /\ balance' \in Holdings /\ prefix \in Seq(Token) /\ IsInjective(prefix)
               /\ \A token \in Range(prefix) : held(token) > 0 /\ balance'[token][Self] = 0
               /\ \A token \in Token \ Range(prefix) : balance'[token] = balance[token]
<1> DEFINE recipients == recipients_to_use(<<>>)
           prefix == BatchPrefix(tokens)
           paid == 1..Len(recipients)
           new(token) == PaidOut(token, recipients, Split(held(token), recipients), paid)
<1>1. /\ recipients # <<>> /\ SumFunction(SharesOf(recipients)) = BPS
      /\ IsInjective(prefix)
      /\ \A token \in Range(prefix) : held(token) # 0
      /\ balance' = [token \in Token |-> IF token \in Range(prefix) THEN new(token)
                                         ELSE balance[token]]
  BY DEF BatchDistribute
<1>2. Payable(recipients)
  BY <1>1, UsedListType DEF Payable
<1>3. prefix \in Seq(Token)
  BY BatchPrefixType, PaymentsAssumption
<1>4. Range(prefix) \subseteq Token
  BY <1>3 DEF Range
<1>5. ASSUME NEW token \in Token
      PROVE  new(token) \in [Holder -> Nat] /\ new(token)[Self] = 0 /\ held(token) \in Nat
  <2>1. held(token) \in Nat /\ held(token) <= held(token)
    BY DEF held, Holdings, Holder
  <2> HIDE DEF recipients
  <2>2. paid \in SUBSET (1..Len(recipients))
    OBVIOUS
  <2>3. new(token) \in [Holder -> Nat] /\ new(token)[Self] = held(token) - held(token)
    BY <1>2, <2>1, <2>2, PaidOutHolds
  <2> HIDE DEF new
  <2> QED
    BY <2>1, <2>3
<1> HIDE DEF new, prefix
<1>6. balance' \in Holdings
  BY <1>1, <1>5 DEF Holdings
<1>7. \A token \in Range(prefix) : held(token) > 0 /\ balance'[token][Self] = 0
  BY <1>1, <1>4, <1>5
<1>8. \A token \in Token \ Range(prefix) : balance'[token] = balance[token]
  BY <1>1
<1> QED
  BY <1>1, <1>3, <1>6, <1>7, <1>8 DEF prefix

\* distribute_secondary, when it pays: the pool leaves the contract as a whole, in
\* the pool's token, and no other token moves.
LEMMA SecondaryHolds ==
    ASSUME SetupInv, MoneyTypeOK, NEW signers, DistributeSecondary(signers), ~TripOnly
    PROVE  /\ balance' \in Holdings /\ secondaryToken \in Token
           /\ balance'[secondaryToken][Self] = held(secondaryToken) - secondaryPool
           /\ \A other \in Token \ {secondaryToken} : balance'[other] = balance[other]
           /\ secondaryPool' = 0 /\ lastSecondaryDistribution' = ledger
           /\ UNCHANGED <<secondaryToken, distributeHistory, lastDistribution>>
<1> DEFINE token == secondaryToken
           paid == 1..Len(collaborators)
           new == PaidOut(token, get_recipients, Split(secondaryPool, get_recipients), paid)
<1>1. /\ check_admin_auth(signers)
      /\ secondaryToken # None /\ secondaryPool <= held(token)
      /\ balance' = [balance EXCEPT ![token] = new]
      /\ secondaryPool' = 0 /\ lastSecondaryDistribution' = ledger
      /\ UNCHANGED <<secondaryToken, distributeHistory, lastDistribution>>
  BY DEF DistributeSecondary, pool_is_held, PoolAfterPayout
<1>2. balance \in Holdings /\ token \in Token /\ secondaryPool \in Nat
  BY <1>1 DEF MoneyTypeOK, Holdings
<1>3. Payable(get_recipients) /\ Len(get_recipients) = Len(collaborators)
  BY <1>1, AuthIsInitialized, CollaboratorsPayable DEF SetupInv
<1>4. new \in [Holder -> Nat] /\ new[Self] = held(token) - secondaryPool
  <2>1. paid \in SUBSET (1..Len(get_recipients)) /\ paid = 1..Len(get_recipients)
    BY <1>3
  <2> QED
    BY <1>1, <1>2, <1>3, <2>1, PaidOutHolds
<1> HIDE DEF new
<1> QED
  BY <1>1, <1>2, <1>4, OneToken

\* The step takes tokens from signers only, gives the contract what it takes, and
\* overdraws nobody.
PulledBack(signers, token) ==
    /\ balance' \in Holdings
    /\ balance'[token][Self] >= balance[token][Self]
    /\ \A a \in Address : /\ balance'[token][a] <= balance[token][a]
                          /\ balance'[token][a] < balance[token][a] => a \in signers
    /\ \A other \in Token \ {token} : balance'[other] = balance[other]

\* A clawback overdraws nobody: what it takes from an account is what that account's
\* transfers add up to, and the contract loses nothing.
LEMMA ClawbackHolds ==
    ASSUME balance \in Holdings, NEW signers, NEW id, NEW token \in Token,
           NEW from \in Seq(Address), NEW amounts \in Seq(Int),
           Clawback(signers, id, token, from, amounts)
    PROVE  PulledBack(signers, token)
<1> DEFINE n == Len(from)
           Of(h) == {i \in 1..n : from[i] = h}
           total == SumFunction(amounts)
           new == [h \in Holder |-> IF h = Self THEN held(token) + total
                                    ELSE balance[token][h] - Pulled(from, amounts, h)]
<1>1. /\ n = Len(amounts) /\ n \in Nat
      /\ \A i \in 1..n : amounts[i] > 0 /\ from[i] \in signers
      /\ \A a \in Address : Pulled(from, amounts, a) <= balance[token][a]
      /\ balance' = [balance EXCEPT ![token] = new]
  BY DEF Clawback, recipients_consent
<1>2. /\ \A i \in 1..n : amounts[i] \in Nat
      /\ DOMAIN amounts = 1..n
  BY <1>1
<1>3. IsFiniteSet(1..n)
  BY <1>1, FS_Interval
<1>4. total \in Nat
  BY <1>2, <1>3, SumNonNegative DEF SumFunction
<1>5. ASSUME NEW a \in Address
      PROVE  /\ Pulled(from, amounts, a) \in Nat
             /\ Pulled(from, amounts, a) # 0 => a \in signers
  <2>1. Of(a) \in SUBSET (1..n) /\ Pulled(from, amounts, a) = SumFunctionOnSet(amounts, Of(a))
    BY DEF Pulled
  <2>2. Of(a) # {} => a \in signers
    BY <1>1
  <2> HIDE DEF Of
  <2>3. IsFiniteSet(Of(a)) /\ \A i \in Of(a) : amounts[i] \in Nat
    BY <1>2, <1>3, <2>1, FS_Subset
  <2>4. SumFunctionOnSet(amounts, Of(a)) \in Nat
    BY <2>3, SumNonNegative
  <2>5. Of(a) = {} => SumFunctionOnSet(amounts, Of(a)) = 0
    BY SumEmpty
  <2> QED
    BY <2>1, <2>2, <2>4, <2>5
<1> HIDE DEF total
<1>6. /\ \A h \in Holder : balance[token][h] \in Nat
      /\ held(token) = balance[token][Self] /\ Self \in Holder /\ Self \notin Address
      /\ Holder = Address \cup {Self}
  BY SplitterAssumption DEF Holdings, Holder, held
<1>7. /\ new[Self] = balance[token][Self] + total
      /\ \A a \in Address : new[a] = balance[token][a] - Pulled(from, amounts, a)
  BY <1>6
<1>8. \A a \in Address : balance[token][a] - Pulled(from, amounts, a) \in Nat
  BY <1>1, <1>5, <1>6
<1>9. new \in [Holder -> Nat]
  BY <1>4, <1>6, <1>8
<1> HIDE DEF new
<1>10. \A a \in Address : /\ new[a] <= balance[token][a]
                          /\ new[a] < balance[token][a] => a \in signers
  BY <1>5, <1>6, <1>7
<1>11. new[Self] >= balance[token][Self]
  BY <1>4, <1>6, <1>7
<1> QED
  BY <1>1, <1>9, <1>10, <1>11, OneToken DEF PulledBack

-----------------------------------------------------------------------------
\* The primary distributions that pay a token's whole balance.
LEMMA FullDistribution ==
    ASSUME SetupInv, AdminInv, balance \in Holdings, NEW signers, NEW token \in Token,
           \/ \E override \in RecipientLists \cup {<<>>} :
                 DistributeWithOverride(signers, token, override) /\ ~TripOnly
           \/ DistributeWithIncentives(signers, token)
    PROVE  /\ balance' \in Holdings /\ held(token) # 0 /\ balance'[token][Self] = 0
           /\ \A other \in Token \ {token} : balance'[other] = balance[other]
           /\ distributeHistory' = distributeHistory + 1 /\ lastDistribution' = ledger
           /\ UNCHANGED <<secondaryPool, secondaryToken, lastSecondaryDistribution>>
           /\ ~emergencyPaused
<1>1. ASSUME NEW override \in RecipientLists \cup {<<>>},
             DistributeWithOverride(signers, token, override), ~TripOnly
      PROVE  /\ held(token) # 0 /\ ~emergencyPaused /\ RecordDistribution(1) /\ PrimaryFrame
             /\ \E recipients : Payable(recipients) /\ PayAll(token, recipients)
  BY <1>1, UsedListType DEF DistributeWithOverride, may_run, Payable, validate_recipient_list
<1>2. ASSUME DistributeWithIncentives(signers, token)
      PROVE  /\ held(token) # 0 /\ ~emergencyPaused /\ RecordDistribution(1) /\ PrimaryFrame
             /\ \E recipients : Payable(recipients) /\ PayAll(token, recipients)
  <2>1. Payable(calculate_incentive_shares)
    BY <1>2, AuthIsInitialized, IncentivesPayable DEF DistributeWithIncentives, SetupInv
  <2> QED
    BY <1>2, <2>1 DEF DistributeWithIncentives, is_blocked
<1>3. /\ held(token) # 0 /\ ~emergencyPaused /\ RecordDistribution(1) /\ PrimaryFrame
      /\ \E recipients : Payable(recipients) /\ PayAll(token, recipients)
  BY <1>1, <1>2
<1>4. /\ balance' \in Holdings /\ balance'[token][Self] = 0
      /\ \A other \in Token \ {token} : balance'[other] = balance[other]
  BY <1>3, PayAllHolds
<1> QED
  BY <1>3, <1>4 DEF RecordDistribution, PrimaryFrame

\* No payment, withdrawal or pool record overdraws a holder or breaks a counter.
LEMMA PaymentsStep ==
    ASSUME SetupInv, AdminInv, MoneyTypeOK, PaymentsNext
    PROVE  MoneyTypeOK'
<1> USE DEF Holdings
<1>0. /\ balance \in Holdings /\ secondaryPool \in Nat /\ distributeHistory \in Nat
      /\ ledger \in Nat
  BY DEF MoneyTypeOK, AdminInv, AdminTypeOK
<1>1. ASSUME NEW signers, NEW token \in Token, NEW amount \in Amounts,
             Withdraw(signers, token, amount)
      PROVE  MoneyTypeOK'
  <2>1. /\ amount \in Nat /\ admin \in Address /\ Transfer(token, Self, admin, amount)
        /\ UNCHANGED <<secondaryPool, secondaryToken, distributeHistory, lastDistribution,
                       lastSecondaryDistribution>>
    BY <1>1, SplitterAssumption DEF Withdraw, initialized, AdminInv, AdminTypeOK
  <2>2. Self \in Holder /\ admin \in Holder /\ Self # admin
    BY <2>1, SplitterAssumption DEF Holder
  <2> QED
    BY <1>0, <2>1, <2>2, TransferHolds DEF MoneyTypeOK
<1>2. ASSUME NEW signers, NEW token \in Token, NEW from \in Address, NEW amount \in Amounts,
             RecordSecondaryRoyalty(signers, token, from, amount)
      PROVE  MoneyTypeOK'
  <2>1. /\ amount \in Nat /\ Transfer(token, from, Self, amount)
        /\ secondaryPool' = secondaryPool + amount /\ secondaryToken' = token
        /\ UNCHANGED <<distributeHistory, lastDistribution, lastSecondaryDistribution>>
    BY <1>2, SplitterAssumption DEF RecordSecondaryRoyalty
  <2>2. Self \in Holder /\ from \in Holder /\ from # Self
    BY SplitterAssumption DEF Holder
  <2> QED
    BY <1>0, <2>1, <2>2, TransferHolds DEF MoneyTypeOK
<1>3. CASE TripOnly
  BY <1>3 DEF TripOnly, moneyVars, MoneyTypeOK
<1>4. ASSUME NEW signers, NEW token \in Token,
             \/ \E override \in RecipientLists \cup {<<>>} :
                   DistributeWithOverride(signers, token, override) /\ ~TripOnly
             \/ DistributeWithIncentives(signers, token)
      PROVE  MoneyTypeOK'
  <2>1. /\ balance' \in Holdings /\ distributeHistory' = distributeHistory + 1
        /\ lastDistribution' = ledger
        /\ UNCHANGED <<secondaryPool, secondaryToken, lastSecondaryDistribution>>
    BY <1>0, <1>4, FullDistribution
  <2> QED
    BY <1>0, <2>1 DEF MoneyTypeOK
<1>5. ASSUME NEW signers, NEW token \in Token, NEW override \in RecipientLists \cup {<<>>},
             NEW paid, DistributeResilient(signers, token, override, paid)
      PROVE  MoneyTypeOK'
  <2>1. balance' \in Holdings
    BY <1>0, <1>5, ResilientHolds
  <2>2. /\ \/ distributeHistory' = distributeHistory + 1 /\ lastDistribution' = ledger
           \/ UNCHANGED <<distributeHistory, lastDistribution>>
        /\ UNCHANGED <<secondaryPool, secondaryToken, lastSecondaryDistribution>>
    BY <1>5 DEF DistributeResilient, RecordDistribution, PrimaryFrame
  <2> QED
    BY <1>0, <2>1, <2>2 DEF MoneyTypeOK
<1>6. ASSUME NEW signers, NEW tokens \in Batches, BatchDistribute(signers, tokens)
      PROVE  MoneyTypeOK'
  <2>1. balance' \in Holdings
    BY <1>0, <1>6, BatchHolds
  <2>2. /\ \/ distributeHistory' = distributeHistory + Len(tokens) /\ lastDistribution' = ledger
           \/ UNCHANGED <<distributeHistory, lastDistribution>>
        /\ UNCHANGED <<secondaryPool, secondaryToken, lastSecondaryDistribution>>
    BY <1>6 DEF BatchDistribute, RecordDistribution, PrimaryFrame
  <2>3. Len(tokens) \in Nat
    BY PaymentsAssumption
  <2> QED
    BY <1>0, <2>1, <2>2, <2>3 DEF MoneyTypeOK
<1>7. ASSUME NEW signers, DistributeSecondary(signers), ~TripOnly
      PROVE  MoneyTypeOK'
  BY <1>0, <1>7, SecondaryHolds DEF MoneyTypeOK
<1> QED
  BY <1>1, <1>2, <1>3, <1>4, <1>5, <1>6, <1>7 DEF PaymentsNext

\* No step overdraws a holder or breaks a counter.
LEMMA MoneyStep ==
    ASSUME SetupInv, AdminInv, MoneyTypeOK, [Next]_vars
    PROVE  MoneyTypeOK'
<1>1. CASE DepositNext
  <2>1. PICK token \in Token, from \in Address, amount \in Amounts : Deposit(token, from, amount)
    BY <1>1 DEF DepositNext
  <2>2. /\ amount \in Nat /\ Transfer(token, from, Self, amount)
        /\ UNCHANGED <<secondaryPool, secondaryToken, distributeHistory, lastDistribution,
                       lastSecondaryDistribution>>
    BY <2>1, SplitterAssumption DEF Deposit
  <2>3. Self \in Holder /\ from \in Holder /\ from # Self /\ balance \in Holdings
    BY SplitterAssumption DEF Holder, MoneyTypeOK, Holdings
  <2>4. balance' \in Holdings
    BY <2>2, <2>3, TransferHolds
  <2> QED
    BY <2>2, <2>4 DEF MoneyTypeOK, Holdings
<1>2. CASE DisputesNext
  <2>1. ASSUME UNCHANGED moneyVars
        PROVE  MoneyTypeOK'
    BY <2>1 DEF moneyVars, MoneyTypeOK
  <2>2. ASSUME NEW signers, NEW id, NEW token \in Token, NEW list \in ClawbackLists,
               Clawback(signers, id, token, list[1], list[2])
        PROVE  MoneyTypeOK'
    <3>1. list[1] \in Seq(Address) /\ list[2] \in Seq(Int) /\ balance \in Holdings
      BY DisputesAssumption DEF MoneyTypeOK, Holdings
    <3>2. PulledBack(signers, token)
      BY <2>2, <3>1, ClawbackHolds
    <3> QED
      BY <2>2, <3>2 DEF PulledBack, Clawback, MoneyTypeOK, Holdings
  <2> QED
    BY <1>2, <2>1, <2>2 DEF DisputesNext, RecordDispute, ResolveDispute
<1>3. CASE UNCHANGED moneyVars
  BY <1>3 DEF moneyVars, MoneyTypeOK
<1> QED
  BY <1>1, <1>2, <1>3, PaymentsStep, Writers

-----------------------------------------------------------------------------
\* Of the switches a payment writes only the emergency stop, and only to set it.
LEMMA PaymentsOnlyTrip ==
    ASSUME PaymentsNext
    PROVE  \/ UNCHANGED switchVars
           \/ /\ emergencyPaused' = TRUE
              /\ UNCHANGED <<paused, pausedOperation, anomalyThreshold, approvedTokens>>
<1> USE DEF switchVars
<1>1. ASSUME NEW signers, NEW token, NEW amount, Withdraw(signers, token, amount)
      PROVE  UNCHANGED switchVars
  BY <1>1 DEF Withdraw
<1>2. ASSUME NEW signers, NEW token, NEW from, NEW amount,
             RecordSecondaryRoyalty(signers, token, from, amount)
      PROVE  UNCHANGED switchVars
  BY <1>2 DEF RecordSecondaryRoyalty
<1>3. ASSUME NEW signers, NEW token, NEW override,
             DistributeWithOverride(signers, token, override)
      PROVE  TripOnly \/ UNCHANGED switchVars
  BY <1>3 DEF DistributeWithOverride
<1>4. ASSUME NEW signers, NEW token, NEW override, NEW paid,
             DistributeResilient(signers, token, override, paid)
      PROVE  UNCHANGED switchVars
  BY <1>4 DEF DistributeResilient
<1>5. ASSUME NEW signers, NEW token, DistributeWithIncentives(signers, token)
      PROVE  UNCHANGED switchVars
  BY <1>5 DEF DistributeWithIncentives
<1>6. ASSUME NEW signers, NEW tokens, BatchDistribute(signers, tokens)
      PROVE  /\ emergencyPaused' = TRUE \/ UNCHANGED emergencyPaused
             /\ UNCHANGED <<paused, pausedOperation, anomalyThreshold, approvedTokens>>
  BY <1>6 DEF BatchDistribute
<1>7. ASSUME NEW signers, DistributeSecondary(signers)
      PROVE  TripOnly \/ UNCHANGED switchVars
  BY <1>7 DEF DistributeSecondary
<1> QED
  BY <1>1, <1>2, <1>3, <1>4, <1>5, <1>6, <1>7 DEF PaymentsNext, TripOnly

\* The switches are written by their own entry points and tripped by payments.
LEMMA SwitchStep ==
    ASSUME SwitchTypeOK, [Next]_vars
    PROVE  SwitchTypeOK'
<1>1. CASE EmergencyNext \/ SwitchNext
  <2>1. ASSUME NEW signers, TriggerEmergencyPause(signers) \/ ClearEmergencyPause(signers)
        PROVE  SwitchTypeOK'
    BY <2>1 DEF TriggerEmergencyPause, ClearEmergencyPause, SwitchTypeOK
  <2>2. ASSUME NEW signers, Pause(signers) \/ Unpause(signers)
        PROVE  SwitchTypeOK'
    BY <2>2 DEF SetPaused, Pause, Unpause, SwitchTypeOK
  <2>3. ASSUME NEW signers, NEW operation \in OperationType, NEW value \in BOOLEAN,
               SetOperationPaused(signers, operation, value)
        PROVE  SwitchTypeOK'
    BY <2>3 DEF SetOperationPaused, SwitchTypeOK
  <2>4. ASSUME NEW signers, NEW amount \in Amounts, SetAnomalyThreshold(signers, amount)
        PROVE  SwitchTypeOK'
    <3>1. amount \in Nat
      BY <2>4, SplitterAssumption DEF SetAnomalyThreshold
    <3> QED
      BY <2>4, <3>1 DEF SetAnomalyThreshold, SwitchTypeOK
  <2>5. ASSUME NEW signers, ClearAnomalyThreshold(signers)
        PROVE  SwitchTypeOK'
    BY <2>5 DEF ClearAnomalyThreshold, SwitchTypeOK
  <2>6. ASSUME NEW signers, NEW tokens \in SUBSET Token, SetApprovedTokens(signers, tokens)
        PROVE  SwitchTypeOK'
    BY <2>6 DEF SetApprovedTokens, SwitchTypeOK
  <2> QED
    BY <1>1, <2>1, <2>2, <2>3, <2>4, <2>5, <2>6 DEF EmergencyNext, SwitchNext
<1>2. CASE PaymentsNext
  BY <1>2, PaymentsOnlyTrip DEF switchVars, SwitchTypeOK
<1>3. CASE UNCHANGED switchVars
  BY <1>3 DEF switchVars, SwitchTypeOK
<1> QED
  BY <1>1, <1>2, <1>3, Writers

\* The disputes, the version and the migration log.
RecordInv == RecordTypeOK /\ MigrationLogIsExact

\* A dispute is recorded by an account and closed in place.
LEMMA DisputesStep ==
    ASSUME AdminInv, disputes \in Seq(Dispute), DisputesNext
    PROVE  disputes' \in Seq(Dispute)
<1>0. ledger \in Nat
  BY DEF AdminInv, AdminTypeOK
<1>1. ASSUME NEW signers, NEW tid \in TransactionIds, NEW amount \in Amounts,
             RecordDispute(signers, tid, amount)
      PROVE  disputes' \in Seq(Dispute)
  <2> DEFINE new == [transaction_id |-> tid, amount |-> amount, status |-> "Open",
                     opened_by |-> admin, opened_at |-> ledger, resolved_at |-> 0]
  <2>1. disputes' = Append(disputes, new)
    BY <1>1 DEF RecordDispute
  <2>2. new \in Dispute
    BY <1>0, <1>1, SplitterAssumption DEF RecordDispute, Dispute, initialized, AdminInv,
       AdminTypeOK
  <2> HIDE DEF new
  <2> QED
    BY <2>1, <2>2
<1>2. ASSUME NEW id, NEW status \in {"Resolved", "ClawedBack"}, close_dispute(id, status)
      PROVE  disputes' \in Seq(Dispute)
  <2> DEFINE old == disputes[id]
             new == [old EXCEPT !.status = status, !.resolved_at = ledger]
  <2>1. id \in 1..Len(disputes) /\ old \in Dispute
    BY <1>2 DEF close_dispute, is_open
  <2>2. disputes' = [disputes EXCEPT ![id] = new]
    BY <1>2, <2>1 DEF close_dispute, Dispute
  <2>3. new \in Dispute
    BY <1>0, <2>1 DEF Dispute
  <2> HIDE DEF new
  <2> QED
    BY <2>1, <2>2, <2>3
<1> QED
  BY <1>1, <1>2 DEF DisputesNext, ResolveDispute, Clawback

\* A migration is logged once and reported as the version it led to; initialize
\* writes the version while the log is still empty.
LEMMA UpgradeStep ==
    ASSUME SetupInv, RecordInv, UpgradeNext \/ InitializeNext
    PROVE  /\ wasm' \in Versions /\ contractVersion' \in Versions \cup {None}
           /\ appliedMigrations' \in Seq([from : Versions, to : Versions])
           /\ MigrationLogIsExact'
<1> DEFINE log == appliedMigrations
           Migration == [from : Versions, to : Versions]
<1>0. /\ wasm \in Versions /\ contractVersion \in Versions \cup {None}
      /\ log \in Seq(Migration) /\ IsInjective(log)
      /\ log # <<>> => contractVersion = log[Len(log)].to
  BY DEF RecordInv, RecordTypeOK, MigrationLogIsExact
<1>1. ASSUME NEW signers, NEW version \in Versions, UpdateWasm(signers, version)
      PROVE  /\ wasm' \in Versions /\ UNCHANGED <<contractVersion, appliedMigrations>>
  BY <1>1 DEF UpdateWasm
<1>2. ASSUME NEW signers, NEW version \in Versions, Migrate(signers, version)
      PROVE  /\ wasm' = wasm /\ contractVersion' = wasm
             /\ appliedMigrations' \in Seq(Migration)
             /\ MigrationLogIsExact'
  <2> DEFINE new == [from |-> version, to |-> wasm]
             n == Len(log)
  <2>1. /\ wasm' = wasm /\ contractVersion' = wasm /\ log' = Append(log, new)
        /\ \A i \in 1..n : log[i] # new
    BY <1>2 DEF Migrate, AlreadyMigrated
  <2>2. new \in Migration /\ new.to = wasm
    BY <1>0
  <2> HIDE DEF new, Migration
  <2>3. /\ log' \in Seq(Migration) /\ Len(log') = n + 1 /\ DOMAIN log' = 1..(n + 1)
        /\ \A i \in 1..n : log'[i] = log[i]
        /\ log'[n + 1] = new /\ DOMAIN log = 1..n /\ n \in Nat
    BY <1>0, <2>1, <2>2
  <2>4. IsInjective(log')
    BY <1>0, <2>1, <2>3 DEF IsInjective
  <2> QED
    BY <2>1, <2>2, <2>3, <2>4 DEF MigrationLogIsExact, Migration
<1>3. CASE UpgradeNext
  BY <1>0, <1>1, <1>2, <1>3 DEF UpgradeNext, MigrationLogIsExact
<1>4. CASE InitializeNext
  <2>1. \/ UNCHANGED upgradeVars
        \/ /\ ~initialized
           /\ contractVersion' = wasm /\ UNCHANGED <<wasm, appliedMigrations>>
    BY <1>4 DEF InitializeNext, CommitInitialize, Initialize, RevealInitialize,
       initialize_validated
  <2>2. ~initialized => log = <<>>
    BY DEF SetupInv, FreshUntilInitialized
  <2> QED
    BY <1>0, <2>1, <2>2 DEF upgradeVars, MigrationLogIsExact
<1> QED
  BY <1>3, <1>4

\* Everything the contract keeps, as it stays through every entry point.
ContractInv ==
    AdminInv /\ RateInv /\ SetupInv /\ SwitchTypeOK /\ MoneyTypeOK /\ RecordInv

\* A contract just deployed satisfies it.
LEMMA ContractInvInit == Init => ContractInv
<1> SUFFICES ASSUME Init PROVE ContractInv
  OBVIOUS
<1>1. AdminInv /\ RateInv /\ SetupInv
  BY AdminInvInit, RateInvInit, SetupInvInit
<1>2. SwitchTypeOK
  BY DEF Init, Deployed, SwitchTypeOK
<1>3. MoneyTypeOK
  BY PaymentsAssumption DEF Init, Deployed, MoneyTypeOK
<1>4. RecordInv
  <2>1. disputes = <<>> /\ appliedMigrations = <<>> /\ wasm \in Versions /\ contractVersion = None
    BY DEF Init, Deployed
  <2>2. IsInjective(appliedMigrations)
    BY <2>1 DEF IsInjective
  <2>3. disputes \in Seq(Dispute) /\ appliedMigrations \in Seq([from : Versions, to : Versions])
    BY <2>1
  <2> QED
    BY <2>1, <2>2, <2>3 DEF RecordInv, RecordTypeOK, MigrationLogIsExact
<1> QED
  BY <1>1, <1>2, <1>3, <1>4 DEF ContractInv

\* Each entry point keeps it.
LEMMA ContractInvStep == ContractInv /\ [Next]_vars => ContractInv'
<1> SUFFICES ASSUME ContractInv, [Next]_vars
             PROVE  ContractInv'
  OBVIOUS
<1>1. AdminInv' /\ RateInv' /\ SetupInv' /\ SwitchTypeOK' /\ MoneyTypeOK'
  BY AdminInvStep, RateInvStep, SetupInvStep, SwitchStep, MoneyStep DEF ContractInv
<1>2. disputes' \in Seq(Dispute)
  BY Writers, DisputesStep DEF ContractInv, RecordInv, RecordTypeOK
<1>3. /\ wasm' \in Versions /\ contractVersion' \in Versions \cup {None}
      /\ appliedMigrations' \in Seq([from : Versions, to : Versions])
      /\ MigrationLogIsExact'
  <2>1. CASE UNCHANGED upgradeVars
    BY <2>1 DEF ContractInv, RecordInv, RecordTypeOK, MigrationLogIsExact, upgradeVars
  <2> QED
    BY <2>1, Writers, UpgradeStep DEF ContractInv
<1> QED
  BY <1>1, <1>2, <1>3 DEF ContractInv, RecordInv, RecordTypeOK

\* The contract's storage keeps its types, a whole split with whole defaults, an
\* exact migration log and holdings nobody overdraws, through every entry point and
\* in every order (lib.rs, all of it).
THEOREM ContractInvariant == Spec => []ContractInv
  BY ContractInvInit, ContractInvStep, PTL DEF Spec

\* Every entry point writes values of the right kind: no share map, join date,
\* balance, counter or record is ever anything else.
THEOREM StorageKeepsTypes == Spec => []TypeOK
<1>1. ContractInv => TypeOK
  BY DEF ContractInv, AdminInv, RateInv, SetupInv, RecordInv, TypeOK
<1> QED
  BY <1>1, ContractInvariant, PTL

\* initialize, set_recipients and update_share keep the two records of the split in
\* agreement at 100%, and set_default_recipients stores no list that a distribution
\* would refuse; the migration log leads to the version reported.
THEOREM BooksStayWhole == Spec => [](SplitIsWhole /\ DefaultsAreWhole /\ MigrationLogIsExact)
<1>1. ContractInv => SplitIsWhole /\ DefaultsAreWhole /\ MigrationLogIsExact
  BY DEF ContractInv, SetupInv, RecordInv
<1> QED
  BY <1>1, ContractInvariant, PTL

\* No order of deposits, distributions, pool records, withdrawals and clawbacks
\* overdraws a holder, and no activity or join date makes an incentive payment
\* impossible while everybody has two basis points.
THEOREM PaymentsAreSafe == Spec => []PaymentsStayPayable
<1>1. ContractInv => PaymentsStayPayable
  <2> SUFFICES ASSUME ContractInv PROVE PaymentsStayPayable
    OBVIOUS
  <2>1. NoOverdraft
    BY DEF ContractInv, MoneyTypeOK, NoOverdraft
  <2>2. IncentivesNeverBlock
    BY IncentivesPayable DEF ContractInv, IncentivesNeverBlock
  <2> QED
    BY <2>1, <2>2 DEF PaymentsStayPayable
<1> QED
  BY <1>1, ContractInvariant, PTL

-----------------------------------------------------------------------------
\* A transfer between an account and the contract gains nobody but its receiver.
LEMMA TransferGains ==
    ASSUME balance \in Holdings, NEW token \in Token, NEW from \in Holder, NEW to \in Holder,
           from # to, NEW amount \in Nat, Transfer(token, from, to, amount),
           NEW t \in Token, NEW a \in Address, Gains(t, a)
    PROVE  a = to
<1>1. /\ \A other \in Token \ {token} : balance'[other] = balance[other]
      /\ \A h \in Holder \ {from, to} : balance'[token][h] = balance[token][h]
      /\ balance'[token][from] = balance[token][from] - amount
  BY TransferHolds
<1>2. /\ balance'[t][a] > balance[t][a] /\ balance[t][a] \in Nat /\ a \in Holder
  BY DEF Gains, Holdings, Holder
<1>3. t = token
  BY <1>1, <1>2
<1>4. a # from
  BY <1>1, <1>2, <1>3
<1> QED
  BY <1>1, <1>2, <1>3, <1>4

\* While the emergency pause is on, no payment path but withdraw moves the contract's
\* money, and withdraw pays the admin.
LEMMA PausedStep ==
    ASSUME ContractInv, [Next]_vars, emergencyPaused
    PROVE  /\ \A token \in Token, a \in Address : Gains(token, a) => a = admin
           /\ UNCHANGED <<distributeHistory, lastDistribution, lastSecondaryDistribution>>
           /\ secondaryPool' >= secondaryPool
<1> DEFINE Stopped ==
      /\ \A token \in Token, a \in Address : Gains(token, a) => a = admin
      /\ UNCHANGED <<distributeHistory, lastDistribution, lastSecondaryDistribution>>
      /\ secondaryPool' >= secondaryPool
<1>0. /\ balance \in Holdings /\ secondaryPool \in Nat
      /\ \A token \in Token, a \in Address : balance[token][a] \in Nat
      /\ Self \in Holder /\ Self \notin Address /\ Address \subseteq Holder
  <2>1. Self \in Holder /\ Self \notin Address /\ Address \subseteq Holder
    BY SplitterAssumption DEF Holder
  <2>2. balance \in Holdings /\ secondaryPool \in Nat
    BY DEF ContractInv, MoneyTypeOK, Holdings
  <2> QED
    BY <2>1, <2>2 DEF Holdings
<1>1. CASE UNCHANGED moneyVars
  BY <1>0, <1>1 DEF moneyVars, Gains
<1>2. CASE DepositNext
  <2>1. PICK token \in Token, from \in Address, amount \in Amounts : Deposit(token, from, amount)
    BY <1>2 DEF DepositNext
  <2>2. amount \in Nat /\ Transfer(token, from, Self, amount) /\ from # Self /\ from \in Holder
    BY <1>0, <2>1, SplitterAssumption DEF Deposit
  <2>3. \A t \in Token, a \in Address : ~Gains(t, a)
    BY <1>0, <2>2, TransferGains
  <2> QED
    BY <1>0, <2>1, <2>3 DEF Deposit
<1>3. CASE DisputesNext
  <2>1. ASSUME NEW signers, NEW id, NEW token \in Token, NEW list \in ClawbackLists,
               Clawback(signers, id, token, list[1], list[2])
        PROVE  Stopped
    <3>1. list[1] \in Seq(Address) /\ list[2] \in Seq(Int)
      BY DisputesAssumption
    <3>2. /\ \A a \in Address : balance'[token][a] <= balance[token][a]
          /\ \A other \in Token \ {token} : balance'[other] = balance[other]
          /\ balance' \in Holdings
      <4>1. PulledBack(signers, token)
        BY <1>0, <2>1, <3>1, ClawbackHolds
      <4> QED
        BY <4>1 DEF PulledBack
    <3>3. \A t \in Token, a \in Address : balance'[t][a] \in Nat
      BY <1>0, <3>2 DEF Holdings
    <3>4. \A t \in Token, a \in Address : ~Gains(t, a)
      BY <1>0, <3>2, <3>3 DEF Gains
    <3> QED
      BY <1>0, <2>1, <3>4 DEF Clawback
  <2>2. ASSUME NEW signers, NEW tid, NEW amount, RecordDispute(signers, tid, amount)
        PROVE  UNCHANGED moneyVars
    BY <2>2 DEF RecordDispute
  <2>3. ASSUME NEW signers, NEW id, ResolveDispute(signers, id)
        PROVE  UNCHANGED moneyVars
    BY <2>3 DEF ResolveDispute
  <2> QED
    BY <1>1, <1>3, <2>1, <2>2, <2>3 DEF DisputesNext
<1>4. CASE PaymentsNext
  <2>1. ASSUME NEW signers, NEW token \in Token, NEW amount \in Amounts,
               Withdraw(signers, token, amount)
        PROVE  Stopped
    <3>1. /\ amount \in Nat /\ Transfer(token, Self, admin, amount)
          /\ admin \in Holder /\ Self # admin
      BY <1>0, <2>1, SplitterAssumption DEF Withdraw, initialized, ContractInv, AdminInv,
         AdminTypeOK
    <3>2. \A t \in Token, a \in Address : Gains(t, a) => a = admin
      BY <1>0, <3>1, TransferGains
    <3> QED
      BY <1>0, <2>1, <3>2 DEF Withdraw
  <2>2. ASSUME NEW signers, NEW token \in Token, NEW from \in Address, NEW amount \in Amounts,
               RecordSecondaryRoyalty(signers, token, from, amount)
        PROVE  Stopped
    <3>1. /\ amount \in Nat /\ Transfer(token, from, Self, amount)
          /\ from \in Holder /\ from # Self
          /\ secondaryPool' = secondaryPool + amount
      BY <1>0, <2>2, SplitterAssumption DEF RecordSecondaryRoyalty
    <3>2. \A t \in Token, a \in Address : ~Gains(t, a)
      BY <1>0, <3>1, TransferGains
    <3> QED
      BY <1>0, <2>2, <3>1, <3>2 DEF RecordSecondaryRoyalty
  <2>3. ASSUME NEW signers, NEW token, NEW override
        PROVE  /\ ~DistributeWithOverride(signers, token, override)
               /\ \A paid : ~DistributeResilient(signers, token, override, paid)
    BY DEF DistributeWithOverride, DistributeResilient, may_run, is_blocked
  <2>4. ASSUME NEW signers
        PROVE  /\ \A token : ~DistributeWithIncentives(signers, token)
               /\ \A tokens : ~BatchDistribute(signers, tokens)
               /\ ~DistributeSecondary(signers)
    BY DEF DistributeWithIncentives, BatchDistribute, DistributeSecondary, may_run, is_blocked
  <2> QED
    BY <1>4, <2>1, <2>2, <2>3, <2>4 DEF PaymentsNext
<1> QED
  BY <1>1, <1>2, <1>3, <1>4, Writers

\* The emergency pause stops the money: only withdraw, to the admin, still pays.
THEOREM EmergencyHolds == Spec => EmergencyStopsPayouts
<1>1. ContractInv /\ [Next]_vars =>
        (emergencyPaused =>
          /\ \A token \in Token, a \in Address : Gains(token, a) => a = admin
          /\ UNCHANGED <<distributeHistory, lastDistribution, lastSecondaryDistribution>>
          /\ secondaryPool' >= secondaryPool)
  BY PausedStep
<1> QED
  BY <1>1, ContractInvariant, PTL DEF Spec, EmergencyStopsPayouts

-----------------------------------------------------------------------------
\* A step of the disputes' entry points, when it changes them.
LEMMA DisputeChange ==
    ASSUME ContractInv, [Next]_vars, disputes' # disputes
    PROVE  \/ /\ UNCHANGED moneyVars
              /\ \E new : disputes' = Append(disputes, new)
           \/ /\ UNCHANGED moneyVars
              /\ \E id : close_dispute(id, "Resolved")
           \/ \E signers \in AuthSets, id \in Nat, token \in Token, list \in ClawbackLists :
                 Clawback(signers, id, token, list[1], list[2])
<1>1. DisputesNext
  BY Writers
<1>2. ASSUME NEW signers, NEW tid, NEW amount, RecordDispute(signers, tid, amount)
      PROVE  UNCHANGED moneyVars /\ \E new : disputes' = Append(disputes, new)
  BY <1>2 DEF RecordDispute
<1>3. ASSUME NEW signers, NEW id, ResolveDispute(signers, id)
      PROVE  UNCHANGED moneyVars /\ close_dispute(id, "Resolved")
  BY <1>3 DEF ResolveDispute
<1>4. 1..MaxDisputes \subseteq Nat
  BY DisputesAssumption
<1> QED
  BY <1>1, <1>2, <1>3, <1>4 DEF DisputesNext

\* A closed dispute stays as it is.
LEMMA ClosedStep ==
    ASSUME ContractInv, NEW id, NEW status, close_dispute(id, status)
    PROVE  /\ id \in 1..Len(disputes) /\ disputes[id].status = "Open"
           /\ disputes'[id].status = status
           /\ \A other \in 1..Len(disputes) : other # id => disputes'[other] = disputes[other]
<1> DEFINE new == [disputes[id] EXCEPT !.status = status, !.resolved_at = ledger]
<1>1. /\ disputes \in Seq(Dispute) /\ id \in 1..Len(disputes) /\ disputes[id].status = "Open"
      /\ disputes[id] \in Dispute
  BY DEF ContractInv, RecordInv, RecordTypeOK, close_dispute, is_open
<1>2. disputes' = [disputes EXCEPT ![id] = new]
  BY <1>1 DEF close_dispute, Dispute
<1>3. new.status = status
  BY <1>1 DEF Dispute
<1> HIDE DEF new
<1> QED
  BY <1>1, <1>2, <1>3

\* resolve_dispute and clawback close an open dispute, once; money moves with
\* disputes only when one is clawed back.
LEMMA ClosingStep ==
    ASSUME ContractInv, [Next]_vars
    PROVE  /\ \A id \in 1..Len(disputes) :
                 disputes[id].status # "Open" => disputes'[id] = disputes[id]
           /\ disputes' # disputes /\ balance' # balance =>
                 \E id \in 1..Len(disputes) :
                     /\ disputes[id].status = "Open"
                     /\ disputes'[id].status = "ClawedBack"
<1>0. disputes \in Seq(Dispute)
  BY DEF ContractInv, RecordInv, RecordTypeOK
<1>1. CASE disputes' = disputes
  BY <1>1
<1>2. ASSUME UNCHANGED moneyVars, NEW new, disputes' = Append(disputes, new)
      PROVE  /\ \A id \in 1..Len(disputes) : disputes'[id] = disputes[id]
             /\ balance' = balance
  BY <1>0, <1>2 DEF moneyVars
<1>3. ASSUME UNCHANGED moneyVars, NEW id, close_dispute(id, "Resolved")
      PROVE  /\ \A other \in 1..Len(disputes) :
                   disputes[other].status # "Open" => disputes'[other] = disputes[other]
             /\ balance' = balance
  BY <1>3, ClosedStep DEF moneyVars
<1>4. ASSUME NEW id, close_dispute(id, "ClawedBack")
      PROVE  /\ \A other \in 1..Len(disputes) :
                   disputes[other].status # "Open" => disputes'[other] = disputes[other]
             /\ \E other \in 1..Len(disputes) : /\ disputes[other].status = "Open"
                                                /\ disputes'[other].status = "ClawedBack"
  BY <1>4, ClosedStep
<1>5. CASE \E signers \in AuthSets, id \in Nat, token \in Token, list \in ClawbackLists :
              Clawback(signers, id, token, list[1], list[2])
  <2>1. \E id : close_dispute(id, "ClawedBack")
    BY <1>5 DEF Clawback
  <2> QED
    BY <1>4, <2>1
<1>6. CASE disputes' # disputes
  BY <1>2, <1>3, <1>5, <1>6, DisputeChange
<1> QED
  BY <1>1, <1>6

\* While disputes are handled nobody loses a token without having signed.
LEMMA ConsentStep ==
    ASSUME ContractInv, [Next]_vars, disputes' # disputes, NEW token \in Token,
           NEW h \in Holder, balance'[token][h] < balance[token][h]
    PROVE  \E signers \in AuthSets : check_admin_auth(signers) /\ h \in signers
<1>0. /\ balance \in Holdings /\ balance[token][h] \in Nat
      /\ Holder = Address \cup {Self} /\ balance[token][Self] \in Nat
  BY DEF ContractInv, MoneyTypeOK, Holdings, Holder
<1>1. ~(UNCHANGED moneyVars)
  BY <1>0 DEF moneyVars
<1>2. PICK signers \in AuthSets, id \in Nat, t \in Token, list \in ClawbackLists :
          Clawback(signers, id, t, list[1], list[2])
  BY <1>1, DisputeChange
<1>3. list[1] \in Seq(Address) /\ list[2] \in Seq(Int)
  BY DisputesAssumption
<1>4. /\ balance' \in Holdings
      /\ balance'[t][Self] >= balance[t][Self]
      /\ \A a \in Address : balance'[t][a] < balance[t][a] => a \in signers
      /\ \A other \in Token \ {t} : balance'[other] = balance[other]
  <2>1. PulledBack(signers, t)
    BY <1>0, <1>2, <1>3, ClawbackHolds
  <2> QED
    BY <2>1 DEF PulledBack
<1>5. t = token
  BY <1>0, <1>4
<1>6. h # Self
  <2>1. balance'[t][Self] \in Nat /\ balance[t][Self] \in Nat
    BY <1>0, <1>4 DEF Holdings
  <2> QED
    BY <1>4, <1>5, <2>1
<1> QED
  BY <1>0, <1>2, <1>4, <1>5, <1>6 DEF Clawback

\* A dispute is closed once, only the step that closes it pulls money back, and only
\* from accounts that signed (lib.rs clawback, close_dispute).
THEOREM DisputesStayFair == Spec => DisputesAreFair
<1>1. ContractInv /\ [Next]_vars =>
        /\ \A id \in 1..Len(disputes) :
              disputes[id].status # "Open" => disputes'[id] = disputes[id]
        /\ disputes' # disputes /\ balance' # balance =>
              \E id \in 1..Len(disputes) :
                  /\ disputes[id].status = "Open"
                  /\ disputes'[id].status = "ClawedBack"
  BY ClosingStep
<1>2. ContractInv /\ [Next]_vars =>
        (disputes' # disputes =>
          \A token \in Token, h \in Holder :
              balance'[token][h] < balance[token][h] =>
                  \E signers \in AuthSets : check_admin_auth(signers) /\ h \in signers)
  BY ConsentStep
<1>3. Spec => DisputesCloseOnce
  BY <1>1, ContractInvariant, PTL DEF Spec, DisputesCloseOnce
<1>4. Spec => ClawbackNeedsConsent
  BY <1>2, ContractInvariant, PTL DEF Spec, ClawbackNeedsConsent
<1> QED
  BY <1>3, <1>4 DEF DisputesAreFair

-----------------------------------------------------------------------------
\* Which payments record what: only distribute_secondary touches its timestamp or
\* takes from the pool.
LEMMA PoolStep ==
    ASSUME ContractInv, [Next]_vars,
           lastSecondaryDistribution' # lastSecondaryDistribution \/ secondaryPool' < secondaryPool
    PROVE  /\ ~is_blocked("SecondaryDistribution")
           /\ secondaryPool' = 0
           /\ held(secondaryToken) - balance'[secondaryToken][Self] = secondaryPool
           /\ \A token \in Token \ {secondaryToken} : balance'[token] = balance[token]
<1>0. secondaryPool \in Nat /\ balance \in Holdings /\ SetupInv /\ AdminInv /\ MoneyTypeOK
  BY DEF ContractInv, MoneyTypeOK, Holdings
<1>1. ~(UNCHANGED <<secondaryPool, lastSecondaryDistribution>>)
  BY <1>0
<1>2. PaymentsNext
  <2>1. CASE DepositNext
    BY <1>1, <2>1 DEF DepositNext, Deposit
  <2>2. CASE DisputesNext
    BY <1>1, <2>2 DEF DisputesNext, RecordDispute, ResolveDispute, Clawback, moneyVars
  <2>3. CASE UNCHANGED moneyVars
    BY <1>1, <2>3 DEF moneyVars
  <2> QED
    BY <2>1, <2>2, <2>3, Writers
<1>3. ASSUME NEW signers, NEW token, NEW amount, Withdraw(signers, token, amount)
      PROVE  FALSE
  BY <1>1, <1>3 DEF Withdraw
<1>4. ASSUME NEW signers, NEW token, NEW from, NEW amount \in Amounts,
             RecordSecondaryRoyalty(signers, token, from, amount)
      PROVE  FALSE
  <2>1. /\ amount \in Nat /\ secondaryPool' = secondaryPool + amount
        /\ lastSecondaryDistribution' = lastSecondaryDistribution
    BY <1>4, SplitterAssumption DEF RecordSecondaryRoyalty
  <2> QED
    BY <1>0, <2>1
<1>5. ASSUME NEW signers, NEW token, NEW override,
             DistributeWithOverride(signers, token, override)
      PROVE  FALSE
  BY <1>1, <1>5 DEF DistributeWithOverride, TripOnly, PrimaryFrame, moneyVars
<1>6. ASSUME NEW signers, NEW token, NEW override, NEW paid,
             DistributeResilient(signers, token, override, paid)
      PROVE  FALSE
  BY <1>1, <1>6 DEF DistributeResilient, PrimaryFrame
<1>7. ASSUME NEW signers, NEW token, DistributeWithIncentives(signers, token)
      PROVE  FALSE
  BY <1>1, <1>7 DEF DistributeWithIncentives, PrimaryFrame
<1>8. ASSUME NEW signers, NEW tokens, BatchDistribute(signers, tokens)
      PROVE  FALSE
  BY <1>1, <1>8 DEF BatchDistribute, PrimaryFrame
<1>9. PICK signers \in AuthSets : DistributeSecondary(signers)
  BY <1>2, <1>3, <1>4, <1>5, <1>6, <1>7, <1>8 DEF PaymentsNext
<1>10. ~TripOnly
  BY <1>1 DEF TripOnly, moneyVars
<1>11. /\ secondaryToken \in Token
       /\ balance'[secondaryToken][Self] = held(secondaryToken) - secondaryPool
       /\ \A other \in Token \ {secondaryToken} : balance'[other] = balance[other]
       /\ secondaryPool' = 0
  BY <1>0, <1>9, <1>10, SecondaryHolds
<1>12. ~is_blocked("SecondaryDistribution")
  BY <1>9 DEF DistributeSecondary, may_run
<1>13. held(secondaryToken) \in Nat
  BY <1>0, <1>11 DEF held, Holdings, Holder
<1> QED
  BY <1>0, <1>11, <1>12, <1>13

\* The tokens the step has emptied.
Emptied == {token \in Token : held(token) > 0 /\ held(token)' = 0}

\* A distribution of one token's whole balance has emptied that token alone.
LEMMA OneEmptied ==
    ASSUME balance \in Holdings, NEW token \in Token, held(token) # 0,
           balance'[token][Self] = 0,
           \A other \in Token \ {token} : balance'[other] = balance[other]
    PROVE  Cardinality(Emptied) = 1
<1>1. \A t \in Token : held(t) \in Nat
  BY DEF held, Holdings, Holder
<1>2. Emptied = {token}
  BY <1>1 DEF Emptied, held
<1> QED
  BY <1>2, FS_Singleton

\* A primary distribution that is recorded has emptied one token per payment, unless
\* a transfer of distribute_resilient failed.
LEMMA DustStep ==
    ASSUME ContractInv, [Next]_vars, distributeHistory' > distributeHistory
    PROVE  \/ Cardinality(Emptied) = distributeHistory' - distributeHistory
           \/ \E signers \in AuthSets, token \in Token,
                override \in RecipientLists \cup {<<>>} :
                \E paid \in SUBSET (1..Len(recipients_to_use(override))) :
                    /\ paid # 1..Len(recipients_to_use(override))
                    /\ DistributeResilient(signers, token, override, paid)
<1> DEFINE Failed ==
      \E signers \in AuthSets, token \in Token, override \in RecipientLists \cup {<<>>} :
          \E paid \in SUBSET (1..Len(recipients_to_use(override))) :
              /\ paid # 1..Len(recipients_to_use(override))
              /\ DistributeResilient(signers, token, override, paid)
           Exact == Cardinality(Emptied) = distributeHistory' - distributeHistory
<1>0. distributeHistory \in Nat /\ balance \in Holdings /\ SetupInv /\ AdminInv /\ MoneyTypeOK
  BY DEF ContractInv, MoneyTypeOK, Holdings
<1>1. distributeHistory' # distributeHistory
  BY <1>0
<1>2. PaymentsNext
  <2>1. CASE DepositNext
    BY <1>1, <2>1 DEF DepositNext, Deposit
  <2>2. CASE DisputesNext
    BY <1>1, <2>2 DEF DisputesNext, RecordDispute, ResolveDispute, Clawback, moneyVars
  <2>3. CASE UNCHANGED moneyVars
    BY <1>1, <2>3 DEF moneyVars
  <2> QED
    BY <2>1, <2>2, <2>3, Writers
<1>3. ASSUME NEW signers, NEW token, NEW amount, Withdraw(signers, token, amount)
      PROVE  FALSE
  BY <1>1, <1>3 DEF Withdraw
<1>4. ASSUME NEW signers, NEW token, NEW from, NEW amount,
             RecordSecondaryRoyalty(signers, token, from, amount)
      PROVE  FALSE
  BY <1>1, <1>4 DEF RecordSecondaryRoyalty
<1>5. ~TripOnly
  BY <1>1 DEF TripOnly, moneyVars
<1>6. ASSUME NEW signers, NEW token \in Token,
             \/ \E override \in RecipientLists \cup {<<>>} :
                   DistributeWithOverride(signers, token, override)
             \/ DistributeWithIncentives(signers, token)
      PROVE  Exact
  <2>1. /\ held(token) # 0 /\ balance'[token][Self] = 0
        /\ \A other \in Token \ {token} : balance'[other] = balance[other]
        /\ distributeHistory' = distributeHistory + 1
    BY <1>0, <1>5, <1>6, FullDistribution
  <2>2. Cardinality(Emptied) = 1
    BY <1>0, <2>1, OneEmptied
  <2> QED
    BY <1>0, <2>1, <2>2
<1>7. ASSUME NEW signers \in AuthSets, NEW token \in Token,
             NEW override \in RecipientLists \cup {<<>>}, NEW paid,
             DistributeResilient(signers, token, override, paid)
      PROVE  Exact \/ Failed
  <2>1. CASE paid = 1..Len(recipients_to_use(override))
    <3>1. /\ balance'[token][Self] = 0
          /\ \A other \in Token \ {token} : balance'[other] = balance[other]
      BY <1>0, <1>7, <2>1, ResilientHolds
    <3>2. held(token) # 0 /\ distributeHistory' = distributeHistory + 1
      BY <1>1, <1>7 DEF DistributeResilient, RecordDistribution
    <3>3. Cardinality(Emptied) = 1
      BY <1>0, <3>1, <3>2, OneEmptied
    <3> QED
      BY <1>0, <3>2, <3>3
  <2>2. CASE paid # 1..Len(recipients_to_use(override))
    <3>1. paid \in SUBSET (1..Len(recipients_to_use(override)))
      BY <1>7 DEF DistributeResilient
    <3> QED
      BY <1>7, <2>2, <3>1
  <2> QED
    BY <2>1, <2>2
<1>8. ASSUME NEW signers, NEW tokens \in Batches, BatchDistribute(signers, tokens)
      PROVE  Exact
  <2> DEFINE prefix == BatchPrefix(tokens)
  <2>1. /\ prefix \in Seq(Token) /\ IsInjective(prefix)
        /\ \A token \in Range(prefix) : held(token) > 0 /\ balance'[token][Self] = 0
        /\ \A token \in Token \ Range(prefix) : balance'[token] = balance[token]
    BY <1>0, <1>8, BatchHolds
  <2>2. prefix = tokens /\ distributeHistory' = distributeHistory + Len(tokens)
    BY <1>1, <1>8 DEF BatchDistribute, RecordDistribution
  <2> HIDE DEF prefix
  <2>3. Range(prefix) \subseteq Token /\ \A t \in Token : held(t) \in Nat
    BY <1>0, <2>1 DEF Range, held, Holdings, Holder
  <2>4. Emptied = Range(prefix)
    BY <2>1, <2>3 DEF Emptied, held
  <2>5. Cardinality(Emptied) = Len(tokens) /\ Len(tokens) \in Nat
    BY <2>1, <2>2, <2>4, DistinctValues
  <2> QED
    BY <1>0, <2>2, <2>5
<1>9. ASSUME NEW signers, DistributeSecondary(signers)
      PROVE  FALSE
  BY <1>1, <1>5, <1>9 DEF DistributeSecondary
<1> HIDE DEF Exact, Failed
<1>10. Exact \/ Failed
  BY <1>2, <1>3, <1>4, <1>6, <1>7, <1>8, <1>9 DEF PaymentsNext
<1> QED
  BY <1>10 DEF Exact, Failed

\* The pool is paid out whole and once, and a primary distribution leaves no dust of
\* the tokens it has paid, for lists of every length and batches of every size.
THEOREM DistributionsPayInFull == Spec => DistributionsAreComplete
<1>1. ContractInv /\ [Next]_vars =>
        (lastSecondaryDistribution' # lastSecondaryDistribution \/ secondaryPool' < secondaryPool =>
          /\ ~is_blocked("SecondaryDistribution")
          /\ secondaryPool' = 0
          /\ held(secondaryToken) - balance'[secondaryToken][Self] = secondaryPool
          /\ \A token \in Token \ {secondaryToken} : balance'[token] = balance[token])
  BY PoolStep
<1>2. ContractInv /\ [Next]_vars =>
        (distributeHistory' > distributeHistory =>
          \/ Cardinality({token \in Token : held(token) > 0 /\ held(token)' = 0})
                = distributeHistory' - distributeHistory
          \/ \E signers \in AuthSets, token \in Token,
                override \in RecipientLists \cup {<<>>} :
                \E paid \in SUBSET (1..Len(recipients_to_use(override))) :
                    /\ paid # 1..Len(recipients_to_use(override))
                    /\ DistributeResilient(signers, token, override, paid))
  BY DustStep DEF Emptied
<1>3. Spec => PoolIsPaidInFull
  BY <1>1, ContractInvariant, PTL DEF Spec, PoolIsPaidInFull
<1>4. Spec => DistributionLeavesNoDust
  BY <1>2, ContractInvariant, PTL DEF Spec, DistributionLeavesNoDust
<1> QED
  BY <1>3, <1>4 DEF DistributionsAreComplete

-----------------------------------------------------------------------------
\* Only clear_emergency_pause ends the emergency stop, with every admin's signature.
LEMMA ClearingStep ==
    ASSUME ContractInv, [Next]_vars, emergencyPaused, ~emergencyPaused'
    PROVE  \E signers \in AuthSets :
              IF adminList # <<>> THEN Range(adminList) \subseteq signers ELSE admin \in signers
<1>1. ~(UNCHANGED emergencyPaused) /\ emergencyPaused' # TRUE
  OBVIOUS
<1>2. ~SwitchNext
  BY <1>1 DEF SwitchNext, SetPaused, Pause, Unpause, SetOperationPaused, SetAnomalyThreshold,
     ClearAnomalyThreshold, SetApprovedTokens
<1>3. EmergencyNext
  BY <1>1, <1>2, Writers, PaymentsOnlyTrip DEF switchVars
<1>4. PICK signers \in AuthSets : ClearEmergencyPause(signers)
  BY <1>1, <1>3 DEF EmergencyNext, TriggerEmergencyPause
<1>5. CASE adminList # <<>>
  <2>1. \A i \in 1..Len(adminList) : adminList[i] \in signers
    BY <1>4, <1>5 DEF ClearEmergencyPause, ClearAuth, require_emergency_clear_auth
  <2>2. DOMAIN adminList = 1..Len(adminList)
    BY DEF ContractInv, AdminInv, AdminTypeOK
  <2> QED
    BY <1>5, <2>1, <2>2 DEF Range
<1>6. CASE adminList = <<>>
  BY <1>4, <1>6 DEF ClearEmergencyPause, ClearAuth, require_emergency_clear_auth
<1> QED
  BY <1>5, <1>6

\* set_admins alone rewrites the list, with the signatures the list asks for.
LEMMA AdminListStep ==
    ASSUME ContractInv, [Next]_vars, adminList # <<>>,
           <<adminList, adminThreshold>>' # <<adminList, adminThreshold>>
    PROVE  /\ adminList' # <<>>
           /\ \E signers \in AuthSets : \A i \in 1..adminThreshold : adminList[i] \in signers
<1>1. AdminNext
  BY AdminFrame DEF adminVars
<1>2. PICK signers \in AuthSets, admins \in AdminLists, threshold \in 0..MAX_ADMIN_LIST :
          SetAdmins(signers, admins, threshold)
  BY <1>1 DEF AdminNext, FinalizeAdminRotation, AcceptAdmin, CancelAdminRotation, AdminTransfer,
     ProposeAdminTransfer, InitiateAdminRotation, SetAdminRotationTimelock
<1> QED
  BY <1>2 DEF SetAdmins, ValidAdmins, check_admin_auth

\* A rotation to somebody else starts its timelock anew.
LEMMA RestartStep ==
    ASSUME ContractInv, [Next]_vars, pendingRotation # None, pendingRotation' # None,
           pendingRotation'.new_admin # pendingRotation.new_admin
    PROVE  pendingRotation'.initiated_at = ledger
<1>1. AdminNext
  BY AdminFrame DEF adminVars
<1>2. PICK signers \in AuthSets, a \in Address : InitiateAdminRotation(signers, a)
  BY <1>1 DEF AdminNext, FinalizeAdminRotation, AcceptAdmin, CancelAdminRotation, AdminTransfer,
     ProposeAdminTransfer, SetAdmins, SetAdminRotationTimelock
<1> QED
  BY <1>2 DEF InitiateAdminRotation, Rotation

\* initialize dates the first collaborators, set_recipients dates the new ones only.
LEMMA JoinStep ==
    ASSUME ContractInv, [Next]_vars, NEW a \in DOMAIN joinDate
    PROVE  a \in DOMAIN joinDate' /\ joinDate'[a] = joinDate[a]
<1>1. CASE UNCHANGED joinDate
  BY <1>1
<1>2. initialized
  <2>1. DOMAIN EmptyMap = {}
    BY DEF EmptyMap
  <2> QED
    BY <2>1 DEF ContractInv, SetupInv, FreshUntilInitialized
<1>3. ~InitializeNext
  BY <1>2 DEF InitializeNext, CommitInitialize, Initialize, RevealInitialize
<1>4. ASSUME NEW signers, NEW recipients, SetRecipients(signers, recipients)
      PROVE  a \in DOMAIN joinDate' /\ joinDate'[a] = joinDate[a]
  BY <1>4 DEF SetRecipients, JoinDates, MapGet
<1>5. CASE RecipientsNext
  BY <1>1, <1>4, <1>5 DEF RecipientsNext, SetDefaultRecipients, UpdateShare, SetIncentivesEnabled
<1> QED
  BY <1>1, <1>3, <1>5, Writers

\* Only reveal_initialize takes the commitment away, and installs what it holds.
LEMMA RevealStep ==
    ASSUME ContractInv, [Next]_vars, commitment # None, commitment' = None
    PROVE  /\ ledger > commitment.ledger
           /\ collaborators' = commitment.collaborators
           /\ shareMap' = ShareMapOf(Recipients(commitment.collaborators, commitment.shares))
           /\ admin' = commitment.collaborators[1]
<1>1. InitializeNext
  BY Writers DEF initVars
<1>2. ASSUME NEW in \in InitInputs, CommitInitialize(in[1], in[2])
      PROVE  FALSE
  <2>1. in[1] \in Seq(Address) /\ in[2] \in Seq(Nat) /\ ledger \in Nat
    BY SetupAssumption DEF ContractInv, AdminInv, AdminTypeOK
  <2>2. commitment' \in [collaborators : Seq(Address), shares : Seq(Nat), ledger : Nat]
    BY <1>2, <2>1 DEF CommitInitialize
  <2> QED
    BY <2>2, SetupAssumption
<1>3. PICK in \in InitInputs, signers \in AuthSets : RevealInitialize(signers, in[1], in[2])
  BY <1>1, <1>2 DEF InitializeNext, Initialize
<1> QED
  BY <1>3 DEF RevealInitialize, MatchesCommitment, initialize_validated

\* The newest entry of the history bears the caller's name.
LEMMA LastCaller ==
    ASSUME RateInv, NEW rate, NEW caller
    PROVE  LET h == RecordedHistory(rate, caller) IN h[Len(h)].caller = caller
<1> DEFINE entry == [old_rate |-> royaltyRate, new_rate |-> rate,
                     timestamp |-> ledger, caller |-> caller]
           base == IF Len(rateHistory) >= RATE_HISTORY_CAP THEN Tail(rateHistory)
                   ELSE rateHistory
<1>1. entry.caller = caller /\ RecordedHistory(rate, caller) = Append(base, entry)
  BY DEF RecordedHistory
<1>2. base \in Seq(RateChange)
  <2>1. rateHistory \in Seq(RateChange) /\ RATE_HISTORY_CAP \in Nat \ {0}
    BY GovernanceAssumption DEF RateInv, RateTypeOK
  <2>2. CASE Len(rateHistory) >= RATE_HISTORY_CAP
    BY <2>1, <2>2
  <2> QED
    BY <2>1, <2>2
<1> HIDE DEF entry, base
<1>3. Append(base, entry)[Len(Append(base, entry))] = entry
  BY <1>2
<1> QED
  BY <1>1, <1>3

\* A rate change under another name than the admin's executes an open proposal.
LEMMA ExecutionStep ==
    ASSUME ContractInv, [Next]_vars, rateHistory' # rateHistory,
           rateHistory'[Len(rateHistory')].caller # admin
    PROVE  \E id \in 1..Len(proposals) :
              /\ ~proposals[id].executed /\ proposals'[id].executed
              /\ royaltyRate' = proposals[id].new_rate
<1>1. GovernanceNext
  BY RateFrame DEF rateVars
<1>2. ASSUME NEW signers, NEW rate, SetRoyaltyRate(signers, rate)
      PROVE  FALSE
  <2>1. rateHistory' = RecordedHistory(rate, admin) /\ RateInv
    BY <1>2 DEF SetRoyaltyRate, ContractInv
  <2> QED
    BY <2>1, LastCaller
<1>3. PICK id \in 1..Len(proposals) : ExecuteProposal(id)
  BY <1>1, <1>2 DEF GovernanceNext, ProposalNext, ProposeRateChange, Vote, RejectProposal
<1>4. proposals \in Seq(Proposal) /\ proposals[id] \in Proposal
  BY DEF ContractInv, RateInv, RateTypeOK
<1>5. proposals'[id] = [proposals[id] EXCEPT !.executed = TRUE]
  <2> DEFINE new == [proposals[id] EXCEPT !.executed = TRUE]
  <2>1. proposals' = [proposals EXCEPT ![id] = new]
    BY <1>3 DEF ExecuteProposal
  <2>2. id \in DOMAIN proposals
    BY <1>4
  <2> HIDE DEF new
  <2>3. proposals'[id] = new
    BY <2>1, <2>2
  <2> QED
    BY <2>3 DEF new
<1>6. proposals'[id].executed
  BY <1>4, <1>5 DEF Proposal
<1> QED
  BY <1>3, <1>6 DEF ExecuteProposal, voting_closed

\* Nobody is overruled: the list governs itself, an emergency ends by all admins, a
\* rotation waits anew, join dates stick, a reveal installs what was committed, and a
\* proposal changes the rate once; for every list, threshold and sequence of calls.
THEOREM ChangesStayAuthorised == Spec => ChangesAreAuthorised
<1>1. ContractInv /\ [Next]_vars =>
        (adminList # <<>> /\ <<adminList, adminThreshold>>' # <<adminList, adminThreshold>> =>
          /\ adminList' # <<>>
          /\ \E signers \in AuthSets :
                \A i \in 1..adminThreshold : adminList[i] \in signers)
  BY AdminListStep
<1>2. ContractInv /\ [Next]_vars =>
        (emergencyPaused /\ ~emergencyPaused' =>
          \E signers \in AuthSets :
              IF adminList # <<>> THEN Range(adminList) \subseteq signers
              ELSE admin \in signers)
  BY ClearingStep
<1>3. ContractInv /\ [Next]_vars =>
        (/\ pendingRotation # None /\ pendingRotation' # None
         /\ pendingRotation'.new_admin # pendingRotation.new_admin
         => pendingRotation'.initiated_at = ledger)
  BY RestartStep
<1>4. ContractInv /\ [Next]_vars =>
        \A a \in DOMAIN joinDate : a \in DOMAIN joinDate' /\ joinDate'[a] = joinDate[a]
  BY JoinStep
<1>5. ContractInv /\ [Next]_vars =>
        (commitment # None /\ commitment' = None =>
          /\ ledger > commitment.ledger
          /\ collaborators' = commitment.collaborators
          /\ shareMap' = ShareMapOf(Recipients(commitment.collaborators, commitment.shares))
          /\ admin' = commitment.collaborators[1])
  BY RevealStep
<1>6. ContractInv /\ [Next]_vars =>
        (/\ rateHistory' # rateHistory
         /\ rateHistory'[Len(rateHistory')].caller # admin
         => \E id \in 1..Len(proposals) :
               /\ ~proposals[id].executed /\ proposals'[id].executed
               /\ royaltyRate' = proposals[id].new_rate)
  BY ExecutionStep
<1>7. Spec => AdminListGovernsItself
  BY <1>1, ContractInvariant, PTL DEF Spec, AdminListGovernsItself
<1>8. Spec => EmergencyEndsUnanimously
  BY <1>2, ContractInvariant, PTL DEF Spec, EmergencyEndsUnanimously
<1>9. Spec => RotationRestarts
  BY <1>3, ContractInvariant, PTL DEF Spec, RotationRestarts
<1>10. Spec => JoinDatesStick
  BY <1>4, ContractInvariant, PTL DEF Spec, JoinDatesStick
<1>11. Spec => RevealInstallsTheCommitment
  BY <1>5, ContractInvariant, PTL DEF Spec, RevealInstallsTheCommitment
<1>12. Spec => ProposalsExecuteOnce
  BY <1>6, ContractInvariant, PTL DEF Spec, ProposalsExecuteOnce
<1> QED
  BY <1>7, <1>8, <1>9, <1>10, <1>11, <1>12 DEF ChangesAreAuthorised

-----------------------------------------------------------------------------
(***************************************************************************)
(* The tally of a proposal.  The weight of a vote is the voter's share when *)
(* it is cast and set_recipients may change the shares afterwards (the run *)
(* reshuffle), so what the tally means is stated for behaviours in which   *)
(* the split stands from the first proposal on.                            *)
(***************************************************************************)
SplitStands == [][proposals # <<>> => UNCHANGED shareMap]_vars

\* The accounts that have voted one way.
VotersOf(votes, support) == {a \in DOMAIN votes : votes[a] = support}

\* One proposal's tally: its voters hold shares, each side weighs what its voters
\* hold, and both together what all voters hold.
Tallied(proposal, votes) ==
    /\ DOMAIN votes \subseteq DOMAIN shareMap
    /\ proposal.yes_weight = SumFunctionOnSet(shareMap, VotersOf(votes, TRUE))
    /\ proposal.no_weight = SumFunctionOnSet(shareMap, VotersOf(votes, FALSE))
    /\ proposal.yes_weight + proposal.no_weight = SumFunctionOnSet(shareMap, DOMAIN votes)

TallyInv == \A id \in 1..Len(proposals) : Tallied(proposals[id], proposalVotes[id])

\* The split in force is a finite map to shares that add up to BPS.
LEMMA SplitIsFinite ==
    ASSUME ContractInv, shareMap # EmptyMap
    PROVE  /\ IsFiniteSet(DOMAIN shareMap)
           /\ \A a \in DOMAIN shareMap : shareMap[a] \in Nat
           /\ SumFunctionOnSet(shareMap, DOMAIN shareMap) = BPS
<1>1. initialized /\ collaborators \in Seq(Address) /\ IsMap(shareMap, Nat)
  BY DEF ContractInv, SetupInv, FreshUntilInitialized, SetupTypeOK
<1>2. /\ IsInjective(collaborators) /\ DOMAIN shareMap = Range(collaborators)
      /\ get_total_shares = BPS
  BY <1>1 DEF ContractInv, SetupInv, SplitIsWhole
<1>3. IsFiniteSet(DOMAIN shareMap)
  BY <1>1, <1>2, DistinctValues
<1>4. \A a \in DOMAIN shareMap : shareMap[a] \in Nat
  BY <1>1 DEF IsMap
<1> QED
  BY <1>2, <1>3, <1>4 DEF get_total_shares, SumFunction

\* One more voter adds that voter's share, and the voters never weigh more than all.
LEMMA OneMoreVoter ==
    ASSUME ContractInv, NEW voters \in SUBSET DOMAIN shareMap,
           NEW voter \in DOMAIN shareMap, voter \notin voters
    PROVE  /\ SumFunctionOnSet(shareMap, voters \cup {voter})
                 = SumFunctionOnSet(shareMap, voters) + shareMap[voter]
           /\ SumFunctionOnSet(shareMap, voters) \in Nat
           /\ SumFunctionOnSet(shareMap, voters \cup {voter}) <= BPS
<1> DEFINE S == voters \cup {voter}
<1>0. shareMap # EmptyMap
  <2>1. DOMAIN EmptyMap = {}
    BY DEF EmptyMap
  <2> QED
    BY <2>1
<1>1. /\ IsFiniteSet(DOMAIN shareMap)
      /\ \A a \in DOMAIN shareMap : shareMap[a] \in Nat
      /\ SumFunctionOnSet(shareMap, DOMAIN shareMap) = BPS
  BY <1>0, SplitIsFinite
<1>2. S \in SUBSET DOMAIN shareMap /\ voter \in S /\ S \ {voter} = voters
  OBVIOUS
<1> HIDE DEF S
<1>3. IsFiniteSet(S) /\ IsFiniteSet(voters)
  BY <1>1, <1>2, FS_Subset
<1>4. IntsOn(shareMap, S)
  BY <1>1, <1>2 DEF IntsOn
<1>5. SumFunctionOnSet(shareMap, S) = shareMap[voter] + SumFunctionOnSet(shareMap, S \ {voter})
  BY <1>2, <1>3, <1>4, SumRemove
<1>6. SumFunctionOnSet(shareMap, voters) \in Nat
  BY <1>1, <1>3, SumNonNegative
<1>7. SumFunctionOnSet(shareMap, S) <= SumFunctionOnSet(shareMap, DOMAIN shareMap)
  BY <1>1, <1>2, SumOfPart
<1> QED
  BY <1>1, <1>2, <1>5, <1>6, <1>7 DEF S

\* vote counts the voter once, on one side; the saturation of the sums never bites.
LEMMA VoteTallied ==
    ASSUME ContractInv, NEW p \in Proposal, NEW votes, IsMap(votes, BOOLEAN), Tallied(p, votes),
           NEW voter \in DOMAIN shareMap, voter \notin DOMAIN votes, NEW support \in BOOLEAN
    PROVE  Tallied(CountVote(p, support, shareMap[voter]), MapSet(votes, voter, support))
<1> DEFINE weight == shareMap[voter]
           new == CountVote(p, support, weight)
           after == MapSet(votes, voter, support)
           mine == VotersOf(votes, support)
           Weight(S) == SumFunctionOnSet(shareMap, S)
<1>1. /\ DOMAIN after = DOMAIN votes \cup {voter}
      /\ after[voter] = support
      /\ \A a \in DOMAIN votes : after[a] = votes[a]
  BY DEF MapSet
<1>2. /\ \A a \in DOMAIN votes : votes[a] \in BOOLEAN
      /\ DOMAIN votes \subseteq DOMAIN shareMap
  BY DEF IsMap, Tallied
<1> HIDE DEF after
<1>3. VotersOf(after, support) = mine \cup {voter}
  BY <1>1, <1>2 DEF VotersOf
<1>4. VotersOf(after, ~support) = VotersOf(votes, ~support)
  BY <1>1, <1>2 DEF VotersOf
<1>5. /\ mine \in SUBSET DOMAIN shareMap /\ voter \notin mine
      /\ DOMAIN votes \in SUBSET DOMAIN shareMap
  BY <1>2 DEF VotersOf
<1>6. /\ Weight(mine \cup {voter}) = Weight(mine) + weight
      /\ Weight(mine) \in Nat /\ Weight(mine \cup {voter}) <= BPS
  BY <1>5, OneMoreVoter
<1>7. /\ Weight(DOMAIN votes \cup {voter}) = Weight(DOMAIN votes) + weight
      /\ Weight(DOMAIN votes) \in Nat
  BY <1>5, OneMoreVoter
<1>8. weight \in Nat
  BY DEF ContractInv, SetupInv, SetupTypeOK, IsMap
<1> HIDE DEF Weight, weight, mine
<1>9. Lesser(Weight(mine) + weight, U32_MAX) = Weight(mine) + weight
  BY <1>6, <1>8, ShareMathAssumption DEF Lesser, BPS
<1>10. p.yes_weight \in Nat /\ p.no_weight \in Nat
  BY DEF Proposal
<1>11. CASE support = TRUE
  <2>1. p.yes_weight = Weight(mine)
    BY <1>11 DEF Tallied, Weight, mine
  <2>2. new.yes_weight = Weight(mine) + weight /\ new.no_weight = p.no_weight
    BY <1>9, <1>11, <2>1 DEF CountVote, Proposal
  <2> HIDE DEF new
  <2>3. new.yes_weight = Weight(VotersOf(after, TRUE))
    BY <1>3, <1>6, <1>11, <2>2
  <2>4. new.no_weight = Weight(VotersOf(after, FALSE))
    BY <1>4, <1>11, <2>2 DEF Tallied, Weight
  <2>5. new.yes_weight + new.no_weight = Weight(DOMAIN after)
    <3>1. p.yes_weight + p.no_weight = Weight(DOMAIN votes)
      BY DEF Tallied, Weight
    <3> QED
      BY <1>1, <1>6, <1>7, <1>8, <1>10, <2>1, <2>2, <3>1
  <2> QED
    BY <1>1, <1>2, <2>3, <2>4, <2>5 DEF Tallied, Weight, new, after, weight
<1>12. CASE support = FALSE
  <2>1. p.no_weight = Weight(mine)
    BY <1>12 DEF Tallied, Weight, mine
  <2>2. new.no_weight = Weight(mine) + weight /\ new.yes_weight = p.yes_weight
    BY <1>9, <1>12, <2>1 DEF CountVote, Proposal
  <2> HIDE DEF new
  <2>3. new.no_weight = Weight(VotersOf(after, FALSE))
    BY <1>3, <1>6, <1>12, <2>2
  <2>4. new.yes_weight = Weight(VotersOf(after, TRUE))
    BY <1>4, <1>12, <2>2 DEF Tallied, Weight
  <2>5. new.yes_weight + new.no_weight = Weight(DOMAIN after)
    <3>1. p.yes_weight + p.no_weight = Weight(DOMAIN votes)
      BY DEF Tallied, Weight
    <3> QED
      BY <1>1, <1>6, <1>7, <1>8, <1>10, <2>1, <2>2, <3>1
  <2> QED
    BY <1>1, <1>2, <2>3, <2>4, <2>5 DEF Tallied, Weight, new, after, weight
<1> QED
  BY <1>11, <1>12

\* While the split stands every step keeps every tally.
LEMMA TallyStep ==
    ASSUME ContractInv, TallyInv, [Next]_vars, proposals # <<>> => UNCHANGED shareMap
    PROVE  TallyInv'
<1>0. /\ proposals \in Seq(Proposal) /\ Len(proposals) \in Nat
      /\ DOMAIN proposals = 1..Len(proposals) /\ DOMAIN proposalVotes = 1..Len(proposals)
      /\ \A id \in 1..Len(proposals) : /\ proposals[id] \in Proposal
                                       /\ IsMap(proposalVotes[id], BOOLEAN)
                                       /\ Tallied(proposals[id], proposalVotes[id])
  BY DEF ContractInv, RateInv, RateTypeOK, TallyInv
<1>2. CASE UNCHANGED <<proposals, proposalVotes>>
  <2>1. CASE proposals = <<>>
    BY <1>2, <2>1 DEF TallyInv
  <2>2. CASE proposals # <<>>
    BY <1>2, <2>2 DEF TallyInv, Tallied
  <2> QED
    BY <2>1, <2>2
<1>3. CASE ~GovernanceNext
  BY <1>2, <1>3, RateFrame DEF rateVars
<1>4. ASSUME NEW signers, NEW rate, SetRoyaltyRate(signers, rate)
      PROVE  TallyInv'
  BY <1>2, <1>4 DEF SetRoyaltyRate
<1>5. ASSUME NEW signers, NEW a, NEW rate, NEW duration,
             ProposeRateChange(signers, a, rate, duration)
      PROVE  TallyInv'
  <2> DEFINE new == [new_rate |-> rate, proposer |-> a, created_at |-> ledger,
                     deadline |-> ledger + duration, yes_weight |-> 0, no_weight |-> 0,
                     executed |-> FALSE, rejected |-> FALSE]
  <2>1. /\ proposals' = Append(proposals, new)
        /\ proposalVotes' = Append(proposalVotes, EmptyMap)
        /\ shareMap' = shareMap
    BY <1>5 DEF ProposeRateChange, NotRate, shareVars
  <2>2. new.yes_weight = 0 /\ new.no_weight = 0
    OBVIOUS
  <2> HIDE DEF new
  <2>3. Tallied(new, EmptyMap)
    <3>1. DOMAIN EmptyMap = {} /\ VotersOf(EmptyMap, TRUE) = {} /\ VotersOf(EmptyMap, FALSE) = {}
      BY DEF EmptyMap, VotersOf
    <3>2. SumFunctionOnSet(shareMap, {}) = 0
      BY SumEmpty
    <3>3. /\ SumFunctionOnSet(shareMap, VotersOf(EmptyMap, TRUE)) = 0
          /\ SumFunctionOnSet(shareMap, VotersOf(EmptyMap, FALSE)) = 0
          /\ SumFunctionOnSet(shareMap, DOMAIN EmptyMap) = 0
      BY <3>1, <3>2, Zenon
    <3>4. new.yes_weight + new.no_weight = 0
      BY <2>2
    <3> QED
      BY <2>2, <3>1, <3>3, <3>4, Zenon DEF Tallied
  <2>4. /\ Len(proposals') = Len(proposals) + 1
        /\ \A id \in 1..Len(proposals) : proposals'[id] = proposals[id]
        /\ proposals'[Len(proposals) + 1] = new
    BY <1>0, <2>1
  <2>5. /\ \A id \in 1..Len(proposals) : proposalVotes'[id] = proposalVotes[id]
        /\ proposalVotes'[Len(proposals) + 1] = EmptyMap
    BY <1>0, <2>1
  <2>6. \A id \in 1..Len(proposals') : Tallied(proposals'[id], proposalVotes'[id])
    BY <1>0, <2>3, <2>4, <2>5
  <2> QED
    BY <2>1, <2>6 DEF TallyInv, Tallied
<1>6. ASSUME NEW signers, NEW a, NEW id \in 1..Len(proposals), NEW support \in BOOLEAN,
             Vote(signers, a, id, support)
      PROVE  TallyInv'
  <2> DEFINE new == CountVote(proposals[id], support, shareMap[a])
             after == MapSet(proposalVotes[id], a, support)
  <2>1. /\ proposals' = [proposals EXCEPT ![id] = new]
        /\ proposalVotes' = [proposalVotes EXCEPT ![id] = after]
        /\ a \in DOMAIN shareMap /\ a \notin DOMAIN proposalVotes[id]
        /\ shareMap' = shareMap
    BY <1>6 DEF Vote, has_not_voted, NotRate, shareVars
  <2>2. Tallied(new, after)
    BY <1>0, <2>1, VoteTallied
  <2> HIDE DEF new, after
  <2>3. /\ Len(proposals') = Len(proposals)
        /\ proposals'[id] = new /\ proposalVotes'[id] = after
        /\ \A other \in 1..Len(proposals) : other # id =>
              proposals'[other] = proposals[other] /\ proposalVotes'[other] = proposalVotes[other]
    BY <1>0, <2>1
  <2>4. \A other \in 1..Len(proposals') : Tallied(proposals'[other], proposalVotes'[other])
    BY <1>0, <2>2, <2>3
  <2> QED
    BY <2>1, <2>4 DEF TallyInv, Tallied
<1>7. ASSUME NEW id \in 1..Len(proposals), ExecuteProposal(id) \/ RejectProposal(id)
      PROVE  TallyInv'
  <2> DEFINE new == IF passed(proposals[id]) THEN [proposals[id] EXCEPT !.executed = TRUE]
                    ELSE [proposals[id] EXCEPT !.rejected = TRUE]
  <2>1. /\ proposals' = [proposals EXCEPT ![id] = new]
        /\ proposalVotes' = proposalVotes /\ shareMap' = shareMap
    BY <1>7 DEF ExecuteProposal, RejectProposal, NotRate, shareVars
  <2>2. new.yes_weight = proposals[id].yes_weight /\ new.no_weight = proposals[id].no_weight
    BY <1>0 DEF Proposal
  <2> HIDE DEF new
  <2>3. Tallied(new, proposalVotes[id])
    BY <1>0, <2>2 DEF Tallied
  <2>4. /\ Len(proposals') = Len(proposals) /\ proposals'[id] = new
        /\ \A other \in 1..Len(proposals) : other # id => proposals'[other] = proposals[other]
    BY <1>0, <2>1
  <2>5. \A other \in 1..Len(proposals') : Tallied(proposals'[other], proposalVotes'[other])
    BY <1>0, <2>1, <2>3, <2>4
  <2> QED
    BY <2>1, <2>5 DEF TallyInv, Tallied
<1> QED
  BY <1>3, <1>4, <1>5, <1>6, <1>7 DEF GovernanceNext, ProposalNext

\* The voters of a proposal never weigh more than the whole split.
LEMMA TallyBound == ContractInv /\ TallyInv => TallyIsExact /\ WeightWithinTotal
<1> SUFFICES ASSUME ContractInv, TallyInv
             PROVE  TallyIsExact /\ WeightWithinTotal
  OBVIOUS
<1>1. TallyIsExact
  BY DEF TallyIsExact, TallyInv, Tallied, VotersOf
<1>2. ASSUME NEW id \in 1..Len(proposals)
      PROVE  proposals[id].yes_weight + proposals[id].no_weight <= TOTAL_SHARE_WEIGHT
  <2> DEFINE S == DOMAIN proposalVotes[id]
  <2>1. /\ S \in SUBSET DOMAIN shareMap
        /\ proposals[id].yes_weight + proposals[id].no_weight = SumFunctionOnSet(shareMap, S)
    BY <1>2 DEF TallyInv, Tallied
  <2>2. CASE shareMap = EmptyMap
    <3>1. S = {}
      BY <2>1, <2>2 DEF EmptyMap
    <3> QED
      BY <2>1, <3>1, SumEmpty DEF TOTAL_SHARE_WEIGHT
  <2>3. CASE shareMap # EmptyMap
    <3>1. /\ IsFiniteSet(DOMAIN shareMap)
          /\ \A a \in DOMAIN shareMap : shareMap[a] \in Nat
          /\ SumFunctionOnSet(shareMap, DOMAIN shareMap) = BPS
      BY <2>3, SplitIsFinite
    <3>2. SumFunctionOnSet(shareMap, S) <= SumFunctionOnSet(shareMap, DOMAIN shareMap)
      BY <2>1, <3>1, SumOfPart
    <3> QED
      BY <2>1, <3>1, <3>2 DEF TOTAL_SHARE_WEIGHT, BPS
  <2> QED
    BY <2>2, <2>3
<1> QED
  BY <1>1, <1>2 DEF WeightWithinTotal

\* While the split stands the tallies stay in order through every entry point.
THEOREM TallyInvariant == Spec /\ SplitStands => []TallyInv
<1>1. Init => TallyInv
  BY DEF Init, Deployed, TallyInv
<1>2. ContractInv /\ TallyInv /\ [Next]_vars /\ [proposals # <<>> => UNCHANGED shareMap]_vars
        => TallyInv'
  <2>1. UNCHANGED vars => UNCHANGED shareMap
    BY DEF vars, shareVars
  <2> QED
    BY <2>1, TallyStep
<1> QED
  BY <1>1, <1>2, ContractInvariant, PTL DEF Spec, SplitStands

\* While the split stands the books are exact to the last vote: each collaborator
\* counts once, with the share held, for any number of voters and proposals.
THEOREM BooksStayExact == Spec /\ SplitStands => []BooksAreExact
<1>1. ContractInv /\ TallyInv => BooksAreExact
  BY TallyBound DEF BooksAreExact, ContractInv, SetupInv, RecordInv
<1> QED
  BY <1>1, TallyInvariant, ContractInvariant, PTL

\* While the split stands a majority of the yes weight is a majority of the split, as
\* TOTAL_SHARE_WEIGHT means it; that this fails when the split changes is a finding.
THEOREM WeightsStayWithin == Spec /\ SplitStands => []WeightWithinTotal
  BY TallyBound, TallyInvariant, ContractInvariant, PTL
=============================================================================
