------------------------- MODULE SplitterGovernance -------------------------
(***************************************************************************)
(* The royalty rate: set_royalty_rate by the admins, and the share-weighted *)
(* proposals of the collaborators (propose_rate_change, vote,              *)
(* execute_proposal), which write the same rate and the same bounded       *)
(* history.                                                                *)
(***************************************************************************)
EXTENDS SplitterSetup

CONSTANTS
    Rates,                  \* rates offered to the entry points, in basis points
    Durations,              \* voting windows offered to propose_rate_change
    RATE_HISTORY_CAP,       \* lib.rs: 20
    MIN_PROPOSAL_DURATION,  \* in ledgers; lib.rs: 1 hour
    MAX_PROPOSAL_DURATION,  \* lib.rs: 14 days
    MaxProposals            \* bound on the number of proposals

ASSUME GovernanceAssumption ==
    /\ Rates \subseteq Nat
    /\ Durations \subseteq Nat
    /\ RATE_HISTORY_CAP \in Nat \ {0}
    /\ MIN_PROPOSAL_DURATION \in Nat /\ MAX_PROPOSAL_DURATION \in Nat
    /\ MaxProposals \in Nat

TOTAL_SHARE_WEIGHT == 10000

NotRate == <<ledger, adminVars, initVars, shareVars, switchVars, moneyVars, disputes, upgradeVars>>

\* set_royalty_rate and propose_rate_change accept the rate.
ValidRate(new_rate) == new_rate # 0 /\ new_rate <= 10000

\* Mutant: a full history drops its newest entry instead of its oldest.
HistoryDropsNewest(new_rate, caller) ==
    Append(IF Len(rateHistory) >= RATE_HISTORY_CAP
           THEN SubSeq(rateHistory, 1, Len(rateHistory) - 1) ELSE rateHistory,
           [old_rate |-> royaltyRate, new_rate |-> new_rate,
            timestamp |-> ledger, caller |-> caller])

\* The history with one more change; a full history drops its oldest entry.
RecordedHistory(new_rate, caller) ==
    Append(IF Len(rateHistory) >= RATE_HISTORY_CAP THEN Tail(rateHistory) ELSE rateHistory,
           [old_rate |-> royaltyRate, new_rate |-> new_rate,
            timestamp |-> ledger, caller |-> caller])

SetRoyaltyRate(signers, new_rate) ==
    /\ check_admin_auth(signers)
    /\ ValidRate(new_rate)
    /\ initialized
    /\ royaltyRate' = new_rate
    /\ rateHistory' = RecordedHistory(new_rate, admin)
    /\ UNCHANGED <<proposals, proposalVotes>>
    /\ UNCHANGED NotRate

-----------------------------------------------------------------------------
\* Proposal ids count from 1 and nothing is deleted: the maps are sequences.
ProposeRateChange(signers, proposer, new_rate, duration) ==
    /\ proposer \in signers
    /\ proposer \in DOMAIN shareMap
    /\ ValidRate(new_rate)
    /\ duration >= MIN_PROPOSAL_DURATION /\ duration <= MAX_PROPOSAL_DURATION
    /\ Len(proposals) < MaxProposals
    /\ proposals' = Append(proposals,
          [new_rate |-> new_rate, proposer |-> proposer,
           created_at |-> ledger, deadline |-> ledger + duration,
           yes_weight |-> 0, no_weight |-> 0, executed |-> FALSE, rejected |-> FALSE])
    /\ proposalVotes' = Append(proposalVotes, EmptyMap)
    /\ UNCHANGED <<royaltyRate, rateHistory>>
    /\ UNCHANGED NotRate

\* Mutant: votes are taken after the deadline, until the proposal is settled.
unsettled(proposal) == ~proposal.executed /\ ~proposal.rejected

\* vote still counts: the proposal is not settled and its window is open.
voting_open(proposal) ==
    ~proposal.executed /\ ~proposal.rejected /\ ledger < proposal.deadline

has_not_voted(voter, id) == voter \notin DOMAIN proposalVotes[id]

\* The u32 sums saturate.
CountVote(proposal, support, weight) ==
    IF support THEN [proposal EXCEPT !.yes_weight = Lesser(@ + weight, U32_MAX)]
    ELSE [proposal EXCEPT !.no_weight = Lesser(@ + weight, U32_MAX)]

\* The weight of a vote is the voter's share at the time of the vote.
Vote(signers, voter, id, support) ==
    /\ voter \in signers
    /\ voter \in DOMAIN shareMap
    /\ voting_open(proposals[id])
    /\ has_not_voted(voter, id)
    /\ proposalVotes' = [proposalVotes EXCEPT ![id] = MapSet(@, voter, support)]
    /\ proposals' = [proposals EXCEPT ![id] = CountVote(@, support, shareMap[voter])]
    /\ UNCHANGED <<royaltyRate, rateHistory>>
    /\ UNCHANGED NotRate

\* Mutant: half of the weight is enough.
half_is_enough(proposal) ==
    proposal.yes_weight >= TOTAL_SHARE_WEIGHT \div 2 /\ proposal.yes_weight >= proposal.no_weight

\* A strict majority of the whole weight, and more yes than no.
passed(proposal) ==
    proposal.yes_weight > TOTAL_SHARE_WEIGHT \div 2 /\ proposal.yes_weight > proposal.no_weight

\* execute_proposal goes ahead: not settled yet, and the window has closed.
voting_closed(proposal) ==
    ~proposal.executed /\ ~proposal.rejected /\ ledger >= proposal.deadline

\* execute_proposal on a proposal that passed; anybody may call it.
ExecuteProposal(id) ==
    LET proposal == proposals[id] IN
    /\ voting_closed(proposal)
    /\ passed(proposal)
    /\ royaltyRate' = proposal.new_rate
    /\ rateHistory' = RecordedHistory(proposal.new_rate, proposal.proposer)
    /\ proposals' = [proposals EXCEPT ![id] = [@ EXCEPT !.executed = TRUE]]
    /\ UNCHANGED proposalVotes
    /\ UNCHANGED NotRate

\* execute_proposal on one that did not: the rejection is recorded.
RejectProposal(id) ==
    /\ voting_closed(proposals[id])
    /\ ~passed(proposals[id])
    /\ proposals' = [proposals EXCEPT ![id] = [@ EXCEPT !.rejected = TRUE]]
    /\ UNCHANGED <<royaltyRate, rateHistory, proposalVotes>>
    /\ UNCHANGED NotRate

ProposalNext ==
    \/ \E a \in Address, signers \in AuthSets :
          \/ \E rate \in Rates, duration \in Durations :
                ProposeRateChange(signers, a, rate, duration)
          \/ \E id \in 1..Len(proposals), support \in BOOLEAN :
                Vote(signers, a, id, support)
    \/ \E id \in 1..Len(proposals) : ExecuteProposal(id) \/ RejectProposal(id)

GovernanceNext ==
    \/ \E signers \in AuthSets, rate \in Rates : SetRoyaltyRate(signers, rate)
    \/ ProposalNext

-----------------------------------------------------------------------------
\* The rate and its bounded history tell one story, whichever of the two paths
\* (set_royalty_rate, execute_proposal) wrote them: the changes chain, in time
\* order, and the last one is the rate in force.
RateHistoryChains ==
    LET n == Len(rateHistory) IN
    /\ n <= RATE_HISTORY_CAP
    /\ royaltyRate = IF n = 0 THEN 0 ELSE rateHistory[n].new_rate
    /\ \A i \in 1..(n - 1) :
          /\ rateHistory[i].new_rate = rateHistory[i + 1].old_rate
          /\ rateHistory[i].timestamp <= rateHistory[i + 1].timestamp

\* A proposal takes effect only with a strict majority of yes weight, only after
\* its window has closed, and never after it was rejected.
ExecutedHadMajority ==
    \A id \in 1..Len(proposals) :
        proposals[id].executed =>
            /\ ~proposals[id].rejected
            /\ proposals[id].yes_weight > TOTAL_SHARE_WEIGHT \div 2
            /\ proposals[id].yes_weight > proposals[id].no_weight
            /\ ledger >= proposals[id].deadline

\* Once the window has closed the tally is frozen, and a settled proposal is
\* never touched again.
ClosedProposalsFreeze ==
    [][\A id \in 1..Len(proposals) :
          LET old == proposals[id]
              new == proposals'[id]
          IN  /\ ledger >= old.deadline =>
                    /\ proposalVotes'[id] = proposalVotes[id]
                    /\ new.yes_weight = old.yes_weight /\ new.no_weight = old.no_weight
              /\ old.executed \/ old.rejected => new = old]_vars

\* A rate change recorded under anybody's name but the admin's is the first
\* execution of a proposal, at its rate: a settled proposal is never run again
\* to overwrite a later rate.
ProposalsExecuteOnce ==
    [][/\ rateHistory' # rateHistory
       /\ rateHistory'[Len(rateHistory')].caller # admin
       => \E id \in 1..Len(proposals) :
             /\ ~proposals[id].executed /\ proposals'[id].executed
             /\ royaltyRate' = proposals[id].new_rate]_vars

\* While the split does not change, the tally of a proposal is exactly the shares
\* of those who voted: each collaborator counts once.
TallyIsExact ==
    \A id \in 1..Len(proposals) :
        LET voters(support) == {a \in DOMAIN proposalVotes[id] :
                                  proposalVotes[id][a] = support}
        IN  /\ proposals[id].yes_weight = SumFunctionOnSet(shareMap, voters(TRUE))
            /\ proposals[id].no_weight = SumFunctionOnSet(shareMap, voters(FALSE))

\* The votes on a proposal never weigh more than all shares together, so a
\* majority of the yes weight is a majority of the split (lib.rs, Proposal and
\* TOTAL_SHARE_WEIGHT).
WeightWithinTotal ==
    \A id \in 1..Len(proposals) :
        proposals[id].yes_weight + proposals[id].no_weight <= TOTAL_SHARE_WEIGHT
=============================================================================
