---------------------------- MODULE CaseFiles -------------------------------
(***************************************************************************)
(* What the staff decide case by case: referrals and their bonuses, holds  *)
(* on recorded transactions, and dispute tickets.                          *)
(***************************************************************************)
EXTENDS Integers, FiniteSets, FiniteSetsExt, TLC, Sequences, SequencesExt, Functions, Tables

-----------------------------------------------------------------------------
(***************************************************************************)
(* Referral links, referrals and bonuses: backend/src/database/            *)
(* referrals.js and routes/referrals.js.  A referral code is named by the  *)
(* wallet it belongs to.                                                   *)
(***************************************************************************)

CONSTANTS
    Wallet,
    Bonus,       \* bonusAmountStroops values
    MaxBonuses   \* bound on bonuses an admin awards

ASSUME ReferralAssumption == IsFiniteSet(Wallet) /\ "none" \notin Wallet /\ Bonus \subseteq Nat

VARIABLES
    codes,      \* referral_links: wallets that have a code
    referral,   \* referrals: referredAddress is unique
    bonuses     \* referral_bonuses

referralVars == <<codes, referral, bonuses>>

NoReferral == [referrer |-> "none", status |-> "none"]

ReferralsInit ==
    /\ codes = {}
    /\ referral = [w \in Wallet |-> NoReferral]
    /\ bonuses = {}

-----------------------------------------------------------------------------
\* The tables.

getReferralLinkByCode(code) == code \in codes
getReferralByReferred(w) == referral[w]
getReferralsByReferrer(w) == {r \in Wallet : referral[r].referrer = w}
countReferralsByReferrer(w) == Cardinality(getReferralsByReferrer(w))
getAllReferrals(status) == {r \in Wallet : referral[r].status = status}
countAllReferrals(status) == Cardinality(getAllReferrals(status))
getBonusesByReferrer(w) == {b \in bonuses : b.to = w}

\* A wallet keeps the code it has.
generateReferralLink(w) == codes' = codes \cup {w}

\* The code must exist, must not be the wallet's own, and a wallet is referred
\* once.
registerReferral(code, w) ==
    /\ getReferralLinkByCode(code)
    /\ code # w
    /\ getReferralByReferred(w) = NoReferral
    /\ referral' = [referral EXCEPT ![w] = [referrer |-> code, status |-> "pending"]]

awardReferralBonus(w, to, b, by) ==
    bonuses' = bonuses \cup {[of |-> w, to |-> to, amount |-> b, n |-> Cardinality(bonuses),
                              by |-> by]}

\* Mutant: the status is not looked at.
activateReferralAgain(w, b) ==
    /\ referral[w] # NoReferral
    /\ referral' = [referral EXCEPT ![w].status = "active"]
    /\ awardReferralBonus(w, referral[w].referrer, b, "activation")

\* One transaction: the status and the bonus.  A referral that is active
\* already is answered as it is.
activateReferral(w, b) ==
    /\ referral[w].status = "pending"
    /\ referral' = [referral EXCEPT ![w].status = "active"]
    /\ awardReferralBonus(w, referral[w].referrer, b, "activation")

Stroops(rows) == SumFunctionOnSet([b \in bonuses |-> b.amount], rows)

getReferralDashboard(w) ==
    [code    |-> w \in codes,
     total   |-> countReferralsByReferrer(w),
     pending |-> Cardinality(getReferralsByReferrer(w) \cap getAllReferrals("pending")),
     active  |-> Cardinality(getReferralsByReferrer(w) \cap getAllReferrals("active")),
     stroops |-> Stroops(getBonusesByReferrer(w))]

-----------------------------------------------------------------------------
\* The routes.

PostLink(w) == generateReferralLink(w) /\ UNCHANGED <<referral, bonuses>>

PostRegister(w) ==
    /\ \E code \in Wallet : registerReferral(code, w)
    /\ UNCHANGED <<codes, bonuses>>

PostActivate(w) == (\E b \in Bonus : activateReferral(w, b)) /\ UNCHANGED codes

\* An admin's bonus names any referral and any wallet.
PostBonus(w) ==
    /\ referral[w] # NoReferral
    /\ Cardinality({x \in bonuses : x.by = "admin"}) < MaxBonuses
    /\ \E to \in Wallet, b \in Bonus : awardReferralBonus(w, to, b, "admin")
    /\ UNCHANGED <<codes, referral>>

GetDashboard(w) == getReferralDashboard(w)
GetAdminAll == [s \in {"pending", "active", "bonus_paid"} |-> countAllReferrals(s)]

ReferralsNext ==
    \E w \in Wallet : PostLink(w) \/ PostRegister(w) \/ PostActivate(w) \/ PostBonus(w)

-----------------------------------------------------------------------------
\* Activation pays its referrer once and only it does: a referral is active if
\* and only if exactly one activation bonus was awarded for it, to the wallet
\* whose code it was registered with.  The dashboards add up to the tables.
ActivationPaysOnce ==
    /\ \A w \in Wallet :
          LET paid == {b \in bonuses : b.of = w /\ b.by = "activation"}
          IN  /\ referral[w].status = "active" => Cardinality(paid) = 1
              /\ referral[w].status # "active" => paid = {}
              /\ \A b \in paid : b.to = referral[w].referrer /\ b.to # w
              /\ GetDashboard(w).total = GetDashboard(w).pending + GetDashboard(w).active
              /\ GetDashboard(w).total > 0 => GetDashboard(w).code
    /\ SumFunction([w \in Wallet |-> GetDashboard(w).stroops]) = Stroops(bonuses)
    /\ SumFunction([w \in Wallet |-> GetDashboard(w).active]) = GetAdminAll["active"]

-----------------------------------------------------------------------------
(***************************************************************************)
(* Holds on recorded transactions: backend/src/database/payment-holds.js   *)
(* and routes/payment-holds.js.  The routes' audit actions are refused by  *)
(* addAuditLog, so each answers 500 once its rows are written.             *)
(***************************************************************************)

CONSTANTS
    HeldTx,
    MaxTrail   \* bound on a transaction's hold_audit rows

VARIABLES
    hold,    \* the hold columns of transactions
    trail    \* hold_audit

holdVars == <<hold, trail>>

HoldsInit ==
    /\ hold = [t \in HeldTx |-> [status |-> "none", approved |-> FALSE]]
    /\ trail = [t \in HeldTx |-> <<>>]

Trailed(t, action) ==
    /\ Len(trail[t]) < MaxTrail
    /\ trail' = [trail EXCEPT ![t] = Append(@, action)]

\* Placing a hold again is allowed and leaves the approval columns alone.
placeHold(t) ==
    /\ hold' = [hold EXCEPT ![t].status = "active"]
    /\ Trailed(t, "placed")

releaseHold(t) ==
    /\ hold[t].status = "active"
    /\ hold' = [hold EXCEPT ![t].status = "released"]
    /\ Trailed(t, "released")

approveHoldRelease(t) ==
    /\ hold[t].status = "active"
    /\ hold' = [hold EXCEPT ![t].approved = TRUE]
    /\ Trailed(t, "approved")

getHeldTransactions(status) == {t \in HeldTx : hold[t].status = status}
getAllHeldTransactions(status) == getHeldTransactions(status)
getHoldAuditTrail(t) == trail[t]
getTransactionsPendingHoldRelease == {t \in getHeldTransactions("active") : hold[t].approved}

PostPlace == \E t \in HeldTx : placeHold(t)
PostRelease == \E t \in HeldTx : releaseHold(t)
PostApproveRelease == \E t \in HeldTx : approveHoldRelease(t)

HoldsNext == PostPlace \/ PostRelease \/ PostApproveRelease

-----------------------------------------------------------------------------
\* The trail explains the columns: a transaction is on hold if and only if its
\* last placement was not followed by a release, there are never more releases
\* than placements, and what is listed as pending release is on hold and was
\* approved at some time.
TrailExplainsHold ==
    \A t \in HeldTx :
        LET log == getHoldAuditTrail(t)
            count(a) == Cardinality({i \in DOMAIN log : log[i] = a})
        IN  /\ (t \in getAllHeldTransactions("active")) =
                 \E i \in DOMAIN log : log[i] = "placed" /\ \A j \in i..Len(log) : log[j] # "released"
            /\ count("released") <= count("placed")
            /\ (t \in getTransactionsPendingHoldRelease)
                 = (t \in getHeldTransactions("active") /\ count("approved") > 0)

-----------------------------------------------------------------------------
(***************************************************************************)
(* Off-chain dispute tickets: backend/src/database/disputes.js and         *)
(* routes/disputes.js.  A ticket is its place in the table; what is said   *)
(* in descriptions, notes and comments is left out.  A handler that mails  *)
(* the contributor first awaits the subscriber table's module, then the    *)
(* mail server, so its mail is an entry of "outgoing" until it is sent.    *)
(***************************************************************************)

CONSTANTS
    Contributor,
    Subscribed,   \* the contributors with a row in the digest's subscriber table
    MaxTickets, MaxReviews, MaxComments   \* bounds

ASSUME TicketAssumption == MaxTickets \in Nat

DisputeStatuses == {"open", "under_review", "resolved", "closed"}

VARIABLES
    tickets,     \* disputes
    remarks,     \* dispute_comments: who wrote, on which ticket, in which status
    reviews,     \* admin status changes so far, as <<ticket, status>>
    outgoing,    \* mails being prepared
    mailed       \* mails handed to the server: a refused one is only logged

disputeVars == <<tickets, remarks, reviews, outgoing, mailed>>

DisputesInit ==
    /\ tickets = <<>> /\ remarks = <<>> /\ reviews = <<>>
    /\ outgoing = {} /\ mailed = {}

Letter(i, status, n) == [ticket |-> i, status |-> status, n |-> n]

-----------------------------------------------------------------------------
\* The table.

createDispute(w) == [wallet |-> w, status |-> "open"]

updateDisputeStatus(row, status) == [row EXCEPT !.status = status]

addDisputeComment(i, author) ==
    remarks' = Append(remarks, [ticket |-> i, author |-> author, status |-> tickets[i].status])

\* ORDER BY createdAt DESC, as places in the table.
Page(s, limit, offset) == SubSeq(s, offset + 1, IF offset + limit < Len(s) THEN offset + limit ELSE Len(s))

getDisputesByWallet(w, limit, offset) == 
    Page(NewestFirst({i \in DOMAIN tickets : tickets[i].wallet = w}), limit, offset)
countDisputesByWallet(w) == Cardinality({i \in DOMAIN tickets : tickets[i].wallet = w})
getAllDisputes(status, limit, offset) == 
    Page(NewestFirst({i \in DOMAIN tickets : tickets[i].status = status}), limit, offset)
countAllDisputes(status) == Cardinality({i \in DOMAIN tickets : tickets[i].status = status})
getDisputeComments(i) == RowsIn(remarks, {k \in DOMAIN remarks : remarks[k].ticket = i})

-----------------------------------------------------------------------------
\* The routes.

\* The mail of a new ticket goes to the address given with it, if any.
PostDispute(w, email) ==
    /\ Len(tickets) < MaxTickets
    /\ tickets' = Append(tickets, createDispute(w))
    /\ outgoing' = IF email THEN outgoing \cup {Letter(Len(tickets'), "open", 0)} ELSE outgoing
    /\ UNCHANGED <<remarks, reviews, mailed>>

\* Mutant: only a first review is worth a mail.
PatchStatusQuietly(i, status) ==
    /\ Len(reviews) < MaxReviews
    /\ tickets' = [tickets EXCEPT ![i] = updateDisputeStatus(@, status)]
    /\ reviews' = Append(reviews, <<i, status>>)
    /\ outgoing' = IF tickets[i].status = "open"
                     THEN outgoing \cup {Letter(i, status, Len(reviews'))} ELSE outgoing
    /\ UNCHANGED <<remarks, mailed>>

\* Any status may follow any other: a closed ticket may be opened again.
PatchStatus(i, status) ==
    /\ Len(reviews) < MaxReviews
    /\ tickets' = [tickets EXCEPT ![i] = updateDisputeStatus(@, status)]
    /\ reviews' = Append(reviews, <<i, status>>)
    /\ outgoing' = outgoing \cup {Letter(i, status, Len(reviews'))}
    /\ UNCHANGED <<remarks, mailed>>

\* The mail names the status the ticket had when the comment was made.
PostAdminComment(i) ==
    /\ Len(remarks) < MaxComments
    /\ addDisputeComment(i, "admin")
    /\ outgoing' = outgoing \cup {Letter(i, tickets[i].status, Len(reviews))}
    /\ UNCHANGED <<tickets, reviews, mailed>>

PostComment(i, w) ==
    /\ Len(remarks) < MaxComments
    /\ tickets[i].wallet = w
    /\ tickets[i].status \notin {"closed", "resolved"}
    /\ addDisputeComment(i, "contributor")
    /\ UNCHANGED <<tickets, reviews, outgoing, mailed>>

\* A wallet without a subscription has no address.
resolveContributorEmail(m) == m.n = 0 \/ tickets[m.ticket].wallet \in Subscribed

notifyContributor(m) ==
    /\ outgoing' = outgoing \ {m}
    /\ mailed' = IF resolveContributorEmail(m) THEN mailed \cup {m} ELSE mailed
    /\ UNCHANGED <<tickets, remarks, reviews>>

DisputesNext ==
    \/ \E w \in Contributor, email \in BOOLEAN : PostDispute(w, email)
    \/ \E i \in DOMAIN tickets :
          \/ \E status \in DisputeStatuses : PatchStatus(i, status)
          \/ PostAdminComment(i)
          \/ \E w \in Contributor : PostComment(i, w)
    \/ \E m \in outgoing : notifyContributor(m)

-----------------------------------------------------------------------------
\* When no mail is on its way, the mail server was handed a mail to each
\* subscribed contributor with the status each reviewed ticket has now: no
\* interleaving of reviews and comments leaves the contributor with only older
\* news.  The lists the routes page through hold each ticket once,
\* under its wallet and under its status.
ContributorKnowsStatus ==
    /\ outgoing = {} =>
          \A k \in DOMAIN reviews :
              LET i == reviews[k][1]
              IN  tickets[i].wallet \in Subscribed
                    /\ (\A j \in (k + 1)..Len(reviews) : reviews[j][1] # i) =>
                  \E m \in mailed :
                      m.ticket = i /\ m.n = k /\ m.status = tickets[i].status
    /\ \A i \in DOMAIN tickets :
          LET t == tickets[i]
              mine == getDisputesByWallet(t.wallet, MaxTickets, 0)
              alike == getAllDisputes(t.status, 1, 0) \o getAllDisputes(t.status, MaxTickets, 1)
          IN  /\ i \in ToSet(mine) /\ Len(mine) = countDisputesByWallet(t.wallet)
              /\ i \in ToSet(alike) /\ Len(alike) = countAllDisputes(t.status)
              /\ \A c \in ToSet(getDisputeComments(i)) :
                    c.author = "contributor" => c.status \in {"open", "under_review"}
=============================================================================
