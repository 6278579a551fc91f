----------------------------- MODULE LedgerViews ----------------------------
(***************************************************************************)
(* The views over the transactions and distribution_payouts tables:        *)
(* analytics.js, ranking.js, earnings-history.js, graphql.js, the          *)
(* contributor metrics, and the recorded fees.                             *)
(*                                                                         *)
(* A row's timestamp is CURRENT_TIMESTAMP ("2024-01-31 15:00:00") and its  *)
(* block time Horizon's ISO text ("2024-01-31T15:00:00Z"); both are        *)
(* compared as text with the ISO text of a midnight.  A blank sorts before *)
(* a T, so a window of days holds its last day and not its first when it   *)
(* looks at timestamps, its first and not its last when at block times.    *)
(***************************************************************************)
EXTENDS Integers, Sequences, FiniteSets, FiniteSetsExt, Functions

CONSTANTS
    Deal, Payee,      \* contracts, and the collaborators they pay
    LastViewDay,
    MaxEntries,       \* transactions
    ViewTtl           \* days a computed answer is served again

ASSUME LedgerAssumption == IsFiniteSet(Deal) /\ IsFiniteSet(Payee) /\ LastViewDay \in Nat /\ ViewTtl \in Int

NoDay == -1
ViewDay == 0..LastViewDay

VARIABLES
    viewDay,          \* today
    entries,          \* transactions, with the amounts of their payouts
    changed,          \* the day of the last change of either table
    answers,          \* analytics.js cache: per contract, the answer and its day
    ranks,            \* ranking.js cache: the global ranking and its day
    contributor_metrics,
    transaction_fees

viewVars == <<viewDay, entries, changed, answers, ranks, contributor_metrics, transaction_fees>>

ViewsInit ==
    /\ viewDay = 0
    /\ entries = <<>>
    /\ changed = 0
    /\ answers = [k \in Deal |-> [at |-> NoDay, total |-> 0]]
    /\ ranks = [at |-> NoDay, table |-> {}]
    /\ contributor_metrics = [p \in Payee |-> [at |-> NoDay, rate |-> 0, earned |-> 0]]
    /\ transaction_fees = [i \in 1..MaxEntries |-> {}]

-----------------------------------------------------------------------------
\* Rows and their windows.

Payout == {r \in (DOMAIN entries) \X Payee : entries[r[1]].paid[r[2]] > 0}
Amount(rows) == SumFunctionOnSet([r \in Payout |-> entries[r[1]].paid[r[2]]], rows)
ConfirmedTx == {i \in DOMAIN entries : entries[i].status = "confirmed"}
ConfirmedPayout == {r \in Payout : r[1] \in ConfirmedTx}

Timestamped(i, start, end) == start < entries[i].day /\ entries[i].day <= end
\* COALESCE(blockTime, timestamp)
When(i) == IF entries[i].block = NoDay THEN entries[i].day ELSE entries[i].block
Blocked(i, start, end) ==
    IF entries[i].block = NoDay THEN Timestamped(i, start, end)
    ELSE start <= entries[i].block /\ entries[i].block < end

-----------------------------------------------------------------------------
\* analytics.js

getAnalyticsData(k, start, end) ==
    LET tx == {i \in ConfirmedTx : entries[i].deal = k /\ Timestamped(i, start, end)}
        rows == {r \in Payout : r[1] \in tx}
        royalties == {i \in tx : entries[i].type # "initialize"}
    IN  [totalTransactions |-> Cardinality(royalties),
         totalDistributed |-> Amount({r \in rows : r[1] \in royalties}),
         trends |-> [d \in ViewDay |-> Amount({r \in rows : entries[r[1]].day = d})],
         collaboratorStats |-> [p \in Payee |-> Amount({r \in rows : r[2] = p})]]

\* The per-contract sums of one collaborator.
MultiContract(p, start, end) ==
    [k \in Deal |-> Amount({r \in ConfirmedPayout :
        r[2] = p /\ entries[r[1]].deal = k /\ Timestamped(r[1], start, end)})]

\* Volume counts every status; the breakdown is of the same rows.
Volume(k, start, end) ==
    LET tx == {i \in DOMAIN entries : /\ entries[i].deal = k /\ entries[i].type # "initialize"
                                      /\ Timestamped(i, start, end)}
    IN  [buckets |-> [d \in ViewDay |-> Cardinality({i \in tx : entries[i].day = d})],
         status |-> [s \in {"confirmed", "failed", "pending"} |->
                        Cardinality({i \in tx : entries[i].status = s})]]

\* The window of the cached views: all the days.
AllDays == <<NoDay, LastViewDay>>
Compute(k) == getAnalyticsData(k, AllDays[1], AllDays[2]).totalDistributed

\* Mutant: an answer is kept for ever.
KeptForEver(at) == at # NoDay

IsFresh(at) == at # NoDay /\ viewDay - at < ViewTtl

ServedAnalytics(k) == IF IsFresh(answers[k].at) THEN answers[k].total ELSE Compute(k)

GetAnalytics(k) ==
    /\ ~IsFresh(answers[k].at)
    /\ answers' = [answers EXCEPT ![k] = [at |-> viewDay, total |-> Compute(k)]]
    /\ UNCHANGED <<viewDay, entries, changed, ranks, contributor_metrics, transaction_fees>>

-----------------------------------------------------------------------------
\* ranking.js: RANK leaves a gap after a tie.

Earned(p, of, start, end) ==
    Amount({r \in ConfirmedPayout : /\ r[2] = p /\ entries[r[1]].deal \in of
                                    /\ Timestamped(r[1], start, end)})

buildOrderClause(p, q, of, start, end) == Earned(q, of, start, end) > Earned(p, of, start, end)

Rank(of, start, end) ==
    LET listed == {p \in Payee : Earned(p, of, start, end) > 0}
    IN  {[payee |-> p, earned |-> Earned(p, of, start, end),
          rank |-> 1 + Cardinality({q \in listed : buildOrderClause(p, q, of, start, end)})]
            : p \in listed}

ContractRanking(k, start, end) == Rank({k}, start, end)
GlobalRanking == Rank(Deal, AllDays[1], AllDays[2])

ServedRanking == IF IsFresh(ranks.at) THEN ranks.table ELSE GlobalRanking

GetRanking ==
    /\ ~IsFresh(ranks.at)
    /\ ranks' = [at |-> viewDay, table |-> GlobalRanking]
    /\ UNCHANGED <<viewDay, entries, changed, answers, contributor_metrics, transaction_fees>>

-----------------------------------------------------------------------------
\* One contributor's history, its export and the GraphQL view of both.

getContributorEarningsHistory(p, start, end, of) ==
    [cell \in ViewDay \X Deal |->
        Amount({r \in ConfirmedPayout :
                   /\ r[2] = p /\ entries[r[1]].type # "initialize" /\ Blocked(r[1], start, end)
                   /\ <<When(r[1]), entries[r[1]].deal>> = cell
                   /\ of = {} \/ entries[r[1]].deal \in of})]

getContributorPayoutRecords(p, start, end, of) ==
    {r \in ConfirmedPayout : /\ r[2] = p /\ Blocked(r[1], start, end)
                             /\ of = {} \/ entries[r[1]].deal \in of}

getContributorContracts(p) == {entries[r[1]].deal : r \in {x \in ConfirmedPayout : x[2] = p}}

getContributorEarningsEvents(p) ==
    {[type |-> "contract_added", deal |-> k,
      day |-> Min({When(r[1]) : r \in {x \in ConfirmedPayout : x[2] = p /\ entries[x[1]].deal = k}})]
        : k \in getContributorContracts(p)}
    \cup {[type |-> "distribution_failure", deal |-> entries[r[1]].deal, day |-> When(r[1])]
            : r \in {x \in Payout : /\ x[2] = p /\ entries[x[1]].status = "failed"
                                    /\ entries[x[1]].type = "distribute"}}

\* The CSV export keeps the rows of one royalty type.
EarningsExport(p, start, end, of, royaltyType) ==
    {r \in getContributorPayoutRecords(p, start, end, of) : entries[r[1]].type = royaltyType}

EarningsHistory(p, start, end, of) ==
    [snapshots |-> getContributorEarningsHistory(p, start, end, of),
     events |-> getContributorEarningsEvents(p),
     contracts |-> getContributorContracts(p)]

\* The resolver reads c.contractId of a contract that is its own id: the field
\* is missing, and a required field that is missing fails the whole answer.
resolvers(p) == IF getContributorContracts(p) = {} THEN {} ELSE {"error"}

-----------------------------------------------------------------------------
\* Contributor metrics: the sum of earnings is of every status.

fetchRawStats(p) ==
    LET rows == {r \in Payout : r[2] = p /\ entries[r[1]].type = "distribute"}
    IN  [attempts |-> Cardinality({r[1] : r \in rows}),
         confirmed |-> Cardinality({r[1] : r \in rows} \cap ConfirmedTx),
         earned |-> Amount(rows),
         active |-> Cardinality({When(r[1]) : r \in {x \in ConfirmedPayout : x[2] = p}})]

\* A month of the year is a day of the model, and LastViewDay + 1 make a year.
computeReliabilityScore(rate, active) ==
    LET raw == (70 * rate + 30 * ((active * 100) \div (LastViewDay + 1))) \div 100
    IN  IF raw > 100 THEN 100 ELSE raw

SuccessRate(s) == IF s.attempts = 0 THEN 0 ELSE (s.confirmed * 100) \div s.attempts

Recomputed(p) ==
    LET s == fetchRawStats(p)
    IN  [at |-> viewDay, rate |-> SuccessRate(s), earned |-> s.earned]

recomputeMetrics(p) == contributor_metrics' = [contributor_metrics EXCEPT ![p] = Recomputed(p)]
getCachedMetrics(p) == contributor_metrics[p]

\* A zero maximal age never finds a row young enough.
getOrComputeMetrics(p) ==
    IF IsFresh(getCachedMetrics(p).at) THEN UNCHANGED contributor_metrics ELSE recomputeMetrics(p)

ServedMetrics(p) == IF IsFresh(getCachedMetrics(p).at) THEN getCachedMetrics(p) ELSE Recomputed(p)

recomputeContractMetrics(k) ==
    LET wallets == {p \in Payee : \E i \in DOMAIN entries :
                       /\ <<i, p>> \in Payout /\ entries[i].deal = k
                       /\ entries[i].type = "distribute"}
    IN  contributor_metrics' = [p \in Payee |->
            IF p \in wallets THEN Recomputed(p) ELSE contributor_metrics[p]]

getContractLeaderboard(k) ==
    {p \in Payee : /\ contributor_metrics[p].at # NoDay
                   /\ \E i \in DOMAIN entries : <<i, p>> \in Payout /\ entries[i].deal = k}

GetMetrics(p) ==
    /\ getOrComputeMetrics(p)
    /\ UNCHANGED <<viewDay, entries, changed, answers, ranks, transaction_fees>>

\* Both audit actions are refused, after the rows are written.
PostRefresh(p) ==
    /\ recomputeMetrics(p)
    /\ UNCHANGED <<viewDay, entries, changed, answers, ranks, transaction_fees>>

PostRecompute(k) ==
    /\ recomputeContractMetrics(k)
    /\ UNCHANGED <<viewDay, entries, changed, answers, ranks, transaction_fees>>

-----------------------------------------------------------------------------
\* The figures of a report: the first counts rows of the join, one for every
\* payout and one for a transaction that has none.
gatherReportData(start, end) ==
    LET tx == {i \in DOMAIN entries : /\ entries[i].type = "distribute"
                                      /\ start <= When(i) /\ When(i) <= end}
        rows == {r \in ConfirmedPayout : r[1] \in tx}
        Joined(i) == LET n == Cardinality({p \in Payee : <<i, p>> \in Payout})
                     IN  IF n = 0 THEN 1 ELSE n
    IN  [totalTransactions |-> MapThenSumSet(Joined, tx),
         totalDistributed |-> Amount(rows),
         contractBreakdown |-> [k \in Deal |-> Amount({r \in rows : entries[r[1]].deal = k})],
         topEarners |-> [p \in Payee |-> Amount({r \in rows : r[2] = p})],
         monthlyTrend |-> [d \in ViewDay |-> Amount({r \in rows : When(r[1]) = d})]]

-----------------------------------------------------------------------------
\* Fees: a second record of a transaction keeps the first one's contract.

recordTransactionFee(i, k, fee) ==
    transaction_fees' = [transaction_fees EXCEPT ![i] =
        IF @ = {} THEN {<<k, fee>>} ELSE {<<f[1], fee>> : f \in @}]
getTransactionFee(i) == transaction_fees[i]
getFeesByContract(k) == {i \in 1..MaxEntries : \E f \in getTransactionFee(i) : f[1] = k}

PostFee ==
    /\ \E i \in 1..MaxEntries, k \in Deal : recordTransactionFee(i, k, 1)
    /\ UNCHANGED <<viewDay, entries, changed, answers, ranks, contributor_metrics>>

-----------------------------------------------------------------------------
\* The tables the views read.

recordTransaction(k, type) ==
    /\ Len(entries) < MaxEntries
    /\ entries' = Append(entries, [deal |-> k, type |-> type, status |-> "pending", day |-> viewDay,
                                   block |-> NoDay, paid |-> [p \in Payee |-> 0]])

addDistributionPayout(i, p, amount) == entries' = [entries EXCEPT ![i].paid[p] = amount]

\* The function checks nothing and nothing in src/ calls it: that a caller records
\* each collaborator once, and of a distribution only, is assumed of it.
PayoutIsDue(i, p) == entries[i].type = "distribute" /\ entries[i].paid[p] = 0

updateTransactionStatus(i, status) ==
    /\ entries[i].status = "pending"
    /\ entries' = [entries EXCEPT ![i].status = status,
                                  ![i].block = IF status = "confirmed" THEN viewDay ELSE NoDay]

ChangeTables ==
    /\ \/ \E k \in Deal, type \in {"initialize", "distribute"} : recordTransaction(k, type)
       \/ \E i \in DOMAIN entries, p \in Payee, amount \in 1..2 :
              PayoutIsDue(i, p) /\ addDistributionPayout(i, p, amount)
       \/ \E i \in DOMAIN entries, status \in {"confirmed", "failed"} :
              updateTransactionStatus(i, status)
    /\ changed' = viewDay
    /\ UNCHANGED <<viewDay, answers, ranks, contributor_metrics, transaction_fees>>

NextViewDay ==
    /\ viewDay < LastViewDay
    /\ viewDay' = viewDay + 1
    /\ UNCHANGED <<entries, changed, answers, ranks, contributor_metrics, transaction_fees>>

ViewsNext ==
    \/ ChangeTables \/ NextViewDay \/ GetRanking
    \/ \E k \in Deal : GetAnalytics(k) \/ PostRecompute(k)
    \/ \E p \in Payee : GetMetrics(p) \/ PostRefresh(p)

FeesNext == PostFee

-----------------------------------------------------------------------------
SumOf(f) == SumFunction(f)
Window == {<<NoDay, LastViewDay>>, <<NoDay, 0>>, <<0, LastViewDay>>}

\* A contract's total is the sum of its days and of its collaborators, the volume
\* of its days that of its statuses, and its ranking quotes the collaborators' sums.
ContractViewsAgree(k, start, end) ==
    LET a == getAnalyticsData(k, start, end)
        v == Volume(k, start, end)
    IN  /\ SumOf(a.trends) = a.totalDistributed
        /\ SumOf(a.collaboratorStats) = a.totalDistributed
        /\ SumOf(v.buckets) = SumOf(v.status)
        /\ \A row \in ContractRanking(k, start, end) : row.earned = a.collaboratorStats[row.payee]

\* Two windows that meet count every row once.
WindowsMeet(k) ==
    Compute(k) = getAnalyticsData(k, NoDay, 0).totalDistributed
                   + getAnalyticsData(k, 0, LastViewDay).totalDistributed

\* What a collaborator's contracts say of it adds up to its global rank's figure.
EarningsAddUp(p) ==
    SumOf(MultiContract(p, AllDays[1], AllDays[2])) = Earned(p, Deal, AllDays[1], AllDays[2])

\* The snapshots of a history add up to the export of the distributions, and there
\* is nothing else to export.
HistoryIsTheExport(p, start, end, of) ==
    /\ SumOf(EarningsHistory(p, start, end, of).snapshots)
         = Amount(EarningsExport(p, start, end, of, "distribute"))
    /\ EarningsExport(p, start, end, of, "initialize") = {}

\* The events announce every contract of a collaborator; the GraphQL answer fails
\* for exactly those that earned; a reliability score is a percentage.
ProfileIsConsistent(p) ==
    /\ \A k \in getContributorContracts(p) :
          \E e \in getContributorEarningsEvents(p) : e.type = "contract_added" /\ e.deal = k
    /\ (resolvers(p) = {}) = (Earned(p, Deal, AllDays[1], AllDays[2]) = 0)
    /\ LET s == fetchRawStats(p)
       IN  computeReliabilityScore(SuccessRate(s), s.active) \in 0..100

\* The parts of a compliance report add up to its total.
ReportAddsUp ==
    LET f == gatherReportData(0, LastViewDay)
    IN  /\ SumOf(f.contractBreakdown) = f.totalDistributed
        /\ SumOf(f.topEarners) = f.totalDistributed
        /\ SumOf(f.monthlyTrend) = f.totalDistributed

\* A better rank is a larger sum.
RanksFollowEarnings == \A a, b \in GlobalRanking : (a.rank < b.rank) = (a.earned > b.earned)

\* The fee of a transaction is on the books of one contract.
FeeHasOneContract ==
    \A k \in Deal : \A i \in getFeesByContract(k) :
        \A j \in Deal \ {k} : i \notin getFeesByContract(j)

\* Different views of the same money agree.
ViewsAgree ==
    /\ \A k \in Deal : WindowsMeet(k) /\ \A w \in Window : ContractViewsAgree(k, w[1], w[2])
    /\ \A p \in Payee :
          /\ EarningsAddUp(p) /\ ProfileIsConsistent(p)
          /\ \A of \in SUBSET Deal : \A w \in Window : HistoryIsTheExport(p, w[1], w[2], of)
    /\ ReportAddsUp /\ RanksFollowEarnings

\* An answer is out of date only for a while: once the tables have been still
\* for ViewTtl days, every cached view is what a fresh query would say.
StaleOnlyForAWhile ==
    viewDay - changed >= ViewTtl =>
        /\ \A k \in Deal : ServedAnalytics(k) = Compute(k)
        /\ ServedRanking = GlobalRanking
        /\ \A p \in Payee : ServedMetrics(p).earned = Recomputed(p).earned
        /\ \A k \in Deal : \A p \in getContractLeaderboard(k) : ServedMetrics(p).rate <= 100
=============================================================================
