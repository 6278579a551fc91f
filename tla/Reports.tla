------------------------------- MODULE Reports ------------------------------
(***************************************************************************)
(* What is kept of the ledger: contract snapshots (contract-snapshots.js,  *)
(* snapshot-job.js) and compliance reports (compliance-report-job.js,      *)
(* compliance-report-generator.js), with their routes.                     *)
(*                                                                         *)
(* The report clock counts months; passes run on the first day of one.     *)
(***************************************************************************)
EXTENDS LedgerViews, Tables

CONSTANTS
    KeepShots,        \* SNAPSHOT_RETENTION_COUNT
    MaxShots,
    Generator,        \* passes and requests that generate reports
    Recipient,        \* COMPLIANCE_REPORT_RECIPIENTS
    FirstMonth, LastMonth,
    MaxReports

ASSUME ReportAssumption == FirstMonth \in Nat

VARIABLES
    shots,            \* contract_snapshots, every row ever written
    kept,             \* the ids of the rows that are still there
    job,              \* executeSnapshotRun: contracts left, and the one to prune
    month,
    compliance_reports,
    generator,        \* per generator: its report and the recipients left
    sent              \* reports mailed: report, recipient

reportVars == <<shots, kept, job, month, compliance_reports, generator, sent>>

NoJob == [left |-> {}, pruning |-> {}]
NoReport == [id |-> 0, left |-> {}]

ReportsInit ==
    /\ shots = <<>>
    /\ kept = {}
    /\ job = NoJob
    /\ month = FirstMonth
    /\ compliance_reports = <<>>
    /\ generator = [g \in Generator |-> NoReport]
    /\ sent = {}

-----------------------------------------------------------------------------
\* Snapshots.

\* The digest of the four fields that describe the contract.
computeStateHash(state) == <<state.collaborators, state.balances, state.count>>

\* Shares and balances are one sum: whatever was ever paid, of any status.
computeContractState(k) ==
    LET rows == {r \in Payout : entries[r[1]].deal = k}
    IN  [collaborators |-> {r[2] : r \in rows},
         balances |-> [p \in {r[2] : r \in rows} |-> Amount({r \in rows : r[2] = p})],
         count |-> Cardinality({i \in DOMAIN entries : entries[i].deal = k})]

getActiveContractIds == {entries[i].deal : i \in DOMAIN entries}

createSnapshot(k, state) ==
    /\ Len(shots) < MaxShots
    /\ shots' = Append(shots, [deal |-> k, at |-> viewDay, state |-> state,
                               hash |-> computeStateHash(state)])
    /\ kept' = kept \cup {Len(shots) + 1}

ShotsOf(k) == {i \in kept : shots[i].deal = k}
countSnapshots(k) == Cardinality(ShotsOf(k))

\* The first n rows of the newest-first order; rows of one moment in any order.
listSnapshots(k, n) ==
    {top \in SUBSET ShotsOf(k) :
        /\ Cardinality(top) = IF n < countSnapshots(k) THEN n ELSE countSnapshots(k)
        /\ \A i \in top, j \in ShotsOf(k) \ top : shots[i].at >= shots[j].at}

getAllSnapshots == kept
getSnapshot(i) == IF i \in kept THEN {shots[i]} ELSE {}
verifySnapshotIntegrity(i) ==
    \E s \in getSnapshot(i) : s.hash = computeStateHash(s.state)

pruneSnapshots(k, keepCount) ==
    \E top \in listSnapshots(k, keepCount) :
        kept' = IF top = {} THEN kept ELSE kept \ (ShotsOf(k) \ top)

Paper == <<month, compliance_reports, generator, sent>>

startSnapshotScheduler ==
    /\ job = NoJob
    /\ getActiveContractIds # {}
    /\ job' = [left |-> getActiveContractIds, pruning |-> {}]
    /\ UNCHANGED <<shots, kept, Paper, viewVars>>

\* One contract up to the await before its pruning.
executeSnapshotRun(k) ==
    /\ job.pruning = {} /\ k \in job.left
    /\ createSnapshot(k, computeContractState(k))
    /\ job' = [left |-> job.left \ {k}, pruning |-> {k}]
    /\ UNCHANGED <<Paper, viewVars>>

\* A database error skips the rest of the contract.
SnapshotFails(k) ==
    /\ job.pruning = {} /\ k \in job.left
    /\ job' = [job EXCEPT !.left = @ \ {k}]
    /\ UNCHANGED <<shots, kept, Paper, viewVars>>

PruneAfterRun(k) ==
    /\ job.pruning = {k}
    /\ pruneSnapshots(k, KeepShots)
    /\ job' = [job EXCEPT !.pruning = {}]
    /\ UNCHANGED <<shots, Paper, viewVars>>

\* The caller's own words, and the day's default: no collaborators, no sums.
PostSnapshot(k) ==
    /\ createSnapshot(k, [collaborators |-> {}, balances |-> <<>>, count |-> 0])
    /\ UNCHANGED <<job, Paper, viewVars>>

DeletePrune(k) ==
    /\ \E keep \in 1..2 : pruneSnapshots(k, keep)
    /\ UNCHANGED <<shots, job, Paper, viewVars>>

NewTransaction(k) ==
    /\ recordTransaction(k, "distribute")
    /\ changed' = viewDay
    /\ UNCHANGED <<viewDay, answers, ranks, contributor_metrics, transaction_fees, reportVars>>

SnapshotsNext ==
    \/ startSnapshotScheduler
    \/ \E k \in Deal : \/ executeSnapshotRun(k) \/ SnapshotFails(k) \/ PruneAfterRun(k)
                       \/ PostSnapshot(k) \/ DeletePrune(k) \/ NewTransaction(k)
    \/ NextViewDay /\ UNCHANGED reportVars

-----------------------------------------------------------------------------
\* Compliance reports: periods are months, first and last.

previousMonthPeriod(now) == <<now - 1, now - 1>>
previousQuarterPeriod(now) == LET q == (now \div 3) * 3 - 3 IN <<q, q + 2>>
previousYearPeriod(now) == LET y == (now \div 12) * 12 - 12 IN <<y, y + 11>>

getReportTypesDue(now) ==
    {"monthly"} \cup (IF now % 3 = 0 THEN {"quarterly"} ELSE {})
                \cup (IF now % 12 = 0 THEN {"annual"} ELSE {})

Period(type, now) ==
    CASE type = "monthly" -> previousMonthPeriod(now)
      [] type = "quarterly" -> previousQuarterPeriod(now)
      [] type = "annual" -> previousYearPeriod(now)

ReportRow == DOMAIN compliance_reports

reportExistsForPeriod(type, period) ==
    \E i \in ReportRow : /\ compliance_reports[i].type = type
                         /\ compliance_reports[i].period = period
                         /\ compliance_reports[i].status \in {"completed", "generating"}

createComplianceReport(type, period) ==
    [type |-> type, period |-> period, status |-> "generating", file |-> FALSE, emailedTo |-> {}]
getComplianceReport(i) == compliance_reports[i]
listComplianceReports(type) == {i \in ReportRow : compliance_reports[i].type = type}
countComplianceReports(type) == Cardinality(listComplianceReports(type))
markReportCompleted(row, emailedTo) ==
    [row EXCEPT !.status = "completed", !.file = TRUE, !.emailedTo = emailedTo]
markReportFailed(row) == [row EXCEPT !.status = "failed"]
\* The file stays with a row that was completed before it failed.
DownloadableReport(i) == getComplianceReport(i).file

\* The test for an earlier report, the new row and its status are one step: no
\* await stands between them.  The first mail is awaited after it.
generateComplianceReport(g, type, period) ==
    /\ generator[g] = NoReport
    /\ ~reportExistsForPeriod(type, period)
    /\ Len(compliance_reports) < MaxReports
    /\ compliance_reports' = Append(compliance_reports, createComplianceReport(type, period))
    /\ generator' = [generator EXCEPT ![g] = [id |-> Len(compliance_reports) + 1, left |-> Recipient]]
    /\ UNCHANGED <<shots, kept, job, month, sent, viewVars>>

runComplianceReportScheduler(g) ==
    \E type \in getReportTypesDue(month) : generateComplianceReport(g, type, Period(type, month))

\* A request for a period the scheduler also reports on.
PostGenerate(g) ==
    \E type \in {"monthly", "quarterly"} : generateComplianceReport(g, type, Period(type, month))

MailReport(g, r) ==
    /\ generator[g] # NoReport /\ r \in generator[g].left
    /\ generator' = [generator EXCEPT ![g].left = @ \ {r}]
    /\ \E taken \in BOOLEAN :
          sent' = IF taken THEN sent \cup {<<generator[g].id, r>>} ELSE sent
    /\ UNCHANGED <<shots, kept, job, month, compliance_reports, viewVars>>

\* The row is completed, the audit entry refused, and the row failed after all.
FinishReport(g) ==
    LET i == generator[g].id
        done == markReportCompleted(compliance_reports[i], {s[2] : s \in {x \in sent : x[1] = i}})
    IN  /\ generator[g] # NoReport /\ generator[g].left = {}
        /\ compliance_reports' = [compliance_reports EXCEPT ![i] =
              IF Audited("compliance_report_generated") THEN done ELSE markReportFailed(done)]
        /\ generator' = [generator EXCEPT ![g] = NoReport]
        /\ UNCHANGED <<shots, kept, job, month, sent, viewVars>>

\* Gathering or saving the file throws.
ReportFails(g) ==
    /\ generator[g] # NoReport /\ generator[g].left = Recipient
    /\ compliance_reports' =
          [compliance_reports EXCEPT ![generator[g].id] = markReportFailed(@)]
    /\ generator' = [generator EXCEPT ![g] = NoReport]
    /\ UNCHANGED <<shots, kept, job, month, sent, viewVars>>

NextMonth ==
    /\ month < LastMonth
    /\ month' = month + 1
    /\ UNCHANGED <<shots, kept, job, compliance_reports, generator, sent, viewVars>>

ComplianceNext ==
    \/ NextMonth
    \/ \E g \in Generator :
          \/ runComplianceReportScheduler(g) \/ PostGenerate(g) \/ FinishReport(g) \/ ReportFails(g)
          \/ \E r \in Recipient : MailReport(g, r)

-----------------------------------------------------------------------------
\* However manual snapshots, runs and prunings with different counts interleave,
\* what is left of a contract's snapshots is its latest history without a hole:
\* no row is gone while an older one of its contract is kept, the newest is
\* always there, and every kept row still matches its digest.
HistoryHasNoHole ==
    /\ \A i \in getAllSnapshots : \A j \in DOMAIN shots :
          shots[j].deal = shots[i].deal /\ shots[j].at > shots[i].at => j \in getAllSnapshots
    /\ \A k \in Deal :
          (\E j \in DOMAIN shots : shots[j].deal = k) => countSnapshots(k) > 0
    /\ \A i \in getAllSnapshots : verifySnapshotIntegrity(i)

\* Passes and requests overlap, and two are never at work on one period; the
\* periods of one kind of report are the same or have no month in common; a
\* report that was mailed can be downloaded.
ReportsDoNotOverlap ==
    /\ \A g, h \in Generator :
          g # h /\ generator[g] # NoReport /\ generator[h] # NoReport =>
              \/ getComplianceReport(generator[g].id).type # getComplianceReport(generator[h].id).type
              \/ getComplianceReport(generator[g].id).period
                   # getComplianceReport(generator[h].id).period
    /\ \A type \in {"monthly", "quarterly", "annual"} :
          \A i, j \in listComplianceReports(type) :
              LET a == getComplianceReport(i).period
                  b == getComplianceReport(j).period
              IN  a = b \/ a[2] < b[1] \/ b[2] < a[1]
    /\ SumOf([type \in {"monthly", "quarterly", "annual"} |-> countComplianceReports(type)])
         = Len(compliance_reports)
    /\ \A s \in sent : (\A g \in Generator : generator[g].id # s[1]) => DownloadableReport(s[1])
=============================================================================
