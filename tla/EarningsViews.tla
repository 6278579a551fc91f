---------------------------- MODULE EarningsViews ----------------------------
(***************************************************************************)
(* Two pages about earnings.                                               *)
(*                                                                         *)
(* EarningsDashboard.tsx shows the figures of the contract selected, from  *)
(* five requests made together of which any may fail, loads them again     *)
(* when a distribution is announced, and exports what it shows.  Nothing   *)
(* cancels a load: a late one replaces the figures.                        *)
(*                                                                         *)
(* EarningsHistoryChart.tsx charts a wallet's daily earnings and keeps     *)
(* every day it was ever told in IndexedDB (earnings-snapshots-db.ts), to  *)
(* show them when the backend cannot be reached.  A load reads what is     *)
(* kept, merges what was answered and writes the result, with an await     *)
(* between each, so loads overlap.                                         *)
(***************************************************************************)
EXTENDS Integers, FiniteSets, FiniteSetsExt, Functions

CONSTANTS
    Source,           \* contracts that earn
    Earner,           \* wallets that look
    Today,            \* the last day there is; the first is 1
    WindowDays,       \* days of the short range
    Paid(_, _, _),    \* what a wallet earned from a contract on a day
    MaxVisits         \* bound on what the user does and what is announced

\* The short range may reach back before the first day.
ASSUME EarningsAssumption ==
    /\ IsFiniteSet(Source) /\ Earner # {} /\ Today \in Nat /\ WindowDays \in Nat
    /\ \A w \in Earner, c \in Source, d \in (1 - WindowDays)..Today : Paid(w, c, d) \in Nat

VARIABLES
    dProp, dSelected,                \* the contract of the application, that of the selector
    dLoads, dLoading, dError,
    figures,                         \* per figure: the contract it is of, or Zero
    announced, dashFiles,            \* events on their way; the last file exported
    chartWallet, chartRange,
    chartLoads,                      \* [wallet, range, step, rows]
    chartLoading, chartError, chartOffline,
    snapshots,                       \* what is charted: (day, contract) to amount
    chartContracts,                  \* what the last load said the wallet earns from
    enabledContracts,
    cached,                          \* per wallet: (day, contract) to amount
    visits

dashVars == <<dProp, dSelected, dLoads, dLoading, dError, figures, announced, dashFiles>>
chartVars == <<chartWallet, chartRange, chartLoads, chartLoading, chartError, chartOffline, snapshots,
               chartContracts, enabledContracts, cached>>
earningsVars == <<dashVars, chartVars, visits>>

Visit == visits < MaxVisits /\ visits' = visits + 1

-----------------------------------------------------------------------------
\* EarningsDashboard.

ALL_CONTRACTS == "__all__"
Zero == "zero"
Request == {"analytics", "collaborators", "stats", "history", "sales"}
Figure == {"total", "secondary", "collaborators", "payouts"}

selectableContracts == Source
showComparison == dSelected = ALL_CONTRACTS
DashboardIsShown == ~showComparison /\ ~dLoading /\ ~dError

loadDashboardData(contract) ==
    /\ dLoads' = dLoads \cup {contract}
    /\ dLoading' = TRUE /\ dError' = FALSE

Select(choice) ==
    /\ dSelected' = choice
    /\ IF choice = ALL_CONTRACTS THEN dLoading' = FALSE /\ UNCHANGED <<dLoads, dError>>
       ELSE IF choice = dSelected THEN UNCHANGED <<dLoads, dLoading, dError>>
       ELSE loadDashboardData(choice)

\* The contract chosen elsewhere is followed, unless all are compared.
FollowContract(c) ==
    /\ c # dProp /\ Visit
    /\ dProp' = c
    /\ IF showComparison THEN UNCHANGED <<dSelected, dLoads, dLoading, dError>> ELSE Select(c)
    /\ UNCHANGED <<figures, announced, dashFiles, chartVars>>

setSelectedContract(choice) ==
    /\ choice \in selectableContracts \cup {ALL_CONTRACTS} /\ choice # dSelected /\ Visit
    /\ Select(choice)
    /\ UNCHANGED <<dProp, figures, announced, dashFiles, chartVars>>

\* Where the figures of a load come from: what failed counts as nothing.
Figures(contract, fulfilled) ==
    [f \in Figure |->
        CASE f = "total" -> IF "analytics" \in fulfilled THEN contract ELSE Zero
          [] f = "secondary" -> IF {"analytics", "stats"} \cap fulfilled # {} THEN contract ELSE Zero
          [] f = "collaborators" -> IF {"collaborators", "analytics"} \cap fulfilled # {} THEN contract ELSE Zero
          [] f = "payouts" -> IF {"history", "sales"} \cap fulfilled # {} THEN contract ELSE Zero]

DashboardAnswers(contract, fulfilled) ==
    /\ contract \in dLoads
    /\ dLoads' = dLoads \ {contract}
    /\ dLoading' = FALSE
    /\ IF {"analytics", "collaborators"} \cap fulfilled = {}
         THEN dError' = TRUE /\ UNCHANGED figures
         ELSE figures' = Figures(contract, fulfilled) /\ UNCHANGED dError
    /\ UNCHANGED <<dProp, dSelected, announced, dashFiles, chartVars, visits>>

retryDashboard ==
    /\ dError /\ ~dLoading /\ ~showComparison /\ Visit
    /\ loadDashboardData(dSelected)
    /\ UNCHANGED <<dProp, dSelected, figures, announced, dashFiles, chartVars>>

DistributionAnnounced(c) ==
    /\ c \notin announced /\ Visit
    /\ announced' = announced \cup {c}
    /\ UNCHANGED <<dProp, dSelected, dLoads, dLoading, dError, figures, dashFiles, chartVars>>

handleDistributionEvent(c) ==
    /\ c \in announced
    /\ announced' = announced \ {c}
    /\ IF c = dSelected THEN loadDashboardData(c) ELSE UNCHANGED <<dLoads, dLoading, dError>>
    /\ UNCHANGED <<dProp, dSelected, figures, dashFiles, chartVars, visits>>

\* The file is named after the contract selected and holds the figures shown.
handleExportJSON ==
    /\ DashboardIsShown /\ dSelected \in Source
    /\ dashFiles' = {[name |-> dSelected, holds |-> figures]}
    /\ UNCHANGED <<dProp, dSelected, dLoads, dLoading, dError, figures, announced, chartVars, visits>>

-----------------------------------------------------------------------------
\* earnings-history.ts.

Day == 1..Today
getRangeDates(range) == IF range = "all" THEN 1..Today ELSE (Today - WindowDays + 1)..Today
fillMissingDays(rows, days, contracts) ==
    [k \in days \X contracts |-> IF k \in DOMAIN rows THEN rows[k] ELSE 0]
buildChartSeries(filled, enabled) ==
    [d \in {k[1] : k \in {j \in DOMAIN filled : j[2] \in enabled}} |->
        SumFunctionOnSet(filled, {j \in DOMAIN filled : j[1] = d /\ j[2] \in enabled})]
Total(filled, days) == SumFunctionOnSet(filled, {j \in DOMAIN filled : j[1] \in days})

\* The period and the one of the same length before it.
calculatePeriodSummary(filled, range) ==
    LET days == getRangeDates(range)
        before == (Min(days) - Cardinality(days))..(Min(days) - 1)
    IN  [total |-> Total(filled, days), previousTotal |-> Total(filled, before)]

-----------------------------------------------------------------------------
\* earnings-snapshots-db.ts and EarningsHistoryChart.

NoRows == [k \in {} |-> 0]
Overlay(old, new) == [k \in DOMAIN old \cup DOMAIN new |-> IF k \in DOMAIN new THEN new[k] ELSE old[k]]
EarningsOf(wallet, range) ==
    [k \in {j \in getRangeDates(range) \X Source : Paid(wallet, j[2], j[1]) > 0} |-> Paid(wallet, k[2], k[1])]

\* Every contract the wallet was ever paid from, with or without rows in the range.
contractsOf(wallet) == {c \in Source : \E d \in (1 - WindowDays)..Today : Paid(wallet, c, d) > 0}
ContractsIn(rows) == {k[2] : k \in DOMAIN rows}

chartedContracts == IF chartContracts # {} THEN chartContracts ELSE ContractsIn(snapshots)
filledSnapshots == fillMissingDays(snapshots, getRangeDates(chartRange), chartedContracts)
chartSeries == buildChartSeries(filledSnapshots, enabledContracts)
summary == calculatePeriodSummary(filledSnapshots, chartRange)

readCachedSnapshots(wallet) == cached[wallet]

\* Mutant: the rows are written for the wallet shown by now.
WritesForShownWallet(wallet, rows) == cached' = [cached EXCEPT ![chartWallet] = Overlay(@, rows)]

\* Every row of the merge is put under its key; other keys stay.
writeSnapshots(wallet, rows) == cached' = [cached EXCEPT ![wallet] = Overlay(@, rows)]

loadHistory(wallet, range) ==
    /\ chartLoads' = chartLoads \cup {[wallet |-> wallet, range |-> range, step |-> "asked", rows |-> NoRows]}
    /\ chartLoading' = TRUE /\ chartError' = FALSE /\ chartOffline' = FALSE

ShowEarner(w) ==
    /\ w # chartWallet /\ Visit
    /\ chartWallet' = w
    /\ loadHistory(w, chartRange)
    /\ UNCHANGED <<chartRange, snapshots, chartContracts, enabledContracts, cached, dashVars>>

setRange(range) ==
    /\ range # chartRange /\ Visit
    /\ chartRange' = range
    /\ loadHistory(chartWallet, range)
    /\ UNCHANGED <<chartWallet, snapshots, chartContracts, enabledContracts, cached, dashVars>>

Step(load, step, rows) ==
    chartLoads' = (chartLoads \ {load}) \cup
                      {[wallet |-> load.wallet, range |-> load.range, step |-> step, rows |-> rows]}
LoadEnds(load) == chartLoads' = chartLoads \ {load} /\ chartLoading' = FALSE

ChartAnswers(load) ==
    /\ load \in chartLoads /\ load.step = "asked"
    /\ Step(load, "answered", EarningsOf(load.wallet, load.range))
    /\ UNCHANGED <<chartWallet, chartRange, chartLoading, chartError, chartOffline, snapshots, chartContracts,
                   enabledContracts, cached, dashVars, visits>>

\* A refusal ends the load; a request that fails turns to what is kept.
ChartRefused(load) ==
    /\ load \in chartLoads /\ load.step = "asked"
    /\ LoadEnds(load)
    /\ chartError' = TRUE
    /\ UNCHANGED <<chartWallet, chartRange, chartOffline, snapshots, chartContracts,
                   enabledContracts, cached, dashVars, visits>>

ChartUnreachable(load) ==
    LET rows == readCachedSnapshots(load.wallet)
    IN  /\ load \in chartLoads /\ load.step = "asked"
        /\ LoadEnds(load)
        /\ IF DOMAIN rows # {}
             THEN /\ snapshots' = rows /\ chartOffline' = TRUE
                  /\ chartContracts' = ContractsIn(rows) /\ enabledContracts' = ContractsIn(rows)
                  /\ UNCHANGED chartError
             ELSE chartError' = TRUE /\ UNCHANGED <<snapshots, chartOffline, chartContracts, enabledContracts>>
        /\ UNCHANGED <<chartWallet, chartRange, cached, dashVars, visits>>

mergeSnapshots(load) ==
    /\ load \in chartLoads /\ load.step = "answered"
    /\ Step(load, "merged", Overlay(readCachedSnapshots(load.wallet), load.rows))
    /\ UNCHANGED <<chartWallet, chartRange, chartLoading, chartError, chartOffline, snapshots, chartContracts,
                   enabledContracts, cached, dashVars, visits>>

ChartWritten(load) ==
    /\ load \in chartLoads /\ load.step = "merged"
    /\ writeSnapshots(load.wallet, load.rows)
    /\ LoadEnds(load)
    /\ snapshots' = load.rows
    /\ chartContracts' = contractsOf(load.wallet) /\ enabledContracts' = contractsOf(load.wallet)
    /\ UNCHANGED <<chartWallet, chartRange, chartError, chartOffline, dashVars, visits>>

toggleContract(c) ==
    /\ ~chartLoading /\ ~chartError /\ c \in chartedContracts /\ Visit
    /\ enabledContracts' = IF c \in enabledContracts THEN enabledContracts \ {c} ELSE enabledContracts \cup {c}
    /\ UNCHANGED <<chartWallet, chartRange, chartLoads, chartLoading, chartError, chartOffline, snapshots, chartContracts,
                   cached, dashVars>>

-----------------------------------------------------------------------------
EarningsInit ==
    /\ dProp = CHOOSE c \in Source : TRUE
    /\ dSelected = dProp /\ dLoads = {dProp} /\ dLoading = TRUE /\ dError = FALSE
    /\ figures = [f \in Figure |-> Zero] /\ announced = {} /\ dashFiles = {}
    /\ chartWallet = CHOOSE w \in Earner : TRUE
    /\ chartRange = "30d"
    /\ chartLoads = {[wallet |-> chartWallet, range |-> "30d", step |-> "asked", rows |-> NoRows]}
    /\ chartLoading = TRUE /\ chartError = FALSE /\ chartOffline = FALSE
    /\ snapshots = NoRows /\ chartContracts = {} /\ enabledContracts = {}
    /\ cached = [w \in Earner |-> NoRows]
    /\ visits = 0

DashboardNext ==
    \/ \E c \in Source : FollowContract(c) \/ DistributionAnnounced(c) \/ handleDistributionEvent(c)
    \/ \E choice \in Source \cup {ALL_CONTRACTS} : setSelectedContract(choice)
    \/ \E c \in Source, fulfilled \in SUBSET Request : DashboardAnswers(c, fulfilled)
    \/ retryDashboard \/ handleExportJSON

ChartNext ==
    \/ \E w \in Earner : ShowEarner(w)
    \/ \E range \in {"30d", "all"} : setRange(range)
    \/ \E load \in chartLoads : \/ ChartAnswers(load) \/ ChartRefused(load) \/ ChartUnreachable(load)
                                \/ mergeSnapshots(load) \/ ChartWritten(load)
    \/ \E c \in Source : toggleContract(c)

-----------------------------------------------------------------------------
\* The figures shown, and those of a file, are of one contract: a request that
\* fails never leaves a figure of the contract shown before beside new ones.
FiguresAgree ==
    \A shown \in {figures} \cup {file.holds : file \in dashFiles} :
        Cardinality({shown[f] : f \in Figure} \ {Zero}) <= 1

\* What is kept for a wallet is what that wallet earned; the headline is all that
\* the rows charted hold of the range, none left out for a contract the last load
\* did not name; a day of the chart sums no more than its rows, and the days drawn
\* sum to the headline when no contract is hidden, whichever loads overlapped.
KeptIsOfItsWallet ==
    /\ \A w \in Earner : \A k \in DOMAIN cached[w] : cached[w][k] = Paid(w, k[2], k[1])
    /\ summary.total = Total(snapshots, getRangeDates(chartRange))
    /\ \A d \in DOMAIN chartSeries : chartSeries[d] <= Total(snapshots, {d})
    /\ chartedContracts \subseteq enabledContracts => summary.total = SumFunction(chartSeries)
=============================================================================
