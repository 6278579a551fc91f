----------------------------- MODULE HistoryView -----------------------------
(***************************************************************************)
(* TransactionHistory.tsx: the list of a contract's transactions, a page   *)
(* at a time, with filters the backend applies and others applied to the   *)
(* page it answered with; asking again for the status of a row; and the    *)
(* export of the whole history to a file.                                  *)
(*                                                                         *)
(* Nothing a request answers is checked against what is asked for now: an  *)
(* answer that comes late replaces the list.  A handler works with the     *)
(* contract, the page and the filters of the render it was made in.        *)
(***************************************************************************)
EXTENDS Integers, Sequences, FiniteSets, SequencesExt, Tables

CONSTANTS
    HistoryContract,  \* contracts the user looks at
    Ledger,           \* per contract: its rows, newest first, with the status they start with
    PageSize,         \* LIMIT
    ExportLimit,      \* the rows the export asks for
    MaxLimit,         \* the rows the backend answers with at most
    MaxClicks         \* bound on what the user does

VARIABLES
    rowStatus,        \* the backend's status of every row
    hContract, hOffset, hFilter, pendingFilter,
    hView,            \* filters and order applied to the page fetched
    hAsks,            \* requests for a page: [query, by]
    hLoading, hError,
    listed,           \* rows fetched, with the status they had
    hTotal,
    refreshing,       \* the row whose status is asked for, or NotRefreshing
    refreshMessage,
    exportAsks, exportFiles,
    openTx,           \* the row whose details are shown, or NoRow
    clicks

historyVars == <<rowStatus, hContract, hOffset, hFilter, pendingFilter, hView, hAsks, hLoading, hError, listed,
                 hTotal, refreshing, refreshMessage, exportAsks, exportFiles, openTx, clicks>>
listVars == <<hAsks, hLoading, hError, listed, hTotal>>
queryVars == <<hContract, hOffset, hFilter, pendingFilter, hView>>
verdictVars == <<rowStatus, refreshing, refreshMessage>>
exportVars == <<exportAsks, exportFiles>>

NoRow == "no row"
NotRefreshing == [id |-> NoRow, query |-> NoRow, step |-> NoRow]
AllTypes == ""
HistoryFilter == {AllTypes, "distribute"}
DefaultView == [category |-> "", search |-> "", field |-> "timestamp", direction |-> "desc"]
LedgerRows == UNION {{Ledger[c][i] : i \in DOMAIN Ledger[c]} : c \in HistoryContract}

ASSUME HistoryAssumption ==
    /\ HistoryContract # {} /\ \A c \in HistoryContract : Ledger[c] \in Seq(LedgerRows)
    /\ \A r \in LedgerRows : r.amount \in Int /\ r.at \in Int
    /\ PageSize \in Nat /\ ExportLimit \in Int /\ MaxLimit \in Nat \ {0}

Query(contract, limit, offset, filter) ==
    [contract |-> contract, limit |-> limit, offset |-> offset, filter |-> filter]
ListQuery(contract, offset, filter) == Query(contract, PageSize, offset, filter)

-----------------------------------------------------------------------------
\* What is listed.

Least(a, b) == IF a < b THEN a ELSE b

\* GET /history: the rows of the contract that pass the filter, a page of them.
parsePagination(limit) == Least(IF limit > 1 THEN limit ELSE 1, MaxLimit)
Passing(q) ==
    LET rows == Ledger[q.contract]
    IN  RowsIn(rows, {i \in DOMAIN rows : q.filter = AllTypes \/ rows[i].type = q.filter})
getTransactionHistory(q) ==
    LET all == Passing(q)
    IN  SubSeq(all, q.offset + 1, Least(q.offset + parsePagination(q.limit), Len(all)))

PageOf(q) == [i \in DOMAIN getTransactionHistory(q) |->
                [row |-> getTransactionHistory(q)[i], status |-> rowStatus[getTransactionHistory(q)[i].id]]]

isSecondaryTx(type) == type = "secondary_distribute"
matchesCategory(tx, category) ==
    CASE category = "" -> TRUE
      [] category = "batch" -> tx.payoutCount > 1
      [] category = "secondary" -> isSecondaryTx(tx.type)
      [] category = "primary" -> ~isSecondaryTx(tx.type)
matchesSearch(tx, query) == query = "" \/ query \in {tx.id, tx.initiator}

\* Two that compare as equal keep their order.
SortKey(tx, view) == IF view.field = "amount" THEN tx.row.amount ELSE tx.row.at
SortsBefore(txs, view, i, j) ==
    LET a == SortKey(txs[i], view)
        b == SortKey(txs[j], view)
    IN  \/ IF view.direction = "asc" THEN a < b ELSE a > b
        \/ a = b /\ i < j
sortTransactions(txs, view) ==
    LET P == DOMAIN txs
    IN  RowsAt(txs, Listing(P, {p \in P \X P : SortsBefore(txs, view, p[1], p[2])}))

displayedTransactions ==
    LET shown == {i \in DOMAIN listed : /\ matchesCategory(listed[i].row, hView.category)
                                        /\ matchesSearch(listed[i].row, hView.search)}
    IN  sortTransactions(RowsIn(listed, shown), hView)

getStatusDisplay(tx) == IF tx.status \in {"confirmed", "failed"} THEN tx.status ELSE "pending or delayed"

-----------------------------------------------------------------------------
HistoryInit ==
    /\ rowStatus = [id \in {r.id : r \in LedgerRows} |-> (CHOOSE r \in LedgerRows : r.id = id).status]
    /\ hContract = CHOOSE c \in HistoryContract : TRUE
    /\ hOffset = 0 /\ hFilter = AllTypes /\ pendingFilter = AllTypes /\ hView = DefaultView
    /\ hAsks = {[query |-> ListQuery(hContract, 0, AllTypes), by |-> "list"]}
    /\ hLoading = TRUE /\ hError = FALSE /\ listed = << >> /\ hTotal = 0
    /\ refreshing = NotRefreshing /\ refreshMessage = NoRow
    /\ exportAsks = {} /\ exportFiles = {}
    /\ openTx = NoRow /\ clicks = 0

Click == clicks < MaxClicks /\ clicks' = clicks + 1

\* fetchHistory up to its await.
fetchHistory(queries, by) ==
    /\ hAsks' = hAsks \cup {[query |-> q, by |-> by] : q \in queries}
    /\ hLoading' = TRUE /\ hError' = FALSE
    /\ UNCHANGED <<listed, hTotal>>

\* The rest of it; a refresh that waited for it ends.
Answered(ask) ==
    /\ hAsks' = hAsks \ {ask}
    /\ hLoading' = FALSE
    /\ refreshing' = IF ask.by = "refresh" THEN NotRefreshing ELSE refreshing
    /\ UNCHANGED <<rowStatus, refreshMessage, queryVars, exportVars, openTx, clicks>>

HistoryAnswers(ask) ==
    /\ ask \in hAsks
    /\ listed' = PageOf(ask.query)
    /\ hTotal' = Len(Passing(ask.query))
    /\ UNCHANGED hError
    /\ Answered(ask)

HistoryFails(ask) ==
    /\ ask \in hAsks
    /\ hError' = TRUE
    /\ UNCHANGED <<listed, hTotal>>
    /\ Answered(ask)

\* The effects of another contract, page or filter.  The page goes back to the
\* first in an effect of its own, so the old page is asked for as well.
ShowContract(c) ==
    /\ c # hContract /\ Click
    /\ hContract' = c /\ hOffset' = 0
    /\ fetchHistory({ListQuery(c, hOffset, hFilter), ListQuery(c, 0, hFilter)}, "list")
    /\ UNCHANGED <<hFilter, pendingFilter, hView, verdictVars, exportVars, openTx>>

ShowPage(offset) ==
    /\ hOffset' = offset
    /\ fetchHistory({ListQuery(hContract, offset, hFilter)}, "list")
    /\ Click
    /\ UNCHANGED <<hContract, hFilter, pendingFilter, hView, verdictVars, exportVars, openTx>>

ListIsShown == openTx = NoRow /\ displayedTransactions # << >>
previousPage == ListIsShown /\ hOffset > 0 /\ ShowPage(IF hOffset > PageSize THEN hOffset - PageSize ELSE 0)
nextPage == ListIsShown /\ hOffset + Len(listed) < hTotal /\ ShowPage(hOffset + PageSize)

refreshList ==
    /\ openTx = NoRow /\ ~hLoading /\ Click
    /\ fetchHistory({ListQuery(hContract, hOffset, hFilter)}, "list")
    /\ UNCHANGED <<queryVars, verdictVars, exportVars, openTx>>

-----------------------------------------------------------------------------
\* The filter panel.

editFilter(filter) ==
    /\ openTx = NoRow /\ filter # pendingFilter /\ Click
    /\ pendingFilter' = filter
    /\ UNCHANGED <<hContract, hOffset, hFilter, hView, listVars, verdictVars, exportVars, openTx>>

editView(view) ==
    /\ openTx = NoRow /\ view # hView /\ Click
    /\ hView' = view
    /\ UNCHANGED <<hContract, hOffset, hFilter, pendingFilter, listVars, verdictVars, exportVars, openTx>>

FilterBecomes(filter) ==
    /\ hFilter' = filter /\ hOffset' = 0
    /\ IF filter # hFilter \/ hOffset # 0 THEN fetchHistory({ListQuery(hContract, 0, filter)}, "list")
       ELSE UNCHANGED listVars
    /\ UNCHANGED <<hContract, verdictVars, exportVars, openTx>>

applyFilters ==
    /\ openTx = NoRow /\ ~hLoading /\ Click
    /\ FilterBecomes(pendingFilter)
    /\ UNCHANGED <<pendingFilter, hView>>

hasActiveFilters == hFilter # AllTypes \/ hView.category # "" \/ hView.search # ""

resetFilters ==
    /\ openTx = NoRow /\ hasActiveFilters /\ Click
    /\ pendingFilter' = AllTypes /\ hView' = DefaultView
    /\ FilterBecomes(AllTypes)

-----------------------------------------------------------------------------
\* The status of a row.

\* The backend settles a row once, for whatever reason.
LedgerSettles(id) ==
    /\ rowStatus[id] = "pending"
    /\ rowStatus' \in {[rowStatus EXCEPT ![id] = s] : s \in {"confirmed", "failed"}}
    /\ UNCHANGED <<queryVars, listVars, refreshing, refreshMessage, exportVars, openTx, clicks>>

handleRefreshStatus(i) ==
    /\ ListIsShown /\ i \in DOMAIN displayedTransactions
    /\ displayedTransactions[i].status = "pending" /\ refreshing = NotRefreshing /\ Click
    /\ refreshing' = [id |-> displayedTransactions[i].row.id, query |-> ListQuery(hContract, hOffset, hFilter),
                      step |-> "confirm"]
    /\ refreshMessage' = NoRow
    /\ UNCHANGED <<rowStatus, queryVars, listVars, exportVars, openTx>>

\* Mutant: what the page claims is taken for the outcome.
RefreshBelievesItself ==
    /\ refreshing.step = "confirm"
    /\ refreshMessage' = refreshing.id
    /\ refreshing' = NotRefreshing
    /\ listed' = [i \in DOMAIN listed |-> IF listed[i].row.id = refreshing.id
                                            THEN [listed[i] EXCEPT !.status = "confirmed"] ELSE listed[i]]
    /\ UNCHANGED <<rowStatus, queryVars, hAsks, hLoading, hError, hTotal, exportVars, openTx, clicks>>

\* POST /transaction/confirm answers with what the backend found; the page asks
\* for the list it was showing when the button was pressed.
RefreshAnswers ==
    /\ refreshing.step = "confirm"
    /\ rowStatus[refreshing.id] # "pending"
    /\ refreshMessage' = refreshing.id
    /\ refreshing' = [refreshing EXCEPT !.step = "list"]
    /\ fetchHistory({refreshing.query}, "refresh")
    /\ UNCHANGED <<rowStatus, queryVars, exportVars, openTx, clicks>>

\* "Still pending": a time-out of the backend's poll, or any failure.
RefreshFails ==
    /\ refreshing.step = "confirm"
    /\ refreshMessage' = refreshing.id
    /\ refreshing' = NotRefreshing
    /\ UNCHANGED <<rowStatus, queryVars, listVars, exportVars, openTx, clicks>>

-----------------------------------------------------------------------------
\* The export and the details of a row.

filterByDateRange(rows, range) == 
    RowsIn(rows, {i \in DOMAIN rows : range = 0 \/ rows[i].at >= range})

handleExport(range) ==
    /\ openTx = NoRow /\ exportAsks = {} /\ Click
    /\ exportAsks' = {[query |-> Query(hContract, ExportLimit, 0, AllTypes), range |-> range]}
    /\ UNCHANGED <<exportFiles, queryVars, listVars, verdictVars, openTx>>

ExportAnswers(ask) ==
    /\ ask \in exportAsks
    /\ exportAsks' = exportAsks \ {ask}
    /\ LET rows == filterByDateRange(getTransactionHistory(ask.query), ask.range)
       IN  exportFiles' = IF rows = << >> THEN exportFiles
                          ELSE exportFiles \cup {[name |-> ask.query.contract, range |-> ask.range, rows |-> rows]}
    /\ UNCHANGED <<queryVars, listVars, verdictVars, openTx, clicks>>

ExportFails(ask) ==
    /\ ask \in exportAsks
    /\ exportAsks' = exportAsks \ {ask}
    /\ UNCHANGED <<exportFiles, queryVars, listVars, verdictVars, openTx, clicks>>

handleSelectTxHash(id) ==
    /\ id # openTx /\ Click
    /\ IF id = NoRow THEN TRUE
       ELSE ListIsShown /\ \E i \in DOMAIN displayedTransactions : displayedTransactions[i].row.id = id
    /\ openTx' = id
    /\ UNCHANGED <<queryVars, listVars, verdictVars, exportVars>>

HistoryViews == {DefaultView, [DefaultView EXCEPT !.category = "secondary"], [DefaultView EXCEPT !.category = "primary"],
                 [DefaultView EXCEPT !.category = "batch"], [DefaultView EXCEPT !.field = "amount"],
                 [DefaultView EXCEPT !.field = "amount", !.direction = "asc"],
                 [DefaultView EXCEPT !.search = "alice"]}

HistoryNext ==
    \/ \E ask \in hAsks : HistoryAnswers(ask) \/ HistoryFails(ask)
    \/ \E c \in HistoryContract : ShowContract(c)
    \/ previousPage \/ nextPage \/ refreshList
    \/ \E filter \in HistoryFilter : editFilter(filter)
    \/ \E view \in HistoryViews : editView(view)
    \/ applyFilters \/ resetFilters
    \/ \E id \in DOMAIN rowStatus : LedgerSettles(id)
    \/ \E i \in 1..PageSize : handleRefreshStatus(i)
    \/ RefreshAnswers \/ RefreshFails
    \/ \E range \in {0, 3} : handleExport(range)
    \/ \E ask \in exportAsks : ExportAnswers(ask) \/ ExportFails(ask)
    \/ \E id \in DOMAIN rowStatus \cup {NoRow} : handleSelectTxHash(id)

-----------------------------------------------------------------------------
\* "Never marks a transaction confirmed on the client's say-so": a verdict the
\* list shows is the backend's, whatever was refreshed, filtered or answered late.
ShownVerdictIsReal ==
    \A i \in DOMAIN displayedTransactions :
        LET tx == displayedTransactions[i]
        IN  getStatusDisplay(tx) \in {"confirmed", "failed"} => rowStatus[tx.row.id] = getStatusDisplay(tx)

\* A file holds rows of the contract it is named after and of no other, in their
\* order, though another contract may be shown by the time it is written.
ExportIsOfItsContract ==
    \A f \in exportFiles : IsPrefix(f.rows, filterByDateRange(Ledger[f.name], f.range))
=============================================================================
