----------------------------- MODULE MCFrontend -----------------------------
(***************************************************************************)
(* The pages of the web application, one scene each: the form that sets a  *)
(* contract up and its drafts, the form that pays, the transaction list,   *)
(* the earnings dashboard and chart, and the forms of the staff; and the   *)
(* parts that outlive a page, one each: the shell, the offline write       *)
(* queue, the WebSocket of the dashboard and that of App.                  *)
(***************************************************************************)
EXTENDS TLC, SetupForm, PayForm, HistoryView, EarningsViews, OfficeForms,
        BrowserSession, BrowserOffline, LiveFeed

CONSTANTS c1, c2, k1, k2, f1, f2

SharesDef == c1 :> <<3333, 6667>> @@ c2 :> <<5000, 2500, 2500>>
RowsDef == f1 :> 1 @@ f2 :> 2
PoolDef == c1 :> 1 @@ c2 :> 0
FundsDef == k1 :> 1 @@ k2 :> 2

\* Newest first, as the backend answers.
Tx(id, type, who, stroops, at, payouts, status) ==
    [id |-> id, type |-> type, initiator |-> who, amount |-> stroops, at |-> at, payoutCount |-> payouts,
     status |-> status]
LedgerDef ==
    c1 :> <<Tx("x3", "distribute", "alice", 2, 3, 2, "pending"), Tx("x2", "secondary_distribute", "bob", 5, 2, 1, "confirmed"),
            Tx("x1", "initialize", "alice", 0, 1, 0, "confirmed")>>
    @@ c2 :> <<Tx("y1", "distribute", "bob", 1, 2, 1, "pending")>>

\* Every wallet earns from both contracts on the first day, from one on the last.
CONSTANTS e1, e2
PaidDef(wallet, contract, day) ==
    CASE day = 1 -> IF wallet = e1 THEN 2 ELSE 3
      [] day = 2 -> IF contract = c1 THEN 1 ELSE 0
      [] OTHER -> IF contract = c2 /\ wallet = e1 THEN 4 ELSE 0

VARIABLE scene

pageVars == <<setupVars, payVars, historyVars, earningsVars, officeVars>>
browserVars == <<sessionVars, queueVars, feedVars>>
mcVars == <<pageVars, browserVars, scene>>

FrontendInit ==
    /\ scene \in {"setup", "draft", "pay", "fields", "history", "dashboard", "chart", "upload", "sale", "distribute",
                  "session", "queue", "feed", "app"}
    /\ SetupInit /\ PayInit /\ HistoryInit /\ EarningsInit /\ OfficeInit
    /\ SessionInit /\ ((lastContractId = Unset) = (scene # "session")) /\ QueueInit
    /\ FeedInit(IF scene = "app" THEN "app" ELSE "dashboard")

PageNext ==
    \/ /\ scene = "setup" /\ (TypeNext \/ SubmitNext) /\ Cardinality(errors') <= 1 /\ edits' <= 2
       /\ UNCHANGED <<payVars, historyVars, earningsVars, officeVars>>
    \/ /\ scene = "draft" /\ (TypeNext \/ DraftNext)
       /\ UNCHANGED <<payVars, historyVars, earningsVars, officeVars>>
    \/ /\ scene = "pay" /\ (FieldsNext \/ PaymentNext) /\ tokenId' # k2
       /\ UNCHANGED <<setupVars, historyVars, earningsVars, officeVars>>
    \/ /\ scene = "fields" /\ (FieldsNext \/ ContractNext)
       /\ UNCHANGED <<setupVars, historyVars, earningsVars, officeVars>>
    \/ /\ scene = "history" /\ HistoryNext
       /\ UNCHANGED <<setupVars, payVars, earningsVars, officeVars>>
    \/ /\ \/ scene = "dashboard" /\ DashboardNext
          \/ scene = "chart" /\ ChartNext
       /\ UNCHANGED <<setupVars, payVars, historyVars, officeVars>>
    \/ /\ \/ scene = "upload" /\ UploadNext
          \/ scene = "sale" /\ SaleNext
          \/ scene = "distribute" /\ PoolNext
       /\ UNCHANGED <<setupVars, payVars, historyVars, earningsVars>>

BrowserNext ==
    \/ /\ scene = "session" /\ SessionNext /\ Cardinality(statusAsks' \cup rateAsks') <= 1
       /\ UNCHANGED <<queueVars, feedVars>>
    \/ scene = "queue" /\ QueueNext /\ UNCHANGED <<sessionVars, feedVars>>
    \/ scene = "feed" /\ FeedNext /\ UNCHANGED <<sessionVars, queueVars>>
    \/ scene = "app" /\ FeedNext /\ UNCHANGED <<drops, switches>> /\ UNCHANGED <<sessionVars, queueVars>>

FrontendNext ==
    /\ UNCHANGED scene
    /\ \/ PageNext /\ UNCHANGED browserVars
       \/ BrowserNext /\ UNCHANGED pageVars

\* The interval timers and the socket's own timer fire, and what was asked of the
\* extension, the store or the server comes to an end.
BrowserFairness ==
    /\ WF_sessionVars(scene = "session" /\ tryReconnect)
    /\ \A r \in {"restore side", "restore page"} : WF_sessionVars(scene = "session" /\ RestoreAnswers(r))
    /\ WF_sessionVars(scene = "session" /\ NetworkPoll)
    /\ WF_sessionVars(scene = "session" /\ refreshWalletNetwork)
    /\ \A w \in Write : /\ WF_queueVars(scene = "queue" /\ enqueueWrite(w))
                        /\ WF_queueVars(scene = "queue" /\ BackoffElapses(w))
    /\ \A d \in Drain : /\ WF_queueVars(scene = "queue" /\ requestQueueDrain(d))
                        /\ WF_queueVars(scene = "queue" /\ (DrainDelivers(d) \/ DrainFails(d)))
    /\ \A s \in Slot : /\ WF_feedVars(scene = "feed" /\ onopen(s))
                       /\ WF_feedVars(scene = "feed" /\ CloseCompletes(s))
                       /\ WF_feedVars(scene = "feed" /\ ReconnectTimer(s))

FrontendSpec == FrontendInit /\ [][FrontendNext]_mcVars /\ BrowserFairness

-----------------------------------------------------------------------------
\* The form that sets a contract up keeps to what was entered: a reveal sends a
\* payload that was committed, and the stored draft catches up with the fields.
SetupIsFaithful == RevealFollowsItsCommit /\ DraftKeepsUp

\* A payment shown as in flight is one that runs, the preview beside it is of the
\* contract shown, an import is of the file previewed, and what was typed once is
\* reported as done once.
PaymentsAreAsShown ==
    /\ InFlightIsRunning /\ PreviewIsOfThisContract
    /\ ImportsWhatWasPreviewed /\ EntrySucceedsOnce

\* A verdict shown in the history is the backend's, and an exported file holds rows
\* of the contract it is named after, in their order.
HistoryIsReal == ShownVerdictIsReal /\ ExportIsOfItsContract

\* The figures of the dashboard are of one contract, and what the browser keeps for
\* a wallet is what that wallet earned, whichever loads overlap.
EarningsAgree == FiguresAgree /\ KeptIsOfItsWallet

\* The shell comes to rest on the wallet's network with no restore pending
\* (BrowserSession: the poll of NetworkContext, the restore of WalletConnect).
TheShellSettles == scene = "session" => ShellSettles

\* Queued writes get through once the network is back for good (BrowserOffline:
\* the retry loop of watchConnectivity and drainQueue).
QueuedWritesGetThrough == scene = "queue" => WritesGetThrough

\* The dashboard's socket comes back for the wallet shown (LiveFeed: onclose and
\* its timer in useWebSocket), whatever timers of earlier wallets are still set.
TheFeedComesBack == scene = "feed" => FeedComesBack

\* The page does not mislead its user: a form acts for the account the extension
\* signs with, and the inbox shows no verdict the backend did not push.
ShellIsHonest == FormsActForTheAccount /\ InboxIsHonest

\* Whatever was interrupted comes back: the shell, the queued writes and the feed.
BrowserRecovers == TheShellSettles /\ QueuedWritesGetThrough /\ TheFeedComesBack
=============================================================================
