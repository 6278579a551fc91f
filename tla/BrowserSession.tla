--------------------------- MODULE BrowserSession ---------------------------
(***************************************************************************)
(* The shell of the web application: which wallet and which contract it    *)
(* works for, which page is mounted (App.tsx), how a wallet is connected   *)
(* and restored (WalletConnect.tsx), what it knows of the wallet's network *)
(* (NetworkContext.tsx) and what it makes of a session that has expired    *)
(* (request of api.ts).  The Freighter extension is external; it answers a *)
(* request with what holds when the answer is delivered.                   *)
(*                                                                         *)
(* WalletConnect is mounted in the sidebar and on the connect-wallet page. *)
(* handleWalletConnect looks at the page of the render it was made in, so  *)
(* a request remembers the page it was made on.                            *)
(***************************************************************************)
EXTENDS Naturals, FiniteSets

CONSTANTS
    Wallet,           \* accounts of the extension
    ContractId,       \* contract identifiers that are well formed
    Page,             \* pages the user visits
    MaxMoves          \* bound on what the user and the extension do

VARIABLES
    account, authorized, extensionNetwork,       \* Freighter
    walletAddress, currentPage, toast,           \* App
    contractField, contractIdError,
    lastContractId, connectedFlag, lastWalletAddress,  \* localStorage
    asking,           \* per request to the extension: the page it was made on, or Unasked
    expiryRendered,   \* a listener was registered while the page was connect-wallet
    royaltyRate, rateAsks,                       \* the contract a rate is of, or a default
    contractInitialized, statusAsks,
    sessionExpiryNotified,                       \* api.ts
    walletNetworkName, networkAsk,
    moves

extensionVars == <<account, authorized, extensionNetwork>>
storeVars == <<lastContractId, connectedFlag, lastWalletAddress>>
contractVars == <<contractField, contractIdError, royaltyRate, rateAsks, contractInitialized, statusAsks>>
walletVars == <<walletAddress, currentPage, asking, expiryRendered>>
networkVars == <<walletNetworkName, networkAsk>>
sessionVars == <<extensionVars, storeVars, contractVars, walletVars, networkVars, toast,
                 sessionExpiryNotified, moves>>

Nobody == "nobody"
Unset == "none"                   \* no contract, no rate, no network
Garbled == "garbled"              \* a contract identifier that is not well formed
Unasked == "not asked"
ExtensionRequest == {"reconnect", "restore side", "restore page", "connect"}
Networks == {"TESTNET", "PUBLIC"}

\* What renderPage asks for before it mounts a page.
NeedsWallet == {"earnings-history", "initialize", "distribute", "earnings", "tax-info"}
NeedsContract == {"dashboard", "forecast", "timeline", "admin", "suspension", "payment-holds"}
NeedsBoth == {"bulk-import", "secondary"}
NeedsNothing == {"earnings-dashboard", "connect-wallet", "transactions", "health", "settings", "onboarding"}
navItems == (NeedsWallet \cup NeedsContract \cup NeedsBoth \cup NeedsNothing) \ {"suspension", "connect-wallet"}

ASSUME PageAssumption == Page \subseteq navItems \cup {"connect-wallet"}

initialLoading == asking["reconnect"] # Unasked
Mounted(page) ==
    /\ ~initialLoading
    /\ page = currentPage
    /\ page \in NeedsWallet \cup NeedsBoth => walletAddress # Nobody
    /\ page \in NeedsContract \cup NeedsBoth => contractField # Unset
restoring == {r \in {"restore side", "restore page"} : asking[r] # Unasked}

SessionInit ==
    /\ account = CHOOSE w \in Wallet : TRUE
    /\ authorized = TRUE /\ extensionNetwork = "TESTNET"
    /\ walletAddress = Nobody /\ currentPage = "dashboard" /\ toast = FALSE
    /\ lastContractId \in {Unset, CHOOSE c \in ContractId : TRUE}
    /\ contractField = lastContractId /\ contractIdError = FALSE
    /\ connectedFlag = TRUE /\ lastWalletAddress = account
    /\ asking = [r \in ExtensionRequest |-> IF r = "reconnect" THEN "dashboard" ELSE Unasked]
    /\ expiryRendered = FALSE
    /\ royaltyRate = "default" /\ rateAsks = {contractField} \ {Unset}
    /\ contractInitialized = Unset /\ statusAsks = rateAsks
    /\ sessionExpiryNotified = FALSE
    /\ walletNetworkName = Unset /\ networkAsk = TRUE
    /\ moves = 0

Move == moves < MaxMoves /\ moves' = moves + 1

\* A WalletConnect that mounts without a wallet asks for the one of the session before.
AsksOnMount(reqs, r, wallet, flag, page) ==
    IF wallet = Nobody /\ flag THEN [reqs EXCEPT ![r] = page] ELSE reqs

\* Another page: the WalletConnect of the old one is cancelled, that of the new
\* mounts, if the application has loaded.
GoTo(reqs, page, wallet, flag) ==
    /\ currentPage' = page
    /\ expiryRendered' = (expiryRendered \/ page = "connect-wallet")
    /\ asking' = IF page = currentPage THEN reqs
                 ELSE LET left == [reqs EXCEPT !["restore page"] = Unasked]
                      IN  IF page = "connect-wallet" /\ ~initialLoading
                            THEN AsksOnMount(left, "restore page", wallet, flag, page)
                            ELSE left

-----------------------------------------------------------------------------
\* The wallet.

\* App asks once, as it loads; then the sidebar mounts.
tryReconnect ==
    LET wallet == IF authorized THEN account ELSE walletAddress
        asked == [asking EXCEPT !["reconnect"] = Unasked]
        side == AsksOnMount(asked, "restore side", wallet, connectedFlag, currentPage)
    IN  /\ initialLoading
        /\ walletAddress' = wallet
        /\ asking' = IF currentPage = "connect-wallet"
                       THEN AsksOnMount(side, "restore page", wallet, connectedFlag, currentPage) ELSE side
        /\ UNCHANGED <<extensionVars, storeVars, contractVars, currentPage, expiryRendered, networkVars,
                       toast, sessionExpiryNotified, moves>>

persistSession(wallet) == connectedFlag' = TRUE /\ lastWalletAddress' = wallet
clearSession == connectedFlag' = FALSE /\ lastWalletAddress' = Nobody

\* onConnect as it was when the request was made.
handleWalletConnect(reqs, madeOn) ==
    /\ walletAddress' = account
    /\ IF madeOn = "connect-wallet" THEN GoTo(reqs, "dashboard", account, TRUE)
       ELSE asking' = reqs /\ UNCHANGED <<currentPage, expiryRendered>>

RestoreAnswers(r) ==
    LET answered == [asking EXCEPT ![r] = Unasked]
    IN  /\ r \in restoring
        /\ IF authorized
             THEN /\ handleWalletConnect(answered, asking[r])
                  /\ persistSession(account)
                  /\ networkAsk' = TRUE
             ELSE /\ clearSession
                  /\ asking' = answered
                  /\ UNCHANGED <<walletAddress, currentPage, expiryRendered, networkAsk>>
        /\ UNCHANGED <<extensionVars, lastContractId, contractVars, walletNetworkName, toast,
                       sessionExpiryNotified, moves>>

connect ==
    /\ ~initialLoading /\ walletAddress = Nobody /\ asking["connect"] = Unasked
    /\ "restore side" \notin restoring \/ (currentPage = "connect-wallet" /\ "restore page" \notin restoring)
    /\ Move
    /\ asking' = [asking EXCEPT !["connect"] = currentPage]
    /\ UNCHANGED <<extensionVars, storeVars, contractVars, walletAddress, currentPage, expiryRendered,
                   networkVars, toast, sessionExpiryNotified>>

\* The user approves in the extension.
ConnectApproved ==
    /\ asking["connect"] # Unasked
    /\ authorized' = TRUE
    /\ handleWalletConnect([asking EXCEPT !["connect"] = Unasked], asking["connect"])
    /\ persistSession(account)
    /\ networkAsk' = TRUE
    /\ UNCHANGED <<account, extensionNetwork, lastContractId, contractVars, walletNetworkName, toast,
                   sessionExpiryNotified, moves>>

ConnectRejected ==
    /\ asking["connect"] # Unasked
    /\ asking' = [asking EXCEPT !["connect"] = Unasked]
    /\ UNCHANGED <<extensionVars, storeVars, contractVars, walletAddress, currentPage, expiryRendered,
                   networkVars, toast, sessionExpiryNotified, moves>>

\* By the button of WalletConnect or of the navigation: both clear the session.
handleDisconnect ==
    /\ walletAddress # Nobody /\ ~initialLoading
    /\ walletAddress' = Nobody
    /\ clearSession
    /\ UNCHANGED <<extensionVars, lastContractId, contractVars, currentPage, asking, expiryRendered,
                   networkVars, toast, sessionExpiryNotified, moves>>

\* Mutant: the listeners keep the session and leave the wallet shown.
AccountChangedUnseen(a) ==
    /\ a # account /\ Move
    /\ account' = a
    /\ IF initialLoading THEN UNCHANGED <<connectedFlag, lastWalletAddress, networkAsk>>
                         ELSE persistSession(a) /\ networkAsk' = TRUE
    /\ UNCHANGED <<walletVars, authorized, extensionNetwork, lastContractId, contractVars, walletNetworkName,
                   toast, sessionExpiryNotified>>

\* Every render registered a listener and none is ever removed: all of them run,
\* those made on the connect-wallet page too.
AccountChanged(a) ==
    /\ a # account /\ Move
    /\ account' = a
    /\ IF initialLoading
         THEN UNCHANGED <<walletVars, connectedFlag, lastWalletAddress, networkAsk>>
         ELSE /\ walletAddress' = a
              /\ persistSession(a)
              /\ networkAsk' = TRUE
              /\ IF expiryRendered THEN GoTo(asking, "dashboard", a, TRUE)
                 ELSE UNCHANGED <<currentPage, asking, expiryRendered>>
    /\ UNCHANGED <<authorized, extensionNetwork, lastContractId, contractVars, walletNetworkName,
                   toast, sessionExpiryNotified>>

AuthorizationRevoked ==
    /\ authorized /\ Move
    /\ authorized' = FALSE
    /\ UNCHANGED <<account, extensionNetwork, storeVars, contractVars, walletVars, networkVars, toast,
                   sessionExpiryNotified>>

-----------------------------------------------------------------------------
\* The network of the wallet: asked for as the application loads, on every
\* connection, every few seconds and whenever the window is seen again.

NetworkChanged ==
    /\ Move
    /\ extensionNetwork' \in Networks \ {extensionNetwork}
    /\ UNCHANGED <<account, authorized, storeVars, contractVars, walletVars, networkVars, toast,
                   sessionExpiryNotified>>

NetworkPoll ==
    /\ ~networkAsk
    /\ networkAsk' = TRUE
    /\ UNCHANGED <<extensionVars, storeVars, contractVars, walletVars, walletNetworkName, toast,
                   sessionExpiryNotified, moves>>

getFreighterNetwork == IF authorized THEN extensionNetwork ELSE Unset

refreshWalletNetwork ==
    /\ networkAsk
    /\ networkAsk' = FALSE
    /\ walletNetworkName' = getFreighterNetwork
    /\ UNCHANGED <<extensionVars, storeVars, contractVars, walletVars, toast, sessionExpiryNotified, moves>>

-----------------------------------------------------------------------------
\* The contract, its rate and its status.

\* The effects of a new contract: what was asked for before stays asked for.
ContractBecomes(value) ==
    /\ contractField' = value
    /\ IF value \in ContractId
         THEN /\ rateAsks' = rateAsks \cup {value} /\ statusAsks' = statusAsks \cup {value}
              /\ UNCHANGED <<royaltyRate, contractInitialized>>
         ELSE /\ royaltyRate' = "default" /\ contractInitialized' = Unset
              /\ UNCHANGED <<rateAsks, statusAsks>>

handleContractChange(value) ==
    /\ value # contractField /\ ~initialLoading /\ Move
    /\ ContractBecomes(value)
    /\ contractIdError' = (value = Garbled)
    /\ lastContractId' = IF value = Garbled THEN lastContractId ELSE value
    /\ UNCHANGED <<extensionVars, connectedFlag, lastWalletAddress, walletVars, networkVars, toast,
                   sessionExpiryNotified>>

\* On the settings page.  The error of the field stays.
clearSavedContract ==
    /\ Mounted("settings") /\ contractField # Unset
    /\ ContractBecomes(Unset)
    /\ lastContractId' = Unset
    /\ GoTo(asking, "dashboard", walletAddress, connectedFlag)
    /\ UNCHANGED <<extensionVars, connectedFlag, lastWalletAddress, walletAddress, contractIdError,
                   networkVars, toast, sessionExpiryNotified, moves>>

\* Ctrl+S keeps whatever the field holds.
SaveShortcut ==
    /\ contractField \notin {Unset, lastContractId}
    /\ lastContractId' = contractField
    /\ UNCHANGED <<extensionVars, connectedFlag, lastWalletAddress, contractVars, walletVars, networkVars,
                   toast, sessionExpiryNotified, moves>>

fetchRate(c) ==
    /\ c \in rateAsks
    /\ rateAsks' = rateAsks \ {c}
    /\ royaltyRate' \in {c, "zero"}
    /\ UNCHANGED <<extensionVars, storeVars, contractField, contractIdError, contractInitialized, statusAsks,
                   walletVars, networkVars, toast, sessionExpiryNotified, moves>>

fetchStatus(c) ==
    /\ c \in statusAsks
    /\ statusAsks' = statusAsks \ {c}
    /\ contractInitialized' \in {c, Unset}
    /\ UNCHANGED <<extensionVars, storeVars, contractField, contractIdError, royaltyRate, rateAsks,
                   walletVars, networkVars, toast, sessionExpiryNotified, moves>>

-----------------------------------------------------------------------------
\* Pages and the session.

handlePageChange(page) ==
    /\ page # currentPage /\ ~initialLoading /\ Move
    /\ GoTo(asking, page, walletAddress, connectedFlag)
    /\ UNCHANGED <<extensionVars, storeVars, contractVars, walletAddress, networkVars, toast,
                   sessionExpiryNotified>>

\* The first 401 since a request succeeded, while the application loads too: the
\* rate and the status of a saved contract are asked for at once.  The flag of the
\* session stays, so the WalletConnect that mounts asks for the wallet again.
handleSessionExpired ==
    /\ ~sessionExpiryNotified /\ Move
    /\ sessionExpiryNotified' = TRUE
    /\ lastContractId' = Unset /\ lastWalletAddress' = Nobody
    /\ walletAddress' = Nobody
    /\ ContractBecomes(Unset)
    /\ contractIdError' = FALSE
    /\ GoTo(asking, "connect-wallet", Nobody, connectedFlag)
    /\ toast' = TRUE
    /\ UNCHANGED <<extensionVars, connectedFlag, networkVars>>

RequestSucceeds ==
    /\ sessionExpiryNotified
    /\ sessionExpiryNotified' = FALSE
    /\ UNCHANGED <<extensionVars, storeVars, contractVars, walletVars, networkVars, toast, moves>>

ToastCloses ==
    /\ toast
    /\ toast' = FALSE
    /\ UNCHANGED <<extensionVars, storeVars, contractVars, walletVars, networkVars, sessionExpiryNotified,
                   moves>>

-----------------------------------------------------------------------------
SessionNext ==
    \/ tryReconnect \/ \E r \in {"restore side", "restore page"} : RestoreAnswers(r)
    \/ connect \/ ConnectApproved \/ ConnectRejected \/ handleDisconnect
    \/ \E a \in Wallet : AccountChanged(a)
    \/ AuthorizationRevoked
    \/ NetworkChanged \/ NetworkPoll \/ refreshWalletNetwork
    \/ \E value \in ContractId \cup {Unset, Garbled} : handleContractChange(value)
    \/ clearSavedContract \/ SaveShortcut
    \/ \E c \in ContractId : fetchRate(c) \/ fetchStatus(c)
    \/ \E page \in Page : handlePageChange(page)
    \/ handleSessionExpired \/ RequestSucceeds \/ ToastCloses

-----------------------------------------------------------------------------
\* Whatever the user and the extension do meanwhile, the wallet the shell works
\* for, and with it every mounted form, is the account the extension signs with.
FormsActForTheAccount ==
    /\ walletAddress # Nobody => walletAddress = account
    /\ \A page \in NeedsWallet \cup NeedsBoth : Mounted(page) => walletAddress = account

\* Once the user and the extension come to rest, the network shown is that of
\* the wallet and no connect button stays disabled by a restore.
ShellSettles == <>[](walletNetworkName = getFreighterNetwork /\ restoring = {} /\ ~initialLoading)
=============================================================================
