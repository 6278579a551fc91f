--------------------------- MODULE FrontendProofs ---------------------------
(***************************************************************************)
(* What the web application guarantees, for every set of accounts, files,  *)
(* contracts, wallets and sockets and every bound on what the user does:   *)
(* one section per part, each with the invariant that carries the property *)
(* and why the property alone is not inductive.                            *)
(***************************************************************************)
EXTENDS MCFrontend, SumTheorems, SequenceTheorems

-----------------------------------------------------------------------------
\* A step of the application is a step of one part and leaves the others alone.
LEMMA PageFrame ==
    ASSUME [FrontendNext]_mcVars
    PROVE  /\ TypeNext \/ SubmitNext \/ DraftNext \/ UNCHANGED setupVars
           /\ FieldsNext \/ PaymentNext \/ ContractNext \/ UNCHANGED payVars
           /\ HistoryNext \/ UNCHANGED historyVars
           /\ DashboardNext \/ ChartNext \/ UNCHANGED earningsVars
           /\ UploadNext \/ SaleNext \/ PoolNext \/ UNCHANGED officeVars
           /\ SessionNext \/ UNCHANGED sessionVars
           /\ FeedNext \/ UNCHANGED feedVars
<1>1. CASE UNCHANGED mcVars
  BY <1>1 DEF mcVars, pageVars, browserVars
<1>2. CASE PageNext /\ UNCHANGED browserVars
  BY <1>2 DEF PageNext, browserVars
<1>3. CASE BrowserNext /\ UNCHANGED pageVars
  BY <1>3 DEF BrowserNext, pageVars
<1> QED  BY <1>1, <1>2, <1>3 DEF FrontendNext

-----------------------------------------------------------------------------
(***************************************************************************)
(* No accepted write is lost.  What makes the argument go through is what  *)
(* a drain holds: entries as the store had them, so what a failed attempt  *)
(* puts back is an entry, even where a clear or another drain has removed  *)
(* it meanwhile.                                                           *)
(***************************************************************************)

IsEntry(e) ==
    /\ e = [attempts |-> e.attempts, wait |-> e.wait]
    /\ e # NotQueued => e.attempts \in Nat

Item == [write : Write, attempts : Nat]

\* The store holds entries, and a drain works on a list of items.
StoreIsWhole ==
    /\ fate \in [Write -> {"unsent", "answered", "refused", "counted", "accepted"}]
    /\ queue = [w \in Write |-> queue[w]]
    /\ \A w \in Write : IsEntry(queue[w])
    /\ drains \in [Drain -> Seq(Item)]

QueueInv == StoreIsWhole /\ NoWriteIsLost

\* SetToSeq of a finite set lists its members.
LEMMA ListsMembers ==
    ASSUME NEW S, IsFiniteSet(S)
    PROVE  SetToSeq(S) \in Seq(S)
<1>1. Cardinality(S) \in Nat /\ ExistsBijection(1..Cardinality(S), S)
  BY FS_CardinalityType
<1>2. PICK f \in [1..Cardinality(S) -> S] : IsInjective(f)
  BY <1>1, Zenon DEF ExistsBijection, Bijection, Injection
<1>3. SetToSeq(S) \in [1..Cardinality(S) -> S]
  BY <1>2, Zenon DEF SetToSeq
<1> QED  BY <1>1, <1>3

\* getAll reads items of the store.
LEMMA DrainReadsItems ==
    ASSUME StoreIsWhole, NEW d \in Drain, StartDrain(d)
    PROVE  drains' \in [Drain -> Seq(Item)] /\ (\A e \in Drain : e # d => drains'[e] = drains[e])
<1> DEFINE due == {w \in queued : queue[w].wait = 0}
           list == [i \in DOMAIN Due |-> [write |-> Due[i], attempts |-> queue[Due[i]].attempts]]
<1>1. IsFiniteSet(due)
  <2>1. due \subseteq Write  BY DEF queued
  <2> QED  BY <2>1, QueueAssumption, FS_Subset
<1>2. Due \in Seq(due)
  BY <1>1, ListsMembers DEF Due
<1>3. \A w \in due : w \in Write /\ queue[w].attempts \in Nat
  BY DEF StoreIsWhole, IsEntry, queued
<1> HIDE DEF due
<1>4. \A i \in DOMAIN Due : Due[i] \in due
  BY <1>2
<1>5. \A i \in DOMAIN Due : [write |-> Due[i], attempts |-> queue[Due[i]].attempts] \in Item
  BY <1>3, <1>4 DEF Item
<1>6. \E n \in Nat : DOMAIN Due = 1..n
  BY <1>2
<1>7. list \in Seq(Item)
  BY <1>5, <1>6
<1>8. drains' = [drains EXCEPT ![d] = list]
  BY DEF StartDrain
<1> HIDE DEF list
<1> QED  BY <1>7, <1>8 DEF StoreIsWhole

\* A drain that goes on to its next entry leaves the others alone.
LEMMA AdvanceKeepsItems ==
    ASSUME StoreIsWhole, NEW d \in Drain, ~DrainIdle(d), Advance(d)
    PROVE  /\ drains' \in [Drain -> Seq(Item)]
           /\ Head(drains[d]) \in Item
<1>1. drains[d] \in Seq(Item) /\ drains[d] # << >>  BY DEF StoreIsWhole, DrainIdle
<1>2. Tail(drains[d]) \in Seq(Item) /\ Head(drains[d]) \in Item  BY <1>1
<1>3. drains' = [drains EXCEPT ![d] = Tail(drains[d])]
  BY DEF Advance
<1> QED  BY <1>2, <1>3 DEF StoreIsWhole

\* An attempt of which nothing came takes nothing back.
LEMMA LossesKeepWhatIsDone ==
    ASSUME NEW w, RequestOrAnswerLost(w) \/ Refused(w)
    PROVE  delivered \subseteq delivered'
<1>1. CASE RequestOrAnswerLost(w)  BY <1>1 DEF RequestOrAnswerLost
<1>2. CASE Refused(w)  BY <1>2 DEF Refused
<1> QED  BY <1>1, <1>2

\* What a failed attempt puts back is an entry with its attempts counted.
LEMMA PutsBackEntry ==
    ASSUME StoreIsWhole, NEW item \in Item, rescheduleRetry(item)
    PROVE  /\ queue' = [w \in Write |-> queue'[w]]
           /\ \A w \in Write : IsEntry(queue'[w])
           /\ queue'[item.write] # NotQueued
           /\ \A w \in Write : w # item.write => queue'[w] = queue[w]
<1> DEFINE attempts == IF item.attempts < MaxAttempts THEN item.attempts + 1 ELSE MaxAttempts
           back == [attempts |-> attempts, wait |-> computeBackoffMs(attempts)]
<1>1. item.write \in Write /\ item.attempts \in Nat  BY DEF Item
<1>2. attempts \in Nat  BY <1>1, QueueAssumption
<1>3. queue' = [queue EXCEPT ![item.write] = back]  BY DEF rescheduleRetry
<1> HIDE DEF attempts
<1>4. IsEntry(back) /\ back # NotQueued  BY <1>2 DEF IsEntry, NotQueued
<1> HIDE DEF back
<1> QED  BY <1>1, <1>3, <1>4 DEF StoreIsWhole

\* A write the page was told is queued is in the store until a server has carried
\* it out or the user has dropped it: for any number of writes, of drains that
\* overlap and of faults (enqueueWrite, drainQueue, clearQueue).
THEOREM QueueInvariant == QueueSpec => []QueueInv
<1>1. QueueInit => QueueInv
  BY DEF QueueInit, QueueInv, StoreIsWhole, IsEntry, NoWriteIsLost, NotQueued
<1>2. QueueInv /\ [QueueNext]_queueVars => QueueInv'
  <2> SUFFICES ASSUME QueueInv, [QueueNext]_queueVars PROVE QueueInv'  OBVIOUS
  <2>0. StoreIsWhole /\ NoWriteIsLost  BY DEF QueueInv
  <2>1. ASSUME NEW w \in Write, WriteGoesThrough(w) PROVE QueueInv'
    BY <2>0, <2>1 DEF WriteGoesThrough, QueueInv, StoreIsWhole, NoWriteIsLost, queued
  <2>2. ASSUME NEW w \in Write, WriteFails(w) PROVE QueueInv'
    <3>1. delivered \subseteq delivered'  BY <2>2, LossesKeepWhatIsDone DEF WriteFails
    <3> QED  BY <2>0, <2>2, <3>1 DEF WriteFails, QueueInv, StoreIsWhole, NoWriteIsLost, queued
  <2>3. ASSUME NEW w \in Write, enqueueWrite(w) PROVE QueueInv'
    <3> DEFINE new == [attempts |-> 0, wait |-> 0]
    <3>1. IsEntry(new) /\ new # NotQueued  BY DEF IsEntry, NotQueued
    <3>2. queue' = [queue EXCEPT ![w] = new]  BY <2>3 DEF enqueueWrite
    <3> HIDE DEF new
    <3> QED  BY <2>0, <2>3, <3>1, <3>2 DEF enqueueWrite, QueueInv, StoreIsWhole, NoWriteIsLost, queued
  <2>4. ASSUME NEW w \in Write, BackoffElapses(w) PROVE QueueInv'
    <3>1. queue[w] # NotQueued  BY <2>4 DEF BackoffElapses, NotQueued
    <3> DEFINE left == [queue[w] EXCEPT !.wait = @ - 1]
    <3>2. IsEntry(left) /\ left # NotQueued  BY <2>0, <3>1 DEF StoreIsWhole, IsEntry, NotQueued
    <3>3. queue' = [queue EXCEPT ![w] = left]  BY <2>4 DEF BackoffElapses
    <3> HIDE DEF left
    <3> QED  BY <2>0, <2>4, <3>2, <3>3 DEF BackoffElapses, QueueInv, StoreIsWhole, NoWriteIsLost, queued
  <2>5. ASSUME NEW d \in Drain, requestQueueDrain(d) PROVE QueueInv'
    <3>1. StartDrain(d) /\ drains[d] = << >>  BY <2>5 DEF requestQueueDrain, DrainIdle
    <3> QED  BY <2>0, <2>5, <3>1, DrainReadsItems
             DEF requestQueueDrain, QueueInv, StoreIsWhole, NoWriteIsLost, queued
  <2>6. ASSUME NEW w \in Write, SignatureExpires(w) PROVE QueueInv'
    BY <2>0, <2>6 DEF SignatureExpires, QueueInv, StoreIsWhole, NoWriteIsLost, queued
  <2>7. ASSUME NEW d \in Drain, DrainDelivers(d) PROVE QueueInv'
    <3> DEFINE w == Head(drains[d]).write
    <3>1. Advance(d) /\ ~DrainIdle(d)  BY <2>7 DEF DrainDelivers
    <3>2. w \in Write  BY <2>0, <3>1, AdvanceKeepsItems DEF Item
    <3>3. queue' = [queue EXCEPT ![w] = NotQueued] /\ delivered' = delivered \cup {w}
      BY <2>7 DEF DrainDelivers
    <3>4. IsEntry(NotQueued)  BY DEF IsEntry, NotQueued
    <3>5. UNCHANGED <<fate, discarded>>  BY <2>7 DEF DrainDelivers
    <3> HIDE DEF w
    <3>6. StoreIsWhole'  BY <2>0, <3>1, <3>2, <3>3, <3>4, <3>5, AdvanceKeepsItems DEF StoreIsWhole
    <3>7. NoWriteIsLost'  BY <2>0, <3>2, <3>3, <3>5 DEF StoreIsWhole, NoWriteIsLost, queued
    <3> QED  BY <3>6, <3>7 DEF QueueInv
  <2>8. ASSUME NEW d \in Drain, DrainFails(d) PROVE QueueInv'
    <3> DEFINE item == Head(drains[d])
    <3>1. Advance(d) /\ ~DrainIdle(d) /\ rescheduleRetry(item)  BY <2>8 DEF DrainFails
    <3>2. item \in Item  BY <2>0, <3>1, AdvanceKeepsItems
    <3>3. UNCHANGED <<fate, discarded>> /\ delivered \subseteq delivered'
      BY <2>8, LossesKeepWhatIsDone DEF DrainFails
    <3> HIDE DEF item
    <3>4. /\ queue' = [w \in Write |-> queue'[w]] /\ (\A w \in Write : IsEntry(queue'[w]))
          /\ queue'[item.write] # NotQueued /\ (\A w \in Write : w # item.write => queue'[w] = queue[w])
      BY <2>0, <3>1, <3>2, PutsBackEntry
    <3>5. StoreIsWhole'  BY <2>0, <3>1, <3>3, <3>4, AdvanceKeepsItems DEF StoreIsWhole
    <3>6. NoWriteIsLost'  BY <2>0, <3>3, <3>4 DEF NoWriteIsLost, queued
    <3> QED  BY <3>5, <3>6 DEF QueueInv
  <2>9. CASE handleOffline
    BY <2>0, <2>9 DEF handleOffline, QueueInv, StoreIsWhole, NoWriteIsLost, queued
  <2>10. CASE handleOnline
    <3>1. ASSUME NEW d \in Drain, DrainIdle(d), StartDrain(d) PROVE QueueInv'
      BY <2>0, <2>10, <3>1, DrainReadsItems
         DEF DrainIdle, handleOnline, QueueInv, StoreIsWhole, NoWriteIsLost, queued
    <3>2. CASE UNCHANGED drains
      BY <2>0, <2>10, <3>2 DEF handleOnline, QueueInv, StoreIsWhole, NoWriteIsLost, queued
    <3> QED  BY <2>10, <3>1, <3>2 DEF handleOnline
  <2>11. CASE clearQueue
    <3>1. IsEntry(NotQueued)  BY DEF IsEntry, NotQueued
    <3> QED  BY <2>0, <2>11, <3>1 DEF clearQueue, QueueInv, StoreIsWhole, NoWriteIsLost, queued
  <2>12. ASSUME NEW n \in {"none", "some"}, QueueUpdated(n) PROVE QueueInv'
    BY <2>0, <2>12 DEF QueueUpdated, QueueInv, StoreIsWhole, NoWriteIsLost, queued
  <2>13. CASE UNCHANGED queueVars
    BY <2>0, <2>13 DEF queueVars, QueueInv, StoreIsWhole, NoWriteIsLost, queued
  <2> QED  BY <2>1, <2>2, <2>3, <2>4, <2>5, <2>6, <2>7, <2>8, <2>9, <2>10, <2>11, <2>12, <2>13 DEF QueueNext
<1> QED  BY <1>1, <1>2, PTL DEF QueueSpec

\* The property itself.
THEOREM AcceptedWritesAreKept == QueueSpec => []NoWriteIsLost
<1> QED  BY QueueInvariant, PTL DEF QueueInv

-----------------------------------------------------------------------------
(***************************************************************************)
(* The shell.  A wallet that changes while the application still loads     *)
(* would be missed, as the listeners do nothing then; so the argument is   *)
(* that nobody is connected before tryReconnect has ended, which in turn   *)
(* needs that nothing else is asked of the extension until then.           *)
(***************************************************************************)

NobodyWhileLoading ==
    initialLoading => walletAddress = Nobody /\ \A r \in ExtensionRequest \ {"reconnect"} : asking[r] = Unasked

SessionInv ==
    /\ asking = [r \in ExtensionRequest |-> asking[r]]
    /\ walletAddress # Nobody => walletAddress = account
    /\ NobodyWhileLoading

\* Going to a page asks at most for the wallet of the session before.
LEMMA GoToAsks ==
    ASSUME NEW reqs, reqs = [r \in ExtensionRequest |-> reqs[r]], NEW page, NEW wallet, NEW flag,
           GoTo(reqs, page, wallet, flag)
    PROVE  /\ asking' = [r \in ExtensionRequest |-> asking'[r]]
           /\ asking'["reconnect"] = reqs["reconnect"]
  BY DEF GoTo, AsksOnMount, ExtensionRequest

LEMMA ConnectKeeps ==
    ASSUME SessionInv, ~initialLoading, NEW reqs, NEW page,
           reqs = [r \in ExtensionRequest |-> reqs[r]], reqs["reconnect"] = asking["reconnect"],
           handleWalletConnect(reqs, page), account' = account
    PROVE  SessionInv'
<1>1. walletAddress' = account  BY DEF handleWalletConnect
<1>2. asking' = [r \in ExtensionRequest |-> asking'[r]] /\ asking'["reconnect"] = reqs["reconnect"]
  BY GoToAsks DEF handleWalletConnect
<1> QED  BY <1>1, <1>2 DEF SessionInv, NobodyWhileLoading, initialLoading

LEMMA SessionStep == ASSUME SessionInv, SessionNext PROVE SessionInv'
<1> USE DEF SessionInv
<1>1. CASE tryReconnect
  <2>1. account' = account  BY <1>1 DEF tryReconnect, extensionVars
  <2>2. walletAddress' # Nobody => walletAddress' = account  BY <1>1 DEF tryReconnect
  <2>3. asking' = [r \in ExtensionRequest |-> asking'[r]] /\ asking'["reconnect"] = Unasked
    BY <1>1 DEF tryReconnect, AsksOnMount, ExtensionRequest
  <2> QED  BY <2>1, <2>2, <2>3 DEF NobodyWhileLoading, initialLoading
<1>2. ASSUME NEW r \in {"restore side", "restore page"}, RestoreAnswers(r) PROVE SessionInv'
  <2> DEFINE answered == [asking EXCEPT ![r] = Unasked]
  <2>1. r \in ExtensionRequest \ {"reconnect"} /\ asking[r] # Unasked /\ account' = account
    BY <1>2 DEF RestoreAnswers, restoring, ExtensionRequest, extensionVars
  <2>2. ~initialLoading  BY <2>1 DEF NobodyWhileLoading
  <2>3. answered = [q \in ExtensionRequest |-> answered[q]] /\ answered["reconnect"] = asking["reconnect"]
    BY <2>1 DEF ExtensionRequest
  <2>4. CASE handleWalletConnect(answered, asking[r])
    <3> HIDE DEF answered
    <3> QED  BY <2>1, <2>2, <2>3, <2>4, ConnectKeeps
  <2>5. CASE asking' = answered /\ UNCHANGED walletAddress
    BY <2>1, <2>2, <2>3, <2>5 DEF NobodyWhileLoading, initialLoading
  <2> QED  BY <1>2, <2>4, <2>5 DEF RestoreAnswers
<1>3. CASE connect
  BY <1>3 DEF connect, NobodyWhileLoading, initialLoading, extensionVars, ExtensionRequest
<1>4. CASE ConnectApproved
  <2> DEFINE answered == [asking EXCEPT !["connect"] = Unasked]
  <2>1. ~initialLoading  BY <1>4 DEF ConnectApproved, NobodyWhileLoading, ExtensionRequest
  <2>2. answered = [q \in ExtensionRequest |-> answered[q]] /\ answered["reconnect"] = asking["reconnect"]
    BY DEF ExtensionRequest
  <2>3. handleWalletConnect(answered, asking["connect"]) /\ account' = account  BY <1>4 DEF ConnectApproved
  <2> HIDE DEF answered
  <2> QED  BY <2>1, <2>2, <2>3, ConnectKeeps
<1>5. CASE ConnectRejected
  BY <1>5 DEF ConnectRejected, NobodyWhileLoading, initialLoading, extensionVars, ExtensionRequest
<1>6. CASE handleDisconnect
  BY <1>6 DEF handleDisconnect, NobodyWhileLoading, initialLoading, extensionVars
<1>7. ASSUME NEW a \in Wallet, AccountChanged(a) PROVE SessionInv'
  <2>1. CASE initialLoading
    BY <1>7, <2>1 DEF AccountChanged, walletVars, NobodyWhileLoading, initialLoading
  <2>2. CASE ~initialLoading
    <3>1. walletAddress' = a /\ account' = a  BY <1>7, <2>2 DEF AccountChanged
    <3>2. GoTo(asking, "dashboard", a, TRUE) \/ UNCHANGED asking  BY <1>7, <2>2 DEF AccountChanged
    <3>3. asking' = [r \in ExtensionRequest |-> asking'[r]] /\ asking'["reconnect"] = asking["reconnect"]
      BY <3>2, GoToAsks
    <3> QED  BY <2>2, <3>1, <3>3 DEF NobodyWhileLoading, initialLoading
  <2> QED  BY <2>1, <2>2
<1>8. CASE clearSavedContract
  <2>1. GoTo(asking, "dashboard", walletAddress, connectedFlag) /\ ~initialLoading /\ UNCHANGED <<account, walletAddress>>
    BY <1>8 DEF clearSavedContract, Mounted, extensionVars
  <2> QED  BY <2>1, GoToAsks DEF NobodyWhileLoading, initialLoading
<1>9. ASSUME NEW page \in Page, handlePageChange(page) PROVE SessionInv'
  <2>1. GoTo(asking, page, walletAddress, connectedFlag) /\ ~initialLoading /\ UNCHANGED <<account, walletAddress>>
    BY <1>9 DEF handlePageChange, extensionVars
  <2> QED  BY <2>1, GoToAsks DEF NobodyWhileLoading, initialLoading
<1>10. CASE handleSessionExpired
  <2>1. GoTo(asking, "connect-wallet", Nobody, connectedFlag) /\ walletAddress' = Nobody
    BY <1>10 DEF handleSessionExpired
  <2>2. /\ asking' = [r \in ExtensionRequest |-> asking'[r]]
        /\ asking'["reconnect"] = asking["reconnect"]
    BY <2>1, GoToAsks
  <2>3. ASSUME initialLoading, NEW r \in ExtensionRequest \ {"reconnect"} PROVE asking'[r] = Unasked
    BY <2>1, <2>3 DEF GoTo, NobodyWhileLoading, ExtensionRequest
  <2> QED  BY <2>1, <2>2, <2>3 DEF NobodyWhileLoading, initialLoading
<1>11. CASE \/ AuthorizationRevoked \/ NetworkChanged \/ NetworkPoll \/ refreshWalletNetwork \/ SaveShortcut
            \/ RequestSucceeds \/ ToastCloses
            \/ \E value \in ContractId \cup {Unset, Garbled} : handleContractChange(value)
            \/ \E c \in ContractId : fetchRate(c) \/ fetchStatus(c)
  <2>1. UNCHANGED <<account, walletVars>>
    BY <1>11 DEF AuthorizationRevoked, NetworkChanged, NetworkPoll, refreshWalletNetwork, SaveShortcut,
       RequestSucceeds, ToastCloses, handleContractChange, fetchRate, fetchStatus, extensionVars
  <2> QED  BY <2>1 DEF walletVars, NobodyWhileLoading, initialLoading
<1> QED  BY <1>1, <1>2, <1>3, <1>4, <1>5, <1>6, <1>7, <1>8, <1>9, <1>10, <1>11 DEF SessionNext

-----------------------------------------------------------------------------
(***************************************************************************)
(* The inbox.  Every conversion of a message keeps a verdict only if the   *)
(* message says it; the list is cut at its old end.                        *)
(***************************************************************************)

InboxEntry == [type : {"pending", "confirmed", "failed", "info"}, read : BOOLEAN]

InboxInv == inbox \in Seq(InboxEntry) /\ InboxIsHonest

\* Neither the hook nor App makes a verdict of a message that says something else.
LEMMA VerdictsAreSaid ==
    ASSUME NEW p \in Push
    PROVE  /\ TypeOf(p) \in {"pending", "confirmed", "failed", "info"}
           /\ TypeOf(p) \in {"confirmed", "failed"} => p.says = TypeOf(p)
<1> DEFINE type == p.type
           says == p.says
<1>1. type \in {"notification", "finality_update", "transaction_status"}
  <2> DEFINE Said(t, y) == [type |-> t, says |-> y]
  <2>1. \A t, y : Said(t, y).type = t  OBVIOUS
  <2>2. p \in {Said("notification", "confirmed"), Said("notification", "distribution_completed"),
               Said("finality_update", "confirmed"), Said("finality_update", "failed"),
               Said("finality_update", "timeout"), Said("transaction_status", "pending"),
               Said("transaction_status", "confirmed")}
    BY DEF Push
  <2> HIDE DEF Said
  <2> QED  BY <2>1, <2>2
<1>2. TypeOf(p) = CASE type = "notification" -> IF says \in {"pending", "confirmed", "failed"} THEN says ELSE "info"
                    [] type = "finality_update" -> IF says \in {"confirmed", "failed"} THEN says ELSE "info"
                    [] type = "transaction_status" -> IF says \in {"pending", "failed"} THEN says ELSE "info"
  BY DEF TypeOf
<1> HIDE DEF type
<1> QED  BY <1>1, <1>2

LEMMA InboxStep == ASSUME InboxInv, FeedNext PROVE InboxInv'
<1> USE DEF InboxInv
<1>1. ASSUME NEW s \in Slot, onopen(s) \/ ConnectionLost(s) \/ CloseCompletes(s) \/ ReconnectTimer(s)
      PROVE  InboxInv'
  <2>1. UNCHANGED <<inbox, pushes>>
    BY <1>1 DEF onopen, ConnectionLost, CloseCompletes, ReconnectTimer, onclose
  <2> QED  BY <2>1 DEF InboxIsHonest
<1>2. ASSUME NEW s \in Slot, NEW p \in Push, onmessage(s, p) PROVE InboxInv'
  <2>1. pushes' = pushes \cup {p}  BY <1>2 DEF onmessage
  <2>2. CASE UNCHANGED inbox
    BY <2>1, <2>2 DEF InboxIsHonest
  <2>3. CASE inbox' = addNotification(inbox, TypeOf(p))
    <3> DEFINE fresh == [type |-> TypeOf(p), read |-> FALSE]
               all == <<fresh>> \o inbox
               n == IF Len(inbox) < MaxHistory THEN Len(inbox) + 1 ELSE MaxHistory
    <3>1. fresh \in InboxEntry  BY VerdictsAreSaid DEF InboxEntry
    <3>2. /\ all \in Seq(InboxEntry) /\ Len(all) = Len(inbox) + 1 /\ all[1] = fresh
          /\ \A i \in 2..Len(all) : all[i] = inbox[i - 1] /\ i - 1 \in DOMAIN inbox
      BY <3>1
    <3>3. n \in Nat /\ n <= Len(all)  BY <3>2, FeedAssumption
    <3>4. inbox' = SubSeq(all, 1, n)  BY <2>3 DEF addNotification
    <3>5. fresh.type = TypeOf(p)  OBVIOUS
    <3> HIDE DEF all, n, fresh
    <3>6. inbox' \in Seq(InboxEntry) /\ \A i \in DOMAIN inbox' : i \in 1..Len(all) /\ inbox'[i] = all[i]
      BY <3>2, <3>3, <3>4
    <3>7. ASSUME NEW i \in DOMAIN inbox', inbox'[i].type \in {"confirmed", "failed"}
          PROVE  \E q \in pushes' : q.says = inbox'[i].type
      <4>1. CASE i = 1
        BY <2>1, <3>2, <3>5, <3>6, <3>7, <4>1, VerdictsAreSaid
      <4>2. CASE i # 1
        <5>1. i \in 2..Len(all)  BY <3>2, <3>6, <4>2
        <5>2. inbox'[i] = inbox[i - 1] /\ i - 1 \in DOMAIN inbox  BY <3>2, <3>6, <5>1
        <5> QED  BY <2>1, <3>7, <5>2 DEF InboxIsHonest
      <4> QED  BY <4>1, <4>2
    <3> QED  BY <3>6, <3>7 DEF InboxIsHonest
  <2> QED  BY <1>2, <2>2, <2>3 DEF onmessage
<1>3. ASSUME NEW w \in User, WalletSwitches(w) PROVE InboxInv'
  BY <1>3 DEF WalletSwitches, InboxIsHonest
<1>4. ASSUME NEW i \in 1..MaxHistory, markAsRead(i) PROVE InboxInv'
  <2>1. i \in DOMAIN inbox /\ inbox' = [inbox EXCEPT ![i].read = TRUE] /\ UNCHANGED pushes
    BY <1>4 DEF markAsRead, InboxBecomes
  <2> DEFINE seen == [inbox[i] EXCEPT !.read = TRUE]
  <2>4. inbox[i] \in InboxEntry  BY <2>1
  <2>5. seen \in InboxEntry /\ seen.type = inbox[i].type  BY <2>4 DEF InboxEntry
  <2>6. inbox' = [inbox EXCEPT ![i] = seen]  BY <2>1
  <2> HIDE DEF seen
  <2>7. PICK n \in Nat : inbox \in [1..n -> InboxEntry]  BY DEF InboxInv
  <2>2. inbox' \in Seq(InboxEntry) /\ DOMAIN inbox' = DOMAIN inbox
    <3>1. inbox' \in [1..n -> InboxEntry]  BY <2>5, <2>6, <2>7
    <3> QED  BY <2>7, <3>1
  <2>3. \A j \in DOMAIN inbox : inbox'[j].type = inbox[j].type
    BY <2>1, <2>5, <2>6
  <2> QED  BY <2>1, <2>2, <2>3 DEF InboxIsHonest
<1>5. CASE clearAllNotifications
  BY <1>5 DEF clearAllNotifications, InboxBecomes, InboxIsHonest
<1> QED  BY <1>1, <1>2, <1>3, <1>4, <1>5 DEF FeedNext, handleNotificationClick, NotificationToastCloses

\* A form acts for the account the extension signs with, and the inbox shows no
\* verdict the backend did not push: for every set of accounts, pages, sockets and
\* messages (App.tsx, WalletConnect.tsx, useWebSocket, NotificationContext.tsx).
THEOREM TheShellIsHonest == FrontendSpec => []ShellIsHonest
<1>1. FrontendInit => SessionInv /\ InboxInv
  <2> SUFFICES ASSUME FrontendInit PROVE SessionInv /\ InboxInv  OBVIOUS
  <2>1. SessionInv
    BY DEF FrontendInit, SessionInit, SessionInv, NobodyWhileLoading, ExtensionRequest
  <2>2. inbox = << >>  BY DEF FrontendInit, FeedInit
  <2> QED  BY <2>1, <2>2 DEF InboxInv, InboxIsHonest
<1>2. SessionInv /\ InboxInv /\ [FrontendNext]_mcVars => SessionInv' /\ InboxInv'
  <2> SUFFICES ASSUME SessionInv, InboxInv, [FrontendNext]_mcVars PROVE SessionInv' /\ InboxInv'  OBVIOUS
  <2>1. SessionInv'
    <3>1. CASE UNCHANGED sessionVars
      BY <3>1 DEF sessionVars, extensionVars, walletVars, SessionInv, NobodyWhileLoading, initialLoading
    <3> QED  BY <3>1, PageFrame, SessionStep
  <2>2. InboxInv'
    <3>1. CASE UNCHANGED feedVars
      BY <3>1 DEF feedVars, InboxInv, InboxIsHonest
    <3> QED  BY <3>1, PageFrame, InboxStep
  <2> QED  BY <2>1, <2>2
<1>3. SessionInv /\ InboxInv => ShellIsHonest
  BY DEF SessionInv, InboxInv, ShellIsHonest, FormsActForTheAccount, Mounted
<1> QED  BY <1>1, <1>2, <1>3, PTL DEF FrontendSpec

-----------------------------------------------------------------------------
(***************************************************************************)
(* The form that sets a contract up.  Submissions overlap and the form may *)
(* be mounted anew, so the argument follows a payload through its          *)
(* submission: what is sent has passed the server's schema, what was       *)
(* confirmed was committed, and only that is revealed; a ledger's          *)
(* commitment is one of those made to its contract.                        *)
(***************************************************************************)

Row == [address : AddressText, basisPoints : Percentage \cup {Blank}]
RowList == {rows \in Seq(Row) : Len(rows) <= MAX_COLLABORATORS}
Payload == [collaborators : Seq(AddressText), shares : Seq(Int)]
SubmissionRecord == [at : {"idle", "building", "signing", "sent"}, contract : SetupContract, payload : Payload, reveal : BOOLEAN, here : BOOLEAN]

SetupTypeOK ==
    /\ collaborators \in RowList /\ collaborators # << >>
    /\ draftStore \in RowList /\ pendingDraft \in RowList
    /\ pendingCommit \in Payload /\ installed \in [SetupContract -> Payload]
    /\ commitment \in [SetupContract -> Payload] /\ everCommitted \in [SetupContract -> SUBSET Payload]
    /\ setupContract \in SetupContract
    /\ submissions \in [Submission -> SubmissionRecord]
    /\ saveTimer \in BOOLEAN /\ cleared \in BOOLEAN

Committed(p) == \E c \in SetupContract : p \in everCommitted[c]

PayloadsAreFollowed ==
    /\ pendingCommit # NoPayload => Committed(pendingCommit)
    /\ \A c \in SetupContract :
          /\ commitment[c] # NoPayload => commitment[c] \in everCommitted[c]
          /\ installed[c] # NoPayload => installed[c] \in everCommitted[c] /\ initializeSchema(installed[c])
    /\ \A t \in Submission :
          LET s == submissions[t]
          IN  /\ s.at # "idle" /\ s.reveal => Committed(s.payload)
              /\ s.at = "sent" => Committed(s.payload)
              /\ s.at \in {"signing", "sent"} => initializeSchema(s.payload)

SetupInv == SetupTypeOK /\ PayloadsAreFollowed /\ DraftKeepsUp

LEMMA SetupConstants ==
    /\ MAX_COLLABORATORS \in Nat /\ MAX_COLLABORATORS >= 1
    /\ \A p \in Percentage : p \in Nat
    /\ NoAddress \notin Account
    /\ ShownFirst \in SetupContract
  BY SetupAssumption DEF ShownFirst

LEMMA RestingIsRecord == NoPayload \in Payload /\ Resting \in SubmissionRecord
  BY SetupConstants DEF NoPayload, Payload, Resting, SubmissionRecord

\* A form with one empty row is not complete.
LEMMA BlankFormIsRows == <<EmptyRow>> \in RowList /\ <<EmptyRow>> # << >> /\ << >> \in RowList
<1>1. EmptyRow \in Row  BY DEF EmptyRow, Row, AddressText
<1>2. <<EmptyRow>> \in Seq(Row) /\ Len(<<EmptyRow>>) = 1 /\ << >> \in Seq(Row) /\ Len(<< >>) = 0
  BY <1>1
<1>3. MAX_COLLABORATORS \in Nat /\ MAX_COLLABORATORS >= 1  BY SetupConstants
<1> QED  BY <1>2, <1>3 DEF RowList

\* Any edit that leaves rows sets the timer, and what is stored stays.
LEMMA EditKeeps ==
    ASSUME SetupInv, NEW rows \in RowList, rows # << >>, Edited(rows)
    PROVE  SetupInv'
  BY DEF SetupInv, SetupTypeOK, PayloadsAreFollowed, Committed, DraftKeepsUp, Edited, chainVars

LEMMA RowChanges ==
    ASSUME NEW rows \in RowList, rows # << >>, NEW i \in DOMAIN rows
    PROVE  /\ \A a \in AddressText : [rows EXCEPT ![i].address = a] \in RowList \ {<< >>}
           /\ \A p \in Percentage \cup {Blank} : [rows EXCEPT ![i].basisPoints = p] \in RowList \ {<< >>}
           /\ Len(rows) > 1 => RemoveAt(rows, i) \in RowList \ {<< >>}
           /\ Len(rows) < MAX_COLLABORATORS => Append(rows, EmptyRow) \in RowList \ {<< >>}
<1>1. rows \in Seq(Row) /\ Len(rows) \in Nat /\ Len(rows) <= MAX_COLLABORATORS /\ rows[i] \in Row /\ i \in 1..Len(rows)
  BY DEF RowList
<1>2. ASSUME NEW row \in Row PROVE [rows EXCEPT ![i] = row] \in RowList \ {<< >>}
  <2>1. [rows EXCEPT ![i] = row] \in [1..Len(rows) -> Row]  BY <1>1
  <2> QED  BY <1>1, <2>1 DEF RowList
<1>3. ASSUME NEW a \in AddressText PROVE [rows EXCEPT ![i].address = a] \in RowList \ {<< >>}
  <2>1. [rows[i] EXCEPT !.address = a] \in Row  BY <1>1 DEF Row
  <2> QED  BY <1>2, <2>1
<1>4. ASSUME NEW p \in Percentage \cup {Blank} PROVE [rows EXCEPT ![i].basisPoints = p] \in RowList \ {<< >>}
  <2>1. [rows[i] EXCEPT !.basisPoints = p] \in Row  BY <1>1 DEF Row
  <2> QED  BY <1>2, <2>1
<1>5. ASSUME Len(rows) > 1 PROVE RemoveAt(rows, i) \in RowList \ {<< >>}
  <2> DEFINE before == SubSeq(rows, 1, i - 1)
             after == SubSeq(rows, i + 1, Len(rows))
  <2>1. before \in Seq(Row) /\ Len(before) = i - 1  BY <1>1
  <2>2. after \in Seq(Row) /\ Len(after) = Len(rows) - i  BY <1>1
  <2>3. RemoveAt(rows, i) = before \o after  BY DEF RemoveAt
  <2> HIDE DEF before, after
  <2>4. before \o after \in Seq(Row) /\ Len(before \o after) = Len(rows) - 1  BY <1>1, <2>1, <2>2
  <2>5. Len(<< >>) = 0  OBVIOUS
  <2> QED  BY <1>1, <1>5, <2>3, <2>4, <2>5, SetupConstants DEF RowList
<1>6. ASSUME Len(rows) < MAX_COLLABORATORS PROVE Append(rows, EmptyRow) \in RowList \ {<< >>}
  <2>1. EmptyRow \in Row  BY DEF EmptyRow, Row, AddressText
  <2>2. Append(rows, EmptyRow) \in Seq(Row) /\ Len(Append(rows, EmptyRow)) = Len(rows) + 1
    BY <1>1, <2>1
  <2>3. Len(<< >>) = 0  OBVIOUS
  <2> HIDE DEF Row
  <2> QED  BY <1>1, <1>6, <2>2, <2>3, SetupConstants DEF RowList
<1> QED  BY <1>3, <1>4, <1>5, <1>6

\* A step that leaves all but the marks of the rows.
LEMMA MarksKeep ==
    ASSUME SetupInv,
           UNCHANGED <<collaborators, pendingCommit, submissions, chainVars, draftVars>>,
           setupContract' \in SetupContract
    PROVE  SetupInv'
  BY DEF SetupInv, SetupTypeOK, PayloadsAreFollowed, Committed, DraftKeepsUp, IsCompleteValidDraft, Rows, chainVars, draftVars

LEMMA TypeStep == ASSUME SetupInv, TypeNext PROVE SetupInv'
<1>0. collaborators \in RowList /\ collaborators # << >>  BY DEF SetupInv, SetupTypeOK
<1>1. ASSUME NEW i \in Rows, NEW a \in AddressText, EditAddress(i, a) PROVE SetupInv'
  BY <1>0, <1>1, RowChanges, EditKeeps DEF EditAddress, Rows
<1>2. ASSUME NEW i \in Rows, NEW p \in Percentage \cup {Blank}, EditPercentage(i, p) PROVE SetupInv'
  BY <1>0, <1>2, RowChanges, EditKeeps DEF EditPercentage, Rows
<1>3. ASSUME NEW i \in Rows, RefusePercentage(i) \/ \E f \in Field : handleBlur(i, f) PROVE SetupInv'
  BY <1>3, MarksKeep DEF RefusePercentage, handleBlur, SetupInv, SetupTypeOK
<1>4. ASSUME NEW i \in Rows, removeRow(i) PROVE SetupInv'
  BY <1>0, <1>4, RowChanges, EditKeeps DEF removeRow, Rows
<1>5. CASE addRow
  <2>1. 1 \in DOMAIN collaborators  BY <1>0 DEF RowList
  <2> QED  BY <1>0, <1>5, <2>1, RowChanges, EditKeeps DEF addRow
<1>6. ASSUME NEW file \in File, handleImportFile(file) PROVE SetupInv'
  <2>1. FileRow \subseteq Row  BY DEF FileRow, Row
  <2>2. file \in Seq(Row)
    <3>1. \A r \in Row : <<r>> \in Seq(Row)  OBVIOUS
    <3>2. \A r, q \in Row : <<r, q>> \in Seq(Row)  OBVIOUS
    <3>3. (\E r \in FileRow : file = <<r>>) \/ (\E r \in FileRow : \E q \in FileRow : file = <<r, q>>)
      BY DEF File
    <3>4. CASE \E r \in FileRow : file = <<r>>
      BY <2>1, <3>1, <3>4, Zenon
    <3>5. CASE \E r \in FileRow : \E q \in FileRow : file = <<r, q>>
      BY <2>1, <3>2, <3>5, Zenon
    <3> QED  BY <3>3, <3>4, <3>5
  <2>3. file # << >> /\ Len(file) <= MAX_COLLABORATORS /\ Edited(file)
    BY <1>6 DEF handleImportFile, parseRoyaltyConfigImport
  <2> QED  BY <2>2, <2>3, EditKeeps DEF RowList
<1>7. CASE Remount
  <2>1. /\ collaborators' = <<EmptyRow>> /\ pendingCommit' = NoPayload
        /\ saveTimer' = FALSE /\ cleared' = FALSE /\ UNCHANGED <<setupContract, chainVars, draftStore>>
        /\ pendingDraft' \in {draftStore, << >>}
    BY <1>7 DEF Remount, NoDraft
  <2>2. submissions' \in [Submission -> SubmissionRecord]
    BY <1>7, RestingIsRecord DEF Remount, SetupInv, SetupTypeOK, SubmissionRecord
  <2>3. ASSUME NEW t \in Submission
        PROVE  submissions'[t].at # "idle" => /\ submissions'[t].at = submissions[t].at
                                             /\ submissions'[t].payload = submissions[t].payload
                                             /\ submissions'[t].reveal = submissions[t].reveal
    <3>1. submissions[t] \in SubmissionRecord  BY DEF SetupInv, SetupTypeOK
    <3> QED  BY <1>7, <3>1 DEF Remount, Resting, SubmissionRecord
  <2>4. SetupTypeOK'
    BY <2>1, <2>2, RestingIsRecord, BlankFormIsRows DEF SetupInv, SetupTypeOK, chainVars
  <2>5. PayloadsAreFollowed'
    BY <2>1, <2>3 DEF SetupInv, PayloadsAreFollowed, Committed, chainVars
  <2>6. DraftKeepsUp'
    <3>1. ~IsCompleteValidDraft'
      <4>1. 1 \in DOMAIN collaborators' /\ collaborators'[1].address = NoAddress  BY <2>1 DEF EmptyRow
      <4> QED  BY <4>1, SetupConstants DEF IsCompleteValidDraft, Rows
    <3>2. (draftStore # NoDraft => isValidDraft(draftStore))'
      BY <2>1 DEF SetupInv, DraftKeepsUp
    <3> QED  BY <3>1, <3>2 DEF DraftKeepsUp
  <2> QED  BY <2>4, <2>5, <2>6 DEF SetupInv
<1> QED  BY <1>1, <1>2, <1>3, <1>4, <1>5, <1>6, <1>7 DEF TypeNext

\* What the form would send now.
LEMMA SendsPayload == ASSUME SetupInv PROVE PayloadToSend \in Payload
<1>1. PICK n \in Nat : collaborators \in [1..n -> Row]  BY DEF SetupInv, SetupTypeOK, RowList
<1>2. \A i \in 1..n : collaborators[i].address \in AddressText /\ collaborators[i].basisPoints \in Int
  <2>1. \A r \in Row : r.address \in AddressText /\ r.basisPoints \in Percentage \cup {-1}  BY DEF Row, Blank
  <2>2. \A p \in Percentage \cup {-1} : p \in Int  BY SetupConstants
  <2> QED  BY <1>1, <2>1, <2>2
<1>3. AddressesOf(collaborators) \in Seq(AddressText)  BY <1>1, <1>2 DEF AddressesOf
<1>4. \A i \in 1..n : RoundToBasisPoints(collaborators[i].basisPoints) \in Int
  BY <1>2 DEF RoundToBasisPoints
<1>5. SharesOf(collaborators) \in Seq(Int)  BY <1>1, <1>4 DEF SharesOf
<1>6. pendingCommit \in Payload  BY DEF SetupInv, SetupTypeOK
<1> QED  BY <1>3, <1>5, <1>6 DEF PayloadToSend, Payload

LEMMA SubmitStep == ASSUME SetupInv, SubmitNext PROVE SetupInv'
<1>0. SetupTypeOK /\ PayloadsAreFollowed /\ DraftKeepsUp  BY DEF SetupInv
<1>1. CASE RefuseSubmit \/ \E c \in SetupContract : ContractChanges(c)
  BY <1>0, <1>1, MarksKeep DEF RefuseSubmit, ContractChanges, SetupTypeOK
<1>2. ASSUME NEW t \in Submission,
             submit(t) \/ ServerBuilds(t) \/ LedgerTakes(t) \/ SubmissionConfirmed(t) \/ SubmissionFails(t)
      PROVE  SetupInv'
  <2> DEFINE s == submissions[t]
  <2>1. s \in SubmissionRecord  BY <1>0 DEF SetupTypeOK
  <2>2. DraftKeepsUp'
    <3>1. UNCHANGED <<collaborators, draftVars>>
      BY <1>2 DEF submit, ServerBuilds, LedgerTakes, SubmissionConfirmed, SubmissionFails, formVars
    <3> QED  BY <1>0, <3>1 DEF DraftKeepsUp, draftVars, IsCompleteValidDraft, Rows
  <2>3. UNCHANGED <<setupContract, collaborators, draftVars>>
    BY <1>2 DEF submit, ServerBuilds, LedgerTakes, SubmissionConfirmed, SubmissionFails, formVars
  <2>4. CASE submit(t)
    <3> DEFINE sent == [at |-> "building", contract |-> setupContract, payload |-> PayloadToSend,
                       reveal |-> pendingCommit # NoPayload, here |-> TRUE]
    <3>1. sent \in SubmissionRecord  BY <1>0, SendsPayload DEF SubmissionRecord, SetupTypeOK
    <3>2. sent.at = "building" /\ (sent.reveal => Committed(sent.payload))
      BY <1>0 DEF PayloadToSend, PayloadsAreFollowed
    <3>3. submissions' = [submissions EXCEPT ![t] = sent] /\ UNCHANGED <<pendingCommit, chainVars>>
      BY <2>4 DEF submit
    <3> HIDE DEF sent
    <3>4. SetupTypeOK'  BY <1>0, <2>3, <3>1, <3>3 DEF SetupTypeOK, draftVars, chainVars
    <3>5. PayloadsAreFollowed'
      BY <1>0, <3>2, <3>3 DEF SetupTypeOK, PayloadsAreFollowed, Committed, chainVars
    <3> QED  BY <2>2, <3>4, <3>5 DEF SetupInv
  <2>5. CASE ServerBuilds(t)
    <3> DEFINE next == [s EXCEPT !.at = "signing"]
    <3>1. /\ next \in SubmissionRecord /\ next.at = "signing" /\ next.payload = s.payload /\ next.reveal = s.reveal
          /\ s.at = "building" /\ initializeSchema(s.payload)
      BY <2>1, <2>5 DEF SubmissionRecord, ServerBuilds
    <3>2. submissions' = [submissions EXCEPT ![t] = next] /\ UNCHANGED <<pendingCommit, chainVars>>
      BY <2>5 DEF ServerBuilds, formVars
    <3> HIDE DEF next
    <3>3. SetupTypeOK'  BY <1>0, <2>3, <3>1, <3>2 DEF SetupTypeOK, draftVars, chainVars
    <3>4. PayloadsAreFollowed'
      BY <1>0, <3>1, <3>2 DEF SetupTypeOK, PayloadsAreFollowed, Committed, chainVars
    <3> QED  BY <2>2, <3>3, <3>4 DEF SetupInv
  <2>6. CASE LedgerTakes(t)
    <3> DEFINE next == [s EXCEPT !.at = "sent"]
    <3>1. /\ next \in SubmissionRecord /\ next.at = "sent" /\ next.payload = s.payload /\ next.reveal = s.reveal
          /\ s.at = "signing" /\ s.payload \in Payload /\ s.contract \in SetupContract
      BY <2>1, <2>6 DEF SubmissionRecord, LedgerTakes
    <3>2. submissions' = [submissions EXCEPT ![t] = next] /\ UNCHANGED pendingCommit
      BY <2>6 DEF LedgerTakes, formVars
    <3>3. initializeSchema(s.payload)  BY <1>0, <3>1 DEF PayloadsAreFollowed
    <3>4. SetupTypeOK'
      <4>1. /\ commitment' \in [SetupContract -> Payload] /\ installed' \in [SetupContract -> Payload]
            /\ everCommitted' \in [SetupContract -> SUBSET Payload]
        BY <1>0, <2>6, <3>1, RestingIsRecord DEF LedgerTakes, SetupTypeOK
      <4> QED  BY <1>0, <2>3, <3>1, <3>2, <4>1 DEF SetupTypeOK, draftVars
    <3>5. ASSUME NEW c \in SetupContract
          PROVE  /\ everCommitted[c] \subseteq everCommitted'[c]
                 /\ commitment'[c] # NoPayload => commitment'[c] \in everCommitted'[c]
                 /\ installed'[c] # NoPayload => installed'[c] \in everCommitted'[c] /\ initializeSchema(installed'[c])
      <4>1. /\ commitment[c] # NoPayload => commitment[c] \in everCommitted[c]
            /\ installed[c] # NoPayload => installed[c] \in everCommitted[c] /\ initializeSchema(installed[c])
        BY <1>0 DEF PayloadsAreFollowed
      <4>2. CASE s.reveal
        BY <1>0, <2>6, <3>1, <3>3, <4>1, <4>2 DEF LedgerTakes, SetupTypeOK
      <4>3. CASE ~s.reveal
        BY <1>0, <2>6, <3>1, <3>3, <4>1, <4>3 DEF LedgerTakes, SetupTypeOK
      <4> QED  BY <4>2, <4>3
    <3> DEFINE CommittedNow(p) == \E c \in SetupContract : p \in everCommitted'[c]
    <3>6. ASSUME NEW p, Committed(p) PROVE CommittedNow(p)  BY <3>5, <3>6 DEF Committed
    <3>7. CommittedNow(s.payload)
      <4>1. CASE s.reveal
        <5>1. Committed(s.payload)  BY <1>0, <3>1, <4>1 DEF PayloadsAreFollowed
        <5> QED  BY <3>6, <5>1
      <4>2. CASE ~s.reveal
        BY <1>0, <2>6, <3>1, <4>2 DEF LedgerTakes, SetupTypeOK
      <4> QED  BY <4>1, <4>2
    <3> HIDE DEF next
    <3>8. PayloadsAreFollowed'
      <4>1. pendingCommit' # NoPayload => CommittedNow(pendingCommit')
        BY <1>0, <3>2, <3>6 DEF PayloadsAreFollowed
      <4>2. ASSUME NEW u \in Submission
            PROVE  /\ submissions'[u].at # "idle" /\ submissions'[u].reveal => CommittedNow(submissions'[u].payload)
                   /\ submissions'[u].at = "sent" => CommittedNow(submissions'[u].payload)
                   /\ submissions'[u].at \in {"signing", "sent"} => initializeSchema(submissions'[u].payload)
        <5>1. CASE u = t
          BY <1>0, <3>1, <3>2, <3>3, <3>7, <5>1 DEF SetupTypeOK
        <5>2. CASE u # t
          <6>1. submissions'[u] = submissions[u]  BY <3>2, <5>2, <1>0 DEF SetupTypeOK
          <6>2. /\ submissions[u].at # "idle" /\ submissions[u].reveal => Committed(submissions[u].payload)
                /\ submissions[u].at = "sent" => Committed(submissions[u].payload)
                /\ submissions[u].at \in {"signing", "sent"} => initializeSchema(submissions[u].payload)
            BY <1>0 DEF PayloadsAreFollowed
          <6> QED  BY <3>6, <6>1, <6>2
        <5> QED  BY <5>1, <5>2
      <4> QED  BY <3>5, <4>1, <4>2 DEF PayloadsAreFollowed, Committed
    <3> QED  BY <2>2, <3>4, <3>8 DEF SetupInv
  <2>7. CASE SubmissionConfirmed(t) \/ SubmissionFails(t)
    <3>1. submissions' = [submissions EXCEPT ![t] = Resting] /\ UNCHANGED chainVars
      BY <2>7 DEF SubmissionConfirmed, SubmissionFails
    <3>2. \/ pendingCommit' = pendingCommit \/ pendingCommit' = NoPayload
          \/ s.at = "sent" /\ pendingCommit' = s.payload
      BY <2>7 DEF SubmissionConfirmed, SubmissionFails
    <3>3. Resting.at = "idle"  BY DEF Resting
    <3>4. s.payload \in Payload /\ (s.at = "sent" => Committed(s.payload))
      BY <1>0, <2>1 DEF SubmissionRecord, PayloadsAreFollowed
    <3>5. SetupTypeOK'
      BY <1>0, <2>3, <3>1, <3>2, <3>4, RestingIsRecord DEF SetupTypeOK, draftVars, chainVars
    <3>6. PayloadsAreFollowed'
      BY <1>0, <3>1, <3>2, <3>3, <3>4 DEF SetupTypeOK, PayloadsAreFollowed, Committed, chainVars
    <3> QED  BY <2>2, <3>5, <3>6 DEF SetupInv
  <2> QED  BY <1>2, <2>4, <2>5, <2>6, <2>7
<1> QED  BY <1>1, <1>2 DEF SubmitNext

LEMMA DraftStep == ASSUME SetupInv, DraftNext PROVE SetupInv'
<1>0. SetupTypeOK /\ PayloadsAreFollowed /\ DraftKeepsUp  BY DEF SetupInv
<1>1. UNCHANGED <<setupContract, pendingCommit, submissions, chainVars>>
  BY DEF DraftNext, AutosaveFires, acceptDraft, discardDraft, clearSavedDraft, formVars
<1>2. PayloadsAreFollowed'
  BY <1>0, <1>1 DEF PayloadsAreFollowed, Committed, chainVars
<1>3. << >> \in RowList  BY BlankFormIsRows
<1>4. CASE AutosaveFires
  <2>1. UNCHANGED collaborators /\ saveTimer' = FALSE /\ UNCHANGED pendingDraft  BY <1>4 DEF AutosaveFires, formVars
  <2>2. IsCompleteValidDraft' <=> IsCompleteValidDraft  BY <2>1 DEF IsCompleteValidDraft, Rows
  <2>3. CASE IsCompleteValidDraft
    <3>1. draftStore' = collaborators /\ cleared' = FALSE  BY <1>4, <2>3 DEF AutosaveFires
    <3>2. isValidDraft(collaborators)  BY <1>0, <2>3 DEF IsCompleteValidDraft, Rows, isValidDraft, SetupTypeOK
    <3> QED  BY <1>0, <1>1, <1>2, <2>1, <3>1, <3>2 DEF SetupInv, SetupTypeOK, DraftKeepsUp, chainVars
  <2>4. CASE ~IsCompleteValidDraft
    <3>1. UNCHANGED <<draftStore, cleared>>  BY <1>4, <2>4 DEF AutosaveFires
    <3> QED  BY <1>0, <1>1, <1>2, <2>1, <2>2, <2>4, <3>1 DEF SetupInv, SetupTypeOK, DraftKeepsUp, chainVars
  <2> QED  BY <2>3, <2>4
<1>5. CASE acceptDraft
  BY <1>0, <1>1, <1>2, <1>3, <1>5 DEF acceptDraft, SetupInv, SetupTypeOK, DraftKeepsUp, NoDraft, chainVars
<1>6. CASE discardDraft \/ clearSavedDraft
  BY <1>0, <1>1, <1>2, <1>3, <1>6 DEF discardDraft, clearSavedDraft, formVars, SetupInv, SetupTypeOK, DraftKeepsUp,
     NoDraft, chainVars
<1> QED  BY <1>4, <1>5, <1>6 DEF DraftNext

\* The form keeps to what was entered: for every set of accounts, percentages and
\* overlapping submissions, however often it is edited and mounted anew
\* (InitializeForm.tsx, royaltyConfig.ts, useRoyaltyDraft.ts).
THEOREM TheSetupIsFaithful == FrontendSpec => []SetupIsFaithful
<1>1. FrontendInit => SetupInv
  <2> SUFFICES ASSUME SetupInit PROVE SetupInv  BY DEF FrontendInit
  <2>1. SetupTypeOK
    BY RestingIsRecord, BlankFormIsRows, SetupConstants DEF SetupInit, SetupTypeOK, NoDraft
  <2>2. PayloadsAreFollowed
    BY DEF SetupInit, PayloadsAreFollowed, Resting
  <2>3. ~IsCompleteValidDraft
    <3>1. 1 \in DOMAIN collaborators /\ collaborators[1].address = NoAddress  BY DEF SetupInit, EmptyRow
    <3> QED  BY <3>1, SetupConstants DEF IsCompleteValidDraft, Rows
  <2> QED  BY <2>1, <2>2, <2>3 DEF SetupInit, SetupInv, DraftKeepsUp
<1>2. SetupInv /\ [FrontendNext]_mcVars => SetupInv'
  <2> SUFFICES ASSUME SetupInv, [FrontendNext]_mcVars PROVE SetupInv'  OBVIOUS
  <2>1. CASE UNCHANGED setupVars
    BY <2>1, MarksKeep DEF setupVars, formVars, SetupInv, SetupTypeOK
  <2> QED  BY <2>1, PageFrame, TypeStep, SubmitStep, DraftStep
<1>3. SetupInv => SetupIsFaithful
  <2> SUFFICES ASSUME SetupInv PROVE SetupIsFaithful  OBVIOUS
  <2>1. collaborators \in Seq(Row) /\ Len(collaborators) <= MAX_COLLABORATORS /\ collaborators # << >>
    BY DEF SetupInv, SetupTypeOK, RowList
  <2>2. buildRoyaltyConfigExport(collaborators) => parseRoyaltyConfigImport(collaborators)
    BY <2>1 DEF buildRoyaltyConfigExport, parseRoyaltyConfigImport
  <2>3. ASSUME validationIssues = {}, \A i \in Rows : collaborators[i].basisPoints # 0
        PROVE  buildRoyaltyConfigExport(collaborators)
    <3>1. SumsToWhole(collaborators) /\ NoDuplicates(collaborators)  BY <2>3 DEF validationIssues
    <3>2. \A i \in Rows : collaborators[i].address \in Account  BY <2>3 DEF validationIssues
    <3>3. \A i \in Rows : ~getPercentageValidationError(collaborators[i].basisPoints)
      BY <2>3 DEF validationIssues
    <3>4. \A i \in Rows : collaborators[i] \in Row  BY <2>1 DEF Rows
    <3>5. \A i \in Rows : collaborators[i].basisPoints > 0 /\ collaborators[i].basisPoints <= Whole
      <4>1. \A r \in Row : r.basisPoints \in Percentage \cup {-1}  BY DEF Row, Blank
      <4>2. \A p \in Percentage \cup {-1} : p # -1 => p \in Nat  BY SetupConstants
      <4>3. \A i \in Rows : collaborators[i].basisPoints \in Nat /\ collaborators[i].basisPoints # 0
        BY <2>3, <3>3, <3>4, <4>1, <4>2 DEF getPercentageValidationError, Blank
      <4> QED  BY <3>3, <4>3 DEF getPercentageValidationError, Whole
    <3> QED  BY <2>1, <3>1, <3>2, <3>5 DEF buildRoyaltyConfigExport, Rows
  <2>4. ASSUME SubmitEnabled, NEW issue \in validationIssues PROVE issue[1] = 0 \/ issue[2] = "address"
    BY <2>4 DEF SubmitEnabled, hasInvalidPercentages, validationIssues
  <2> QED  BY <2>2, <2>3, <2>4
           DEF SetupInv, PayloadsAreFollowed, Committed, SetupIsFaithful, RevealFollowsItsCommit
<1> QED  BY <1>1, <1>2, <1>3, PTL DEF FrontendSpec

-----------------------------------------------------------------------------
(***************************************************************************)
(* The form that pays.  The phase is the application's and outlives the    *)
(* form, the stage and the flag are the form's; what relates them is which *)
(* payments run, and which of those were made by the form that is mounted: *)
(* none while it does not pay and one while it does.                       *)
(***************************************************************************)

PaymentRecord == [at : {"idle", "building", "signing", "sent", "taken", "confirming", "late"},
                  contract : Contract \cup {NoContract}, here : BOOLEAN]
PayDraft == [tokenId : Token \cup {NoToken}, amount : Nat]

PayTypeOK ==
    /\ contractId \in Contract
    /\ amount \in Nat /\ tokenId \in Token \cup {NoToken}
    /\ drafts \in [Contract -> PayDraft] /\ draftPrompt \in PayDraft
    /\ recipients \in Seq(Nat)
    /\ payments \in [Payment -> PaymentRecord]
    /\ paying \in BOOLEAN

OwnPayments == {p \in Payment : Running(p) /\ payments[p].here}

StatusMatches ==
    /\ paying => \E p \in Payment : OwnPayments = {p}
    /\ ~paying => OwnPayments = {}
    /\ isActive <=> paying
    /\ useIsTransactionInFlight => \E p \in Payment : Running(p)

RecipientsAreKnown == contractId \in recipientsAsk \/ recipients \in {<< >>, Shares[contractId]}

PayInv == PayTypeOK /\ StatusMatches /\ RecipientsAreKnown

LEMMA IdleIsRecord == Idle \in PaymentRecord /\ Idle.at = "idle" /\ NoSavedDraft \in PayDraft
  BY DEF Idle, PaymentRecord, NoSavedDraft, PayDraft, NoAmount

\* A stored draft is a draft.
LEMMA StoredIsDrafts ==
    ASSUME NEW store \in [Contract -> PayDraft], NEW c \in Contract, NEW decided,
           NEW token \in Token \cup {NoToken}, NEW value \in Nat
    PROVE  Stored(store, c, decided, token, value) \in [Contract -> PayDraft]
  BY DEF Stored, PayDraft

LEMMA StatusStays ==
    ASSUME StatusMatches, UNCHANGED <<statusVars, payments>>
    PROVE  StatusMatches'
  BY DEF StatusMatches, statusVars, OwnPayments, Running, isActive, useIsTransactionInFlight

\* The form is mounted anew: what runs goes on without it.
LEMMA RemountDisowns ==
    ASSUME PayTypeOK, StatusMatches, PayRemount
    PROVE  StatusMatches' /\ payments' \in [Payment -> PaymentRecord]
<1>1. /\ stage' = "idle" /\ paying' = FALSE /\ UNCHANGED phase
      /\ payments' = [p \in Payment |-> IF payments[p].at = "idle" THEN Idle ELSE [payments[p] EXCEPT !.here = FALSE]]
  BY DEF PayRemount
<1>2. \A p \in Payment : /\ payments'[p] \in PaymentRecord /\ payments'[p].at = payments[p].at
                         /\ payments[p].at # "idle" => ~payments'[p].here
  <2> SUFFICES ASSUME NEW p \in Payment
               PROVE  /\ payments'[p] \in PaymentRecord /\ payments'[p].at = payments[p].at
                      /\ payments[p].at # "idle" => ~payments'[p].here
    OBVIOUS
  <2>1. payments[p] \in PaymentRecord  BY DEF PayTypeOK
  <2>2. CASE payments[p].at = "idle"
    BY <1>1, <2>1, <2>2, IdleIsRecord
  <2>3. CASE payments[p].at # "idle"
    <3>1. payments'[p] = [payments[p] EXCEPT !.here = FALSE]  BY <1>1, <2>3
    <3> QED  BY <2>1, <2>3, <3>1 DEF PaymentRecord
  <2> QED  BY <2>2, <2>3
<1>3. OwnPayments' = {}
  BY <1>2 DEF OwnPayments, Running
<1>4. (\E p \in Payment : Running(p)) => (\E p \in Payment : Running(p))'
  BY <1>2 DEF Running
<1>5. payments' \in [Payment -> PaymentRecord]
  BY <1>1, <1>2
<1> QED  BY <1>1, <1>3, <1>4, <1>5 DEF StatusMatches, isActive, useIsTransactionInFlight

LEMMA FieldsStep == ASSUME PayInv, FieldsNext PROVE PayInv'
<1>0. PayTypeOK /\ StatusMatches /\ RecipientsAreKnown  BY DEF PayInv
<1>1. NoAmount \in Nat /\ NoToken \in Token \cup {NoToken} /\ << >> \in Seq(Nat)  BY DEF NoAmount
<1>2. ASSUME NEW token \in Token \cup {NoToken}, NEW value \in Nat, SetFields(token, value),
             UNCHANGED <<contractId, recipients, recipientsAsk, paying, payments>>,
             draftPrompt' \in PayDraft, StatusMatches'
      PROVE  PayInv'
  <2>1. drafts' \in [Contract -> PayDraft] /\ tokenId' = token /\ amount' = value
    BY <1>0, <1>2, StoredIsDrafts DEF SetFields, PayTypeOK
  <2> QED  BY <1>0, <1>2, <2>1 DEF PayInv, PayTypeOK, RecipientsAreKnown
<1>3. ASSUME NEW token \in Token \cup {NoToken}, TypeToken(token) PROVE PayInv'
  <2>1. StatusMatches'  BY <1>0, <1>3, StatusStays DEF TypeToken
  <2> QED  BY <1>0, <1>1, <1>2, <1>3, <2>1 DEF TypeToken, statusVars, PayTypeOK
<1>4. ASSUME NEW value \in Amount \cup {NoAmount}, TypeAmount(value) PROVE PayInv'
  <2>1. StatusMatches'  BY <1>0, <1>4, StatusStays DEF TypeAmount
  <2>2. value \in Nat  BY <1>1, PayAssumption
  <2> QED  BY <1>0, <1>2, <1>4, <2>1, <2>2 DEF TypeAmount, statusVars, PayTypeOK
<1>5. CASE restoreDraft
  <2>1. StatusMatches'  BY <1>0, <1>5, StatusStays DEF restoreDraft
  <2>2. draftPrompt.tokenId \in Token \cup {NoToken} /\ draftPrompt.amount \in Nat
    BY <1>0 DEF PayTypeOK, PayDraft
  <2>3. /\ SetFields(draftPrompt.tokenId, draftPrompt.amount) /\ draftPrompt' = NoSavedDraft
        /\ UNCHANGED <<contractId, recipients, recipientsAsk, paying, payments>>
    BY <1>5 DEF restoreDraft, statusVars
  <2> QED  BY <1>2, <2>1, <2>2, <2>3, IdleIsRecord
<1>6. CASE discardPayDraft
  <2>1. StatusMatches'  BY <1>0, <1>6, StatusStays DEF discardPayDraft
  <2>2. drafts' \in [Contract -> PayDraft] /\ draftPrompt' \in PayDraft
    BY <1>0, <1>6, StoredIsDrafts, IdleIsRecord DEF discardPayDraft, PayTypeOK
  <2> QED  BY <1>0, <1>6, <2>1, <2>2
           DEF discardPayDraft, answerVars, statusVars, PayInv, PayTypeOK, RecipientsAreKnown
<1>7. CASE clearForm
  <2>1. /\ SetFields(NoToken, NoAmount) /\ draftPrompt' = NoSavedDraft
        /\ UNCHANGED <<contractId, recipients, recipientsAsk, paying, payments>>
        /\ ~paying /\ phase' = "none" /\ stage' = "idle"
    BY <1>7 DEF clearForm
  <2>2. StatusMatches'
    BY <1>0, <2>1 DEF StatusMatches, OwnPayments, Running, isActive, useIsTransactionInFlight
  <2> QED  BY <1>1, <1>2, <2>1, <2>2, IdleIsRecord
<1>8. CASE BalanceTimerFires \/ \E token \in Token : BalanceAnswers(token)
  <2>1. UNCHANGED <<contractId, fieldVars, recipients, recipientsAsk, statusVars, payments>>
    BY <1>8 DEF BalanceTimerFires, BalanceAnswers
  <2>2. StatusMatches'  BY <1>0, <2>1, StatusStays
  <2> QED  BY <1>0, <2>1, <2>2 DEF fieldVars, statusVars, PayInv, PayTypeOK, RecipientsAreKnown
<1>9. CASE PayRemount
  <2>1. StatusMatches' /\ payments' \in [Payment -> PaymentRecord]  BY <1>0, <1>9, RemountDisowns
  <2>2. /\ tokenId' = NoToken /\ amount' = NoAmount /\ draftPrompt' = drafts[contractId]
        /\ recipients' = << >> /\ paying' = FALSE /\ UNCHANGED <<contractId, drafts>>
    BY <1>9 DEF PayRemount
  <2> QED  BY <1>0, <1>1, <2>1, <2>2 DEF PayInv, PayTypeOK, RecipientsAreKnown
<1> QED  BY <1>3, <1>4, <1>5, <1>6, <1>7, <1>8, <1>9 DEF FieldsNext

LEMMA ContractStep == ASSUME PayInv, ContractNext PROVE PayInv'
<1>0. PayTypeOK /\ StatusMatches /\ RecipientsAreKnown  BY DEF PayInv
<1>1. ASSUME NEW c \in Contract, RecipientsAnswer(c) PROVE PayInv'
  <2>1. UNCHANGED <<contractId, fieldVars, statusVars, payments>> /\ recipientsAsk' = recipientsAsk \ {c}
    BY <1>1 DEF RecipientsAnswer
  <2>2. IF c = contractId THEN recipients' \in {Shares[c], << >>} ELSE recipients' = recipients
    BY <1>1 DEF RecipientsAnswer
  <2>3. Shares[c] \in Seq(Nat)  BY PayAssumption
  <2>4. recipients' \in Seq(Nat)
    <3>1. recipients \in Seq(Nat) /\ << >> \in Seq(Nat)  BY <1>0 DEF PayTypeOK
    <3>2. recipients' = Shares[c] \/ recipients' = << >> \/ recipients' = recipients  BY <2>2
    <3> QED  BY <2>3, <3>1, <3>2
  <2>5. RecipientsAreKnown'  BY <1>0, <2>1, <2>2 DEF RecipientsAreKnown
  <2>6. StatusMatches'  BY <1>0, <2>1, StatusStays
  <2> QED  BY <1>0, <2>1, <2>4, <2>5, <2>6 DEF fieldVars, statusVars, PayInv, PayTypeOK
<1>2. ASSUME NEW c \in Contract, SwitchContract(c) PROVE PayInv'
  <2>1. /\ contractId' = c /\ draftPrompt' = drafts[c] /\ recipientsAsk' = recipientsAsk \cup {c}
        /\ UNCHANGED <<tokenId, amount, recipients, statusVars, payments>>
    BY <1>2 DEF SwitchContract
  <2>2. drafts' \in [Contract -> PayDraft]
    BY <1>0, <1>2, StoredIsDrafts DEF SwitchContract, PayTypeOK
  <2>3. StatusMatches'  BY <1>0, <2>1, StatusStays
  <2> QED  BY <1>0, <2>1, <2>2, <2>3 DEF statusVars, PayInv, PayTypeOK, RecipientsAreKnown
<1> QED  BY <1>1, <1>2 DEF ContractNext

\* A payment goes on: its place changes and it still runs.
LEMMA GoesOn ==
    ASSUME PayTypeOK, StatusMatches, NEW p \in Payment, Running(p),
           NEW at \in {"signing", "sent", "taken", "confirming"},
           payments' = [payments EXCEPT ![p].at = at],
           phase' \in {"none", "signing", "confirming", phase},
           stage' \in {stage} \cup (IF payments[p].here THEN {"submitting", "confirming"} ELSE {}),
           UNCHANGED paying
    PROVE  StatusMatches' /\ payments' \in [Payment -> PaymentRecord]
<1> DEFINE new == [payments[p] EXCEPT !.at = at]
<1>1. payments[p] \in PaymentRecord  BY DEF PayTypeOK
<1>2. new \in PaymentRecord /\ new.at = at /\ new.here = payments[p].here  BY <1>1 DEF PaymentRecord
<1>3. payments' = [payments EXCEPT ![p] = new]  OBVIOUS
<1> HIDE DEF new
<1>4. payments' \in [Payment -> PaymentRecord]  BY <1>2, <1>3 DEF PayTypeOK
<1>5. \A q \in Payment : (Running(q))' <=> Running(q)
  BY <1>2, <1>3 DEF Running, PayTypeOK
<1>6. \A q \in Payment : payments'[q].here = payments[q].here
  BY <1>2, <1>3 DEF PayTypeOK
<1>7. OwnPayments' = OwnPayments
  BY <1>5, <1>6 DEF OwnPayments
<1>8. payments[p].here => paying
  BY DEF StatusMatches, OwnPayments
<1>9. isActive' <=> isActive
  BY <1>8 DEF StatusMatches, isActive
<1> QED  BY <1>4, <1>5, <1>7, <1>9 DEF StatusMatches, useIsTransactionInFlight

\* A payment comes to its end: if it was the form's own, the form pays no longer.
LEMMA ComesToItsEnd ==
    ASSUME PayTypeOK, StatusMatches, NEW p \in Payment, Running(p), NEW new \in PaymentRecord,
           new.at \in {"idle", "late"}, payments' = [payments EXCEPT ![p] = new],
           phase' \in {"none", "confirmed", "failed", "timeout"},
           IF payments[p].here THEN stage' \in {"confirmed", "failed"} ELSE stage' = stage,
           paying' = (paying /\ ~payments[p].here)
    PROVE  StatusMatches' /\ payments' \in [Payment -> PaymentRecord]
<1>1. payments[p] \in PaymentRecord  BY DEF PayTypeOK
<1>2. payments' \in [Payment -> PaymentRecord]  BY DEF PayTypeOK
<1>3. ~Running(p)' /\ \A q \in Payment \ {p} : payments'[q] = payments[q]
  BY DEF Running, PayTypeOK
<1>4. OwnPayments' = OwnPayments \ {p}
  BY <1>3 DEF OwnPayments, Running
<1>5. ~useIsTransactionInFlight'  BY DEF useIsTransactionInFlight
<1>6. CASE payments[p].here
  <2>1. p \in OwnPayments  BY <1>6 DEF OwnPayments
  <2>2. OwnPayments' = {} /\ ~paying' /\ ~isActive'
    BY <1>4, <1>6, <2>1 DEF StatusMatches, isActive
  <2> QED  BY <1>2, <1>5, <2>2 DEF StatusMatches
<1>7. CASE ~payments[p].here
  <2>1. p \notin OwnPayments  BY <1>7 DEF OwnPayments
  <2>2. OwnPayments' = OwnPayments /\ paying' = paying /\ (isActive' <=> isActive)
    BY <1>4, <1>7, <2>1 DEF StatusMatches, isActive, PayTypeOK
  <2> QED  BY <1>2, <1>5, <2>2 DEF StatusMatches
<1> QED  BY <1>6, <1>7

LEMMA PaymentStep == ASSUME PayInv, PaymentNext PROVE PayInv'
<1>0. PayTypeOK /\ StatusMatches /\ RecipientsAreKnown  BY DEF PayInv
<1>1. ASSUME UNCHANGED <<contractId, fieldVars, answerVars>>, StatusMatches', payments' \in [Payment -> PaymentRecord],
             paying' \in BOOLEAN
      PROVE  PayInv'
  BY <1>0, <1>1 DEF fieldVars, answerVars, PayInv, PayTypeOK, RecipientsAreKnown
<1>2. ASSUME NEW p \in Payment, submitPayment(p) PROVE PayInv'
  <2>1. UNCHANGED <<contractId, fieldVars, answerVars>> /\ phase' = "building" /\ payments[p].at = "idle"
    BY <1>2 DEF submitPayment, beginTransaction
  <2>2. CASE paying \/ isActive
    <3>1. UNCHANGED <<stage, paying, payments>>  BY <1>2, <2>2 DEF submitPayment
    <3>2. \E q \in Payment : Running(q)
      BY <1>0, <2>2 DEF StatusMatches, OwnPayments
    <3>3. StatusMatches'
      BY <1>0, <3>1, <3>2 DEF StatusMatches, OwnPayments, Running, isActive
    <3> QED  BY <1>0, <1>1, <2>1, <3>1, <3>3 DEF PayTypeOK
  <2>3. CASE ~(paying \/ isActive)
    <3> DEFINE new == [at |-> "building", contract |-> contractId, here |-> TRUE]
    <3>1. paying' = TRUE /\ stage' = "awaiting_wallet" /\ payments' = [payments EXCEPT ![p] = new]
      BY <1>2, <2>3 DEF submitPayment
    <3>2. new \in PaymentRecord /\ new.at = "building" /\ new.here = TRUE  BY <1>0 DEF PaymentRecord, PayTypeOK
    <3> HIDE DEF new
    <3>3. payments' \in [Payment -> PaymentRecord]  BY <1>0, <3>1, <3>2 DEF PayTypeOK
    <3>4. Running(p)' /\ payments'[p].here /\ \A q \in Payment \ {p} : payments'[q] = payments[q]
      BY <1>0, <3>1, <3>2 DEF Running, PayTypeOK
    <3>5. OwnPayments = {}  BY <1>0, <2>3 DEF StatusMatches
    <3>6. OwnPayments' = {p}
      BY <3>4, <3>5 DEF OwnPayments, Running
    <3>7. StatusMatches'  BY <3>1, <3>4, <3>6 DEF StatusMatches, isActive
    <3> QED  BY <1>1, <2>1, <3>1, <3>3, <3>7
  <2> QED  BY <2>2, <2>3
<1>3. ASSUME NEW p \in Payment, PaymentBuilt(p) \/ PaymentSent(p) \/ PollSucceeds(p) PROVE PayInv'
  <2>1. Running(p) /\ UNCHANGED <<contractId, fieldVars, answerVars, paying>>
    BY <1>3 DEF PaymentBuilt, PaymentSent, PollSucceeds, Running, statusVars
  <2>2. \E at \in {"signing", "sent", "taken", "confirming"} : payments' = [payments EXCEPT ![p].at = at]
    BY <1>3 DEF PaymentBuilt, PaymentSent, PollSucceeds
  <2>3. /\ phase' \in {"none", "signing", "confirming", phase}
        /\ stage' \in {stage} \cup (IF payments[p].here THEN {"submitting", "confirming"} ELSE {})
    BY <1>3 DEF PaymentBuilt, PaymentSent, PollSucceeds, statusVars, updatePhase, setStage
  <2>4. StatusMatches' /\ payments' \in [Payment -> PaymentRecord]
    BY <1>0, <2>1, <2>2, <2>3, GoesOn
  <2> QED  BY <1>0, <1>1, <2>1, <2>4 DEF PayTypeOK
<1>4. ASSUME NEW p \in Payment, PaymentTaken(p) PROVE PayInv'
  <2>1. UNCHANGED <<contractId, fieldVars, answerVars, statusVars>>  BY <1>4 DEF PaymentTaken
  <2>2. CASE payments[p].at = "sent"
    <3>1. payments' = [payments EXCEPT ![p].at = "taken"] /\ Running(p)
      BY <1>4, <2>2 DEF PaymentTaken, Running
    <3>2. StatusMatches' /\ payments' \in [Payment -> PaymentRecord]
      BY <1>0, <2>1, <3>1, GoesOn DEF statusVars
    <3> QED  BY <1>0, <1>1, <2>1, <3>2 DEF PayTypeOK, statusVars
  <2>3. CASE payments[p].at = "late"
    <3>1. payments' = [payments EXCEPT ![p] = Idle]  BY <1>4, <2>3 DEF PaymentTaken
    <3>2. payments' \in [Payment -> PaymentRecord]  BY <1>0, <3>1, IdleIsRecord DEF PayTypeOK
    <3>3. ~Running(p) /\ ~Running(p)' /\ \A q \in Payment \ {p} : payments'[q] = payments[q]
      BY <1>0, <2>3, <3>1, IdleIsRecord DEF PayTypeOK, Running
    <3>4. OwnPayments' = OwnPayments /\ ((\E q \in Payment : Running(q)) => (\E q \in Payment : Running(q))')
      BY <3>3 DEF OwnPayments, Running
    <3>5. StatusMatches'
      BY <1>0, <2>1, <3>4 DEF statusVars, StatusMatches, isActive, useIsTransactionInFlight
    <3> QED  BY <1>0, <1>1, <2>1, <3>2, <3>5 DEF PayTypeOK, statusVars
  <2> QED  BY <1>4, <2>2, <2>3 DEF PaymentTaken
<1>5. ASSUME NEW p \in Payment, PaymentConfirmed(p) PROVE PayInv'
  <2> DEFINE here == payments[p].here
             removed == [drafts EXCEPT ![payments[p].contract] = NoSavedDraft]
  <2>1. Running(p)  BY <1>5 DEF PaymentConfirmed, Running
  <2>2. /\ payments' = [payments EXCEPT ![p] = Idle] /\ phase' \in {"none", "confirmed"}
        /\ IF here THEN stage' = "confirmed" ELSE stage' = stage
        /\ paying' = (paying /\ ~here)
    BY <1>5 DEF PaymentConfirmed, updatePhase, setStage
  <2>3. StatusMatches' /\ payments' \in [Payment -> PaymentRecord]
    BY <1>0, <2>1, <2>2, IdleIsRecord, ComesToItsEnd
  <2>4. removed \in [Contract -> PayDraft]  BY <1>0, IdleIsRecord DEF PayTypeOK
  <2>5. drafts' = Stored(removed, contractId, here /\ draftDecisionMade, NoToken, NoAmount)
    BY <1>5 DEF PaymentConfirmed
  <2>6. /\ tokenId' = (IF here THEN NoToken ELSE tokenId) /\ amount' = (IF here THEN NoAmount ELSE amount)
        /\ UNCHANGED <<contractId, draftPrompt, recipients, recipientsAsk>>
    BY <1>5 DEF PaymentConfirmed
  <2> HIDE DEF removed
  <2>7. drafts' \in [Contract -> PayDraft]  BY <1>0, <2>4, <2>5, StoredIsDrafts DEF PayTypeOK, NoAmount
  <2> QED  BY <1>0, <2>2, <2>3, <2>6, <2>7 DEF PayInv, PayTypeOK, RecipientsAreKnown, NoAmount
<1>6. ASSUME NEW p \in Payment, PaymentFails(p) \/ PaymentRefused(p) \/ PaymentIsLost(p) PROVE PayInv'
  <2> DEFINE late == [payments[p] EXCEPT !.at = "late"]
  <2>1. payments[p] \in PaymentRecord  BY <1>0 DEF PayTypeOK
  <2>2. late \in PaymentRecord /\ late.at = "late"  BY <2>1 DEF PaymentRecord
  <2>3. PICK left \in {Idle, late}, next \in Failure : Running(p) /\ PaymentEnds(p, left, next)
    BY <1>6 DEF PaymentFails, PaymentRefused, PaymentIsLost, Failure, Running
  <2> HIDE DEF late
  <2>4. left \in PaymentRecord /\ left.at \in {"idle", "late"}
    BY <2>2, <2>3, IdleIsRecord
  <2>5. /\ Running(p) /\ payments' = [payments EXCEPT ![p] = left]
        /\ phase' \in {"none", "failed", "timeout"}
        /\ IF payments[p].here THEN stage' = "failed" ELSE stage' = stage
        /\ paying' = (paying /\ ~payments[p].here)
        /\ UNCHANGED <<contractId, fieldVars, answerVars>>
    BY <2>3 DEF PaymentEnds, Failure, updatePhase, setStage
  <2>6. StatusMatches' /\ payments' \in [Payment -> PaymentRecord]
    BY <1>0, <2>4, <2>5, ComesToItsEnd
  <2> QED  BY <1>1, <2>5, <2>6
<1>7. CASE DismissBadge
  <2>1. phase' = "none" /\ UNCHANGED <<contractId, fieldVars, answerVars, stage, paying, payments>>
    BY <1>7 DEF DismissBadge
  <2>2. StatusMatches'
    BY <1>0, <2>1 DEF StatusMatches, OwnPayments, Running, isActive, useIsTransactionInFlight
  <2> QED  BY <1>0, <1>1, <2>1, <2>2 DEF PayTypeOK
<1>8. CASE DismissBanner
  <2>1. /\ stage \in {"failed", "confirmed"} /\ stage' = "idle"
        /\ UNCHANGED <<contractId, fieldVars, answerVars, phase, paying, payments>>
    BY <1>8 DEF DismissBanner
  <2>2. StatusMatches'
    BY <1>0, <2>1 DEF StatusMatches, OwnPayments, Running, isActive, useIsTransactionInFlight
  <2> QED  BY <1>0, <1>1, <2>1, <2>2 DEF PayTypeOK
<1> QED  BY <1>2, <1>3, <1>4, <1>5, <1>6, <1>7, <1>8 DEF PaymentNext

\* The last recipient takes what the others leave, which is its share when the
\* shares are whole (recipientBreakdown of DistributeForm.tsx).
LEMMA RestIsLastShare ==
    ASSUME PayTypeOK, totalBasisPoints = 10000, NEW i \in DOMAIN recipientBreakdown
    PROVE  recipientBreakdown[i] = amount * recipients[i]
<1> DEFINE n == Len(recipients)
<1>1. amount \in Nat /\ recipients \in Seq(Nat) /\ n \in Nat /\ DOMAIN recipients = 1..n
  BY DEF PayTypeOK
<1>2. amount # NoAmount /\ i \in 1..n
  <2>1. CASE amount = NoAmount
    BY <2>1 DEF recipientBreakdown
  <2>2. CASE amount # NoAmount
    BY <1>1, <2>2 DEF recipientBreakdown
  <2> QED  BY <2>1, <2>2
<1>3. recipientBreakdown[i] = IF i < n THEN sharePayouts[i]
                              ELSE LET rest == amount * 10000 - PayoutsBefore(i) IN IF rest > 0 THEN rest ELSE 0
  BY <1>1, <1>2 DEF recipientBreakdown
<1>4. sharePayouts = [j \in 1..n |-> amount * recipients[j]]
  BY <1>1 DEF sharePayouts
<1>5. CASE i < n
  BY <1>2, <1>3, <1>4, <1>5
<1>6. CASE i = n
  <2> DEFINE before == SumFunctionOnSet(recipients, 1..(n - 1))
  <2>1. IntsOn(recipients, 1..n)  BY <1>1 DEF IntsOn
  <2>2. n \in Nat \ {0}  BY <1>1, <1>2
  <2>3. 10000 = recipients[n] + before /\ before \in Int
    BY <1>1, <2>1, <2>2, SumOfVector DEF totalBasisPoints, SumFunction
  <2>4. IsFiniteSet(1..(n - 1)) /\ IntsOn(recipients, 1..(n - 1))
    <3>1. n - 1 \in Nat  BY <2>2
    <3>2. IsFiniteSet(1..(n - 1))  BY <3>1, CountedSetIsFinite
    <3> QED  BY <1>1, <3>2 DEF IntsOn
  <2>5. SumFunctionOnSet(sharePayouts, 1..(n - 1)) = amount * before
    <3>1. \A j \in 1..(n - 1) : sharePayouts[j] = amount * recipients[j]  BY <1>1, <1>4
    <3>2. amount \in Int  BY <1>1
    <3>3. IntsOn(sharePayouts, 1..(n - 1))
      BY <1>1, <2>4, <3>1, <3>2 DEF IntsOn
    <3> HIDE DEF n
    <3> QED  BY <2>4, <3>1, <3>2, <3>3, SumTimes
  <2>6. recipients[n] \in Nat  BY <1>1, <2>2
  <2>7. amount * 10000 - amount * before = amount * recipients[n]
    <3>1. \A a, b, c \in Int : a * (b + c) - a * c = a * b  OBVIOUS
    <3>2. amount \in Int /\ recipients[n] \in Int /\ before \in Int  BY <1>1, <2>3, <2>6
    <3> HIDE DEF before, n
    <3>3. amount * (recipients[n] + before) - amount * before = amount * recipients[n]  BY <3>1, <3>2
    <3> QED  BY <2>3, <3>3
  <2>8. amount * recipients[n] \in Nat  BY <1>1, <2>6
  <2>9. PayoutsBefore(i) = amount * before  BY <1>6, <2>5 DEF PayoutsBefore
  <2>10. amount * 10000 - PayoutsBefore(i) = amount * recipients[n]  BY <2>7, <2>9
  <2> HIDE DEF before
  <2>11. ~(i < n)  BY <1>6, <2>2
  <2>12. amount * recipients[n] > 0 \/ amount * recipients[n] = 0  BY <2>8
  <2> QED  BY <1>3, <1>6, <2>10, <2>11, <2>12
<1> QED  BY <1>1, <1>2, <1>5, <1>6
-----------------------------------------------------------------------------
(***************************************************************************)
(* The forms of the staff.  The upload: a preview is of the file chosen,   *)
(* so an import that starts from it sends what was previewed.  The other   *)
(* two: the handler works on the entry the fields still hold, and is one   *)
(* row ahead of the ledger while it signs and one transaction ahead of its *)
(* own report while it confirms.                                           *)
(***************************************************************************)

PreviewIsOfTheFile ==
    /\ upPreview \in {NoFile, upFile}
    /\ upStep = "upload" => upPreview = NoFile
    /\ upStep = "importing" => upPreview = upFile /\ upImport = upFile

UploadInv == PreviewIsOfTheFile /\ ImportsWhatWasPreviewed

CountersOK ==
    /\ entries \in Nat /\ entries <= MaxEntries
    /\ entry \in 0 .. entries
    /\ rowsOf \in [Entry -> Nat] /\ taken \in [Entry -> Nat] /\ succeeded \in [Entry -> Nat]

\* No report without a transaction and no transaction without a row; nothing was
\* reported of an entry still in the fields or not yet made.
ReportsFollow ==
    \A e \in Entry :
        /\ succeeded[e] <= 1 /\ succeeded[e] <= taken[e] /\ taken[e] <= rowsOf[e]
        /\ e = entry \/ e > entries => succeeded[e] = 0

HandlerIsAhead ==
    /\ formStep # "idle" => formAsked.entry = entry /\ entry # BlankForm
    /\ formStep \in {"signing", "signing pool"} => taken[entry] + 1 <= rowsOf[entry]
    /\ formStep = "confirming" => succeeded[entry] + 1 <= taken[entry]

StaffInv == CountersOK /\ ReportsFollow /\ HandlerIsAhead

LEMMA UploadStep == ASSUME UploadInv, UploadNext PROVE UploadInv'
<1>0. PreviewIsOfTheFile /\ ImportsWhatWasPreviewed  BY DEF UploadInv
<1>1. ASSUME NEW f \in CsvFile, handleFileSelect(f) PROVE UploadInv'
  BY <1>0, <1>1 DEF handleFileSelect, UploadInv, PreviewIsOfTheFile, ImportsWhatWasPreviewed
<1>2. CASE handlePreview
  BY <1>0, <1>2 DEF handlePreview, UploadInv, PreviewIsOfTheFile, ImportsWhatWasPreviewed
<1>3. CASE handleImport
  BY <1>0, <1>3 DEF handleImport, PreviewPanel, UploadInv, PreviewIsOfTheFile, ImportsWhatWasPreviewed
<1>4. CASE ImportEnds
  <2>1. upPreview = upFile /\ upImport = upFile /\ UNCHANGED <<upFile, upPreview>> /\ upStep' \in {"done", "preview"}
    BY <1>0, <1>4 DEF ImportEnds, PreviewIsOfTheFile
  <2>2. ASSUME NEW i \in upDone' PROVE i.promised = ValidRows[i.file]
    <3>1. i \in upDone \/ i = [file |-> upImport, promised |-> ValidRows[upPreview]]
      BY <1>4, <2>2 DEF ImportEnds
    <3> QED  BY <1>0, <2>1, <3>1 DEF ImportsWhatWasPreviewed
  <2> QED  BY <1>0, <2>1, <2>2 DEF UploadInv, PreviewIsOfTheFile, ImportsWhatWasPreviewed
<1>5. CASE handleReset
  BY <1>0, <1>5 DEF handleReset, PreviewPanel, UploadInv, PreviewIsOfTheFile, ImportsWhatWasPreviewed
<1> QED  BY <1>1, <1>2, <1>3, <1>4, <1>5 DEF UploadNext, handleDrop

\* The other forms leave the upload alone, and the upload them; it only uses up
\* what the user may do.
LEMMA UploadApart ==
    /\ SaleNext \/ PoolNext => UNCHANGED uploadVars
    /\ UploadNext => UNCHANGED staffFormVars
                     /\ (entries' = entries \/ (entries < MaxEntries /\ entries' = entries + 1))
<1>1. SaleNext => UNCHANGED uploadVars
  BY DEF SaleNext, updateField, submitSale, SaleIsWritten, FormRequestFails, SigningFails, SaleIsTaken, SaleIsConfirmed
<1>2. PoolNext => UNCHANGED uploadVars
  BY DEF PoolNext, updateField, submitPool, FormRequestFails, PoolIsBuilt, SigningFails, PoolIsTaken,
     OfficeContractChanges, PoolAnswers
<1>3. UploadNext => /\ UNCHANGED staffFormVars
                    /\ entries' = entries \/ (entries < MaxEntries /\ entries' = entries + 1)
  BY DEF UploadNext, handlePreview, handleImport, ImportEnds, handleReset, handleFileSelect, handleDrop
<1> QED  BY <1>1, <1>2, <1>3

\* Nothing of a form changes but what the user may still do.
LEMMA StaffStays ==
    ASSUME StaffInv, UNCHANGED staffFormVars,
           entries' = entries \/ (entries < MaxEntries /\ entries' = entries + 1)
    PROVE  StaffInv'
<1>1. entries' \in Nat /\ entries' <= MaxEntries /\ entries <= entries' /\ entry' = entry
  BY OfficeAssumption DEF StaffInv, CountersOK, staffFormVars
<1>2. CountersOK'
  BY <1>1 DEF StaffInv, CountersOK, staffFormVars
<1>3. ReportsFollow'
  BY <1>1 DEF StaffInv, CountersOK, ReportsFollow, staffFormVars, Entry
<1>4. HandlerIsAhead'
  BY DEF StaffInv, HandlerIsAhead, staffFormVars
<1> QED  BY <1>2, <1>3, <1>4 DEF StaffInv

LEMMA CountsOne ==
    ASSUME NEW c, NEW d, c \in [Entry -> Nat], NEW e \in Entry, d = [c EXCEPT ![e] = @ + 1]
    PROVE  d \in [Entry -> Nat] /\ d[e] = c[e] + 1 /\ \A x \in Entry : x # e => d[x] = c[x]
  OBVIOUS

LEMMA StaffStep == ASSUME StaffInv, SaleNext \/ PoolNext PROVE StaffInv'
<1>0. CountersOK /\ ReportsFollow /\ HandlerIsAhead  BY DEF StaffInv
<1>1. /\ entries \in Nat /\ entries <= MaxEntries /\ MaxEntries \in Nat /\ entry \in 0 .. entries
      /\ rowsOf \in [Entry -> Nat] /\ taken \in [Entry -> Nat] /\ succeeded \in [Entry -> Nat]
  BY <1>0, OfficeAssumption DEF CountersOK
<1>2. formStep # "idle" => entry \in Entry /\ formAsked.entry = entry
  <2>1. entry # 0 => entry \in Entry  BY <1>1 DEF Entry
  <2>2. formStep # "idle" => entry # 0 /\ formAsked.entry = entry  BY <1>0 DEF HandlerIsAhead, BlankForm
  <2> QED  BY <2>1, <2>2
<1>3. CASE updateField
  <2>1. /\ formStep = "idle" /\ entries < MaxEntries /\ entries' = entries + 1 /\ entry' = entries + 1
        /\ UNCHANGED <<formStep, rowsOf, taken, succeeded>>
    BY <1>3 DEF updateField
  <2> QED  BY <1>0, <1>1, <2>1 DEF StaffInv, CountersOK, ReportsFollow, HandlerIsAhead, Entry
<1>4. ASSUME NEW step \in {"recording", "building"}, isFormValid, FormStarts(step),
             UNCHANGED <<entry, rowsOf, taken, succeeded, entries>>
      PROVE  StaffInv'
  <2>1. formStep' = step /\ formAsked'.entry = entry /\ entry # BlankForm
    BY <1>4 DEF FormStarts, isFormValid
  <2>2. HandlerIsAhead'  BY <1>4, <2>1 DEF HandlerIsAhead
  <2> QED  BY <1>0, <1>4, <2>2 DEF StaffInv, CountersOK, ReportsFollow
<1>5. CASE SaleIsWritten
  <2>1. formStep = "recording" /\ formStep' \in {"signing", "idle"}
        /\ (formStep' = "signing" => UNCHANGED formAsked)
        /\ UNCHANGED <<entry, taken, succeeded, entries>>
    BY <1>5 DEF SaleIsWritten, FormEnds
  <2>2. rowsOf' = [rowsOf EXCEPT ![entry] = @ + 1]
    BY <1>2, <1>5, <2>1 DEF SaleIsWritten, Counted
  <2>3. rowsOf' \in [Entry -> Nat] /\ rowsOf'[entry] = rowsOf[entry] + 1
        /\ \A x \in Entry : x # entry => rowsOf'[x] = rowsOf[x]
    BY <1>1, <1>2, <2>1, <2>2, CountsOne
  <2>4. CountersOK'  BY <1>0, <2>1, <2>3 DEF CountersOK
  <2>5. ReportsFollow'  BY <1>0, <1>1, <1>2, <2>1, <2>3 DEF ReportsFollow
  <2>6. taken'[entry'] + 1 <= rowsOf'[entry']
    <3>1. entry \in Entry /\ UNCHANGED <<entry, taken>>  BY <1>2, <2>1
    <3>2. taken[entry] <= rowsOf[entry] /\ taken[entry] \in Nat /\ rowsOf[entry] \in Nat
      BY <1>0, <1>1, <3>1 DEF ReportsFollow
    <3> QED  BY <2>3, <3>1, <3>2
  <2>7. HandlerIsAhead'  BY <1>0, <2>1, <2>6 DEF HandlerIsAhead
  <2> QED  BY <2>4, <2>5, <2>7 DEF StaffInv
<1>6. CASE FormRequestFails
  BY <1>0, <1>6 DEF FormRequestFails, FormEnds, StaffInv, CountersOK, ReportsFollow, HandlerIsAhead
<1>7. CASE SigningFails
  <2>1. formStep \in {"signing", "signing pool"} /\ formStep' = "idle" /\ UNCHANGED <<entry, rowsOf, succeeded, entries>>
    BY <1>7 DEF SigningFails, FormEnds
  <2>2. UNCHANGED taken \/ taken' = [taken EXCEPT ![entry] = @ + 1]
    BY <1>2, <1>7, <2>1 DEF SigningFails, Counted
  <2>3. /\ taken' \in [Entry -> Nat]
        /\ taken[entry] <= taken'[entry] /\ taken'[entry] <= taken[entry] + 1
        /\ \A x \in Entry : x # entry => taken'[x] = taken[x]
    <3>0. entry \in Entry /\ taken \in [Entry -> Nat]  BY <1>1, <1>2, <2>1
    <3>1. CASE UNCHANGED taken
      <4>1. taken[entry] \in Nat  BY <3>0
      <4> QED  BY <3>0, <3>1, <4>1
    <3>2. CASE taken' = [taken EXCEPT ![entry] = @ + 1]
      <4>1. taken[entry] \in Nat  BY <3>0
      <4>2. taken' \in [Entry -> Nat] /\ taken'[entry] = taken[entry] + 1
            /\ \A x \in Entry : x # entry => taken'[x] = taken[x]
        BY <3>0, <3>2, CountsOne
      <4> QED  BY <4>1, <4>2
    <3> QED  BY <2>2, <3>1, <3>2
  <2>4. CountersOK'  BY <1>0, <2>1, <2>3 DEF CountersOK
  <2>5. ReportsFollow'
    <3>1. entry \in Entry /\ taken[entry] + 1 <= rowsOf[entry]  BY <1>0, <1>2, <2>1 DEF HandlerIsAhead
    <3>2. UNCHANGED <<entry, rowsOf, succeeded, entries>>  BY <2>1
    <3> QED  BY <1>0, <1>1, <2>3, <3>1, <3>2 DEF ReportsFollow
  <2>6. HandlerIsAhead'  BY <2>1 DEF HandlerIsAhead
  <2> QED  BY <2>4, <2>5, <2>6 DEF StaffInv
<1>8. CASE SaleIsTaken
  <2>1. formStep = "signing" /\ formStep' = "confirming" /\ UNCHANGED <<entry, formAsked, rowsOf, succeeded, entries>>
    BY <1>8 DEF SaleIsTaken
  <2>2. taken' = [taken EXCEPT ![entry] = @ + 1]
    BY <1>2, <1>8, <2>1 DEF SaleIsTaken, Counted
  <2>3. taken' \in [Entry -> Nat] /\ taken'[entry] = taken[entry] + 1
        /\ \A x \in Entry : x # entry => taken'[x] = taken[x]
    BY <1>1, <1>2, <2>1, <2>2, CountsOne
  <2>4. CountersOK'  BY <1>0, <2>1, <2>3 DEF CountersOK
  <2>5. ReportsFollow'  BY <1>0, <1>1, <1>2, <2>1, <2>3 DEF ReportsFollow, HandlerIsAhead
  <2>6. HandlerIsAhead'  BY <1>0, <1>1, <1>2, <2>1, <2>3 DEF HandlerIsAhead, ReportsFollow
  <2> QED  BY <2>4, <2>5, <2>6 DEF StaffInv
<1>9. CASE SaleIsConfirmed
  <2>1. formStep = "confirming" /\ formStep' = "idle" /\ UNCHANGED <<rowsOf, taken, entries>>
    BY <1>9 DEF SaleIsConfirmed, FormEnds
  <2>2. \/ UNCHANGED <<succeeded, entry>>
        \/ succeeded' = [succeeded EXCEPT ![entry] = @ + 1] /\ entry' = BlankForm
    BY <1>2, <1>9, <2>1 DEF SaleIsConfirmed, Counted
  <2>3. HandlerIsAhead'  BY <2>1 DEF HandlerIsAhead
  <2>4. CASE UNCHANGED <<succeeded, entry>>
    BY <1>0, <2>1, <2>3, <2>4 DEF StaffInv, CountersOK, ReportsFollow
  <2>5. CASE succeeded' = [succeeded EXCEPT ![entry] = @ + 1] /\ entry' = BlankForm
    <3>1. succeeded' \in [Entry -> Nat] /\ succeeded'[entry] = succeeded[entry] + 1
          /\ \A x \in Entry : x # entry => succeeded'[x] = succeeded[x]
      BY <1>1, <1>2, <2>1, <2>5, CountsOne
    <3>2. succeeded[entry] = 0 /\ succeeded[entry] + 1 <= taken[entry]
      BY <1>0, <1>2, <2>1 DEF ReportsFollow, HandlerIsAhead
    <3>3. CountersOK'  BY <1>1, <2>1, <2>5, <3>1 DEF CountersOK, BlankForm
    <3>4. ReportsFollow'  BY <1>0, <1>1, <1>2, <2>1, <2>5, <3>1, <3>2 DEF ReportsFollow, BlankForm, Entry
    <3> QED  BY <2>3, <3>3, <3>4 DEF StaffInv
  <2> QED  BY <2>2, <2>4, <2>5
<1>10. CASE OfficeContractChanges \/ PoolAnswers
  <2>1. UNCHANGED staffFormVars /\ (entries' = entries \/ (entries < MaxEntries /\ entries' = entries + 1))
    BY <1>10 DEF OfficeContractChanges, PoolAnswers
  <2> QED  BY <2>1, StaffStays
<1>11. CASE PoolIsBuilt
  <2>1. formStep = "building" /\ UNCHANGED <<entry, taken, succeeded, entries>>
    BY <1>11 DEF PoolIsBuilt
  <2>2. \/ formStep' = "idle" /\ UNCHANGED rowsOf
        \/ formStep' = "signing pool" /\ UNCHANGED formAsked /\ rowsOf' = [rowsOf EXCEPT ![entry] = @ + 1]
    BY <1>2, <1>11, <2>1 DEF PoolIsBuilt, FormEnds, Counted
  <2>3. CASE formStep' = "idle" /\ UNCHANGED rowsOf
    BY <1>0, <2>1, <2>3 DEF StaffInv, CountersOK, ReportsFollow, HandlerIsAhead
  <2>4. CASE formStep' = "signing pool" /\ UNCHANGED formAsked /\ rowsOf' = [rowsOf EXCEPT ![entry] = @ + 1]
    <3>1. rowsOf' \in [Entry -> Nat] /\ rowsOf'[entry] = rowsOf[entry] + 1
          /\ \A x \in Entry : x # entry => rowsOf'[x] = rowsOf[x]
      BY <1>1, <1>2, <2>1, <2>4, CountsOne
    <3>2. CountersOK'  BY <1>0, <2>1, <3>1 DEF CountersOK
    <3>3. ReportsFollow'  BY <1>0, <1>1, <1>2, <2>1, <3>1 DEF ReportsFollow
    <3>4. taken'[entry'] + 1 <= rowsOf'[entry']
      <4>1. entry \in Entry /\ UNCHANGED <<entry, taken>>  BY <1>2, <2>1
      <4>2. taken[entry] <= rowsOf[entry] /\ taken[entry] \in Nat /\ rowsOf[entry] \in Nat
        BY <1>0, <1>1, <4>1 DEF ReportsFollow
      <4> QED  BY <3>1, <4>1, <4>2
    <3>5. HandlerIsAhead'  BY <1>0, <2>1, <2>4, <3>4 DEF HandlerIsAhead
    <3> QED  BY <3>2, <3>3, <3>5 DEF StaffInv
  <2> QED  BY <2>2, <2>3, <2>4
<1>12. CASE PoolIsTaken
  <2>1. /\ formStep = "signing pool" /\ formStep' = "idle" /\ entry' = BlankForm /\ UNCHANGED <<rowsOf, entries>>
        /\ taken' = [taken EXCEPT ![entry] = @ + 1] /\ succeeded' = [succeeded EXCEPT ![entry] = @ + 1]
    BY <1>2, <1>12 DEF PoolIsTaken, FormEnds, Counted
  <2>2. taken' \in [Entry -> Nat] /\ taken'[entry] = taken[entry] + 1
        /\ \A x \in Entry : x # entry => taken'[x] = taken[x]
    BY <1>1, <1>2, <2>1, CountsOne
  <2>3. succeeded' \in [Entry -> Nat] /\ succeeded'[entry] = succeeded[entry] + 1
        /\ \A x \in Entry : x # entry => succeeded'[x] = succeeded[x]
    BY <1>1, <1>2, <2>1, CountsOne
  <2>4. succeeded[entry] = 0 /\ taken[entry] + 1 <= rowsOf[entry]
    BY <1>0, <1>2, <2>1 DEF ReportsFollow, HandlerIsAhead
  <2>5. UNCHANGED <<rowsOf, entries>> /\ entry' = 0 /\ entry \in Entry  BY <1>2, <2>1 DEF BlankForm
  <2>6. CountersOK'
    <3>1. 0 \in 0 .. entries  BY <1>1
    <3> QED  BY <1>1, <2>2, <2>3, <2>5, <3>1 DEF CountersOK
  <2>8. ReportsFollow'
    <3> SUFFICES ASSUME NEW e \in Entry
                 PROVE  /\ succeeded'[e] <= 1 /\ succeeded'[e] <= taken'[e] /\ taken'[e] <= rowsOf'[e]
                        /\ e = entry' \/ e > entries' => succeeded'[e] = 0
      BY DEF ReportsFollow
    <3>1. e \in Nat /\ e # 0 /\ ~(entry > entries)  BY <1>1 DEF Entry
    <3>2. /\ succeeded[e] <= 1 /\ succeeded[e] <= taken[e] /\ taken[e] <= rowsOf[e]
          /\ e > entries => succeeded[e] = 0
          /\ succeeded[e] \in Nat /\ taken[e] \in Nat /\ rowsOf[e] \in Nat
      BY <1>0, <1>1 DEF ReportsFollow
    <3> QED  BY <2>2, <2>3, <2>4, <2>5, <3>1, <3>2
  <2>7. HandlerIsAhead'  BY <2>1 DEF HandlerIsAhead
  <2> QED  BY <2>6, <2>7, <2>8 DEF StaffInv
<1>13. CASE submitSale \/ submitPool
  BY <1>4, <1>13 DEF submitSale, submitPool
<1> QED  BY <1>3, <1>5, <1>6, <1>7, <1>8, <1>9, <1>10, <1>11, <1>12, <1>13 DEF SaleNext, PoolNext

\* What the forms show of a payment is so: for every set of contracts, tokens,
\* amounts, files and overlapping payments, the application says in flight only of
\* a payment that runs, previews each collaborator's share of a split that is
\* whole, imports the file previewed and reports an entry as done once, with a row
\* and a transaction behind it (DistributeForm.tsx, BulkContributorUpload.tsx,
\* RecordSecondarySale.tsx, DistributeSecondaryRoyalties.tsx).
THEOREM ThePaymentsAreAsShown == FrontendSpec => []PaymentsAreAsShown
<1> DEFINE Inv == PayInv /\ UploadInv /\ StaffInv
<1>1. FrontendInit => Inv
  <2> SUFFICES ASSUME PayInit, OfficeInit PROVE Inv  BY DEF FrontendInit
  <2>1. FirstContract \in Contract  BY PayAssumption DEF FirstContract
  <2>2. PayTypeOK
    <3>1. drafts \in [Contract -> PayDraft] /\ payments \in [Payment -> PaymentRecord]
      BY IdleIsRecord DEF PayInit
    <3>2. draftPrompt \in PayDraft  BY IdleIsRecord DEF PayInit
    <3>3. amount \in Nat /\ recipients \in Seq(Nat) /\ tokenId \in Token \cup {NoToken} /\ paying \in BOOLEAN
      <4>1. amount = 0 /\ recipients = << >> /\ tokenId = NoToken /\ paying = FALSE  BY DEF PayInit, NoAmount
      <4>2. 0 \in Nat /\ << >> \in Seq(Nat)  OBVIOUS
      <4> QED  BY <4>1, <4>2, Zenon
    <3> QED  BY <2>1, <3>1, <3>2, <3>3 DEF PayInit, PayTypeOK
  <2>3. \A p \in Payment : ~Running(p)
    BY IdleIsRecord DEF PayInit, Running
  <2>4. StatusMatches
    BY <2>3 DEF PayInit, StatusMatches, OwnPayments, isActive, useIsTransactionInFlight
  <2>5. PayInv
    BY <2>2, <2>4 DEF PayInit, PayInv, RecipientsAreKnown
  <2>6. UploadInv
    BY DEF OfficeInit, UploadInv, PreviewIsOfTheFile, ImportsWhatWasPreviewed
  <2>7. StaffInv
    BY OfficeAssumption DEF OfficeInit, StaffInv, CountersOK, ReportsFollow, HandlerIsAhead, BlankForm
  <2> QED  BY <2>5, <2>6, <2>7
<1>2. Inv /\ [FrontendNext]_mcVars => Inv'
  <2> SUFFICES ASSUME Inv, [FrontendNext]_mcVars PROVE Inv'  OBVIOUS
  <2>1. PayInv'
    <3>1. CASE UNCHANGED payVars
      <4>1. StatusMatches'  BY <3>1, StatusStays DEF payVars, PayInv
      <4> QED  BY <3>1, <4>1 DEF payVars, fieldVars, answerVars, statusVars, PayInv, PayTypeOK, RecipientsAreKnown
    <3> QED  BY <3>1, PageFrame, FieldsStep, ContractStep, PaymentStep
  <2>2. UploadInv'
    <3>1. CASE UNCHANGED uploadVars
      BY <3>1 DEF uploadVars, UploadInv, PreviewIsOfTheFile, ImportsWhatWasPreviewed
    <3>2. UNCHANGED officeVars => UNCHANGED uploadVars  BY DEF officeVars
    <3> QED  BY <3>1, <3>2, PageFrame, UploadStep, UploadApart
  <2>3. StaffInv'
    <3>1. UNCHANGED officeVars => UNCHANGED staffFormVars /\ entries' = entries  BY DEF officeVars
    <3> QED  BY <3>1, PageFrame, UploadApart, StaffStays, StaffStep
  <2> QED  BY <2>1, <2>2, <2>3
<1>3. Inv => PaymentsAreAsShown
  <2> SUFFICES ASSUME PayInv, UploadInv, StaffInv PROVE PaymentsAreAsShown  OBVIOUS
  <2>1. InFlightIsRunning
    <3>1. CASE paying
      <4>1. PICK p \in Payment : OwnPayments = {p}  BY <3>1 DEF PayInv, StatusMatches
      <4>2. Cardinality(OwnPayments) = 1  BY <4>1, FS_Singleton
      <4> QED  BY <3>1, <4>2 DEF PayInv, StatusMatches, OwnPayments, InFlightIsRunning
    <3>2. CASE ~paying
      <4>1. Cardinality(OwnPayments) = 0  BY <3>2, FS_EmptySet DEF PayInv, StatusMatches
      <4> QED  BY <3>2, <4>1 DEF PayInv, StatusMatches, OwnPayments, InFlightIsRunning
    <3> QED  BY <3>1, <3>2
  <2>2. PreviewIsOfThisContract
    BY RestIsLastShare DEF PreviewIsOfThisContract, PayInv, RecipientsAreKnown
  <2>3. EntrySucceedsOnce
    BY DEF StaffInv, CountersOK, ReportsFollow, EntrySucceedsOnce
  <2> QED  BY <2>1, <2>2, <2>3 DEF UploadInv, PaymentsAreAsShown
<1> QED  BY <1>1, <1>2, <1>3, PTL DEF FrontendSpec
-----------------------------------------------------------------------------
(***************************************************************************)
(* The pages about earnings.  The dashboard: a load sets every figure, so  *)
(* all are of its contract or nothing.  The chart: every table of rows on  *)
(* its way, kept or charted is one wallet's, cell by cell, so whatever the *)
(* loads interleave to is; its sums then only regroup the cells charted.   *)
(***************************************************************************)

OfOneContract(shown) == \E c : \A f \in Figure : shown[f] \in {c, Zero}

DashboardInv == OfOneContract(figures) /\ \A file \in dashFiles : OfOneContract(file.holds)

ChartDay == (1 - WindowDays)..Today

IsRowsOf(w, rows) ==
    /\ DOMAIN rows \subseteq ChartDay \X Source
    /\ \A k \in DOMAIN rows : rows[k] = Paid(w, k[2], k[1]) /\ rows[k] > 0

\* The contracts charted are those of the rows, or more.
IsCharted(rows, C) == C \subseteq Source /\ (C = {} \/ ContractsIn(rows) \subseteq C)

IsLoad(load) == load.wallet \in Earner /\ IsRowsOf(load.wallet, load.rows)

ChartInv ==
    /\ chartWallet \in Earner
    /\ cached = [w \in Earner |-> cached[w]] /\ \A w \in Earner : IsRowsOf(w, cached[w])
    /\ \A load \in chartLoads : IsLoad(load)
    /\ \E w \in Earner : IsRowsOf(w, snapshots)
    /\ IsCharted(snapshots, chartContracts)

LEMMA RangeIsDays == \A range : getRangeDates(range) \subseteq ChartDay
  BY EarningsAssumption DEF getRangeDates, ChartDay

LEMMA OverlayIsRows ==
    ASSUME NEW w, NEW a, NEW b, IsRowsOf(w, a), IsRowsOf(w, b)
    PROVE  IsRowsOf(w, Overlay(a, b))
  BY DEF IsRowsOf, Overlay

LEMMA NoRowsIsRows == \A w : IsRowsOf(w, NoRows)
  BY DEF IsRowsOf, NoRows

LEMMA EarningsAreRows == ASSUME NEW w, NEW range PROVE IsRowsOf(w, EarningsOf(w, range))
  BY RangeIsDays DEF IsRowsOf, EarningsOf

LEMMA RowsAreOfSources ==
    ASSUME NEW w, NEW rows, IsRowsOf(w, rows)
    PROVE  ContractsIn(rows) \subseteq Source
  BY DEF IsRowsOf, ContractsIn

\* Rows come from contracts the wallet was paid from.
LEMMA RowsAreOfContracts ==
    ASSUME NEW w, NEW rows, IsRowsOf(w, rows)
    PROVE  ContractsIn(rows) \subseteq contractsOf(w)
  BY DEF IsRowsOf, ContractsIn, contractsOf, ChartDay

\* Two figures of one contract, and nothing else, are one value beside Zero.
LEMMA OneContractIsOne ==
    ASSUME NEW shown, OfOneContract(shown)
    PROVE  Cardinality({shown[f] : f \in Figure} \ {Zero}) <= 1
<1>1. PICK c : \A f \in Figure : shown[f] \in {c, Zero}
  BY DEF OfOneContract
<1>2. {shown[f] : f \in Figure} \ {Zero} \in SUBSET {c}
  BY <1>1
<1>3. IsFiniteSet({c}) /\ Cardinality({c}) = 1
  BY FS_Singleton
<1> HIDE DEF Figure
<1> QED  BY <1>2, <1>3, FS_Subset

LEMMA DashboardStep == ASSUME DashboardInv, DashboardNext PROVE DashboardInv'
<1>1. ASSUME NEW c \in Source, NEW fulfilled \in SUBSET Request, DashboardAnswers(c, fulfilled)
      PROVE  DashboardInv'
  <2>1. UNCHANGED dashFiles /\ (figures' = figures \/ figures' = Figures(c, fulfilled))
    BY <1>1 DEF DashboardAnswers
  <2>2. OfOneContract(Figures(c, fulfilled))
    <3>1. ASSUME NEW f \in Figure PROVE Figures(c, fulfilled)[f] \in {c, Zero}
      BY <3>1 DEF Figures, Figure
    <3> QED  BY <3>1 DEF OfOneContract
  <2> QED  BY <2>1, <2>2 DEF DashboardInv
<1>2. CASE handleExportJSON
  <2>1. UNCHANGED figures /\ \A file \in dashFiles' : file.holds = figures
    BY <1>2 DEF handleExportJSON
  <2> QED  BY <2>1 DEF DashboardInv
<1>3. CASE UNCHANGED <<figures, dashFiles>>
  BY <1>3 DEF DashboardInv
<1> QED  BY <1>1, <1>2, <1>3
         DEF DashboardNext, FollowContract, DistributionAnnounced, handleDistributionEvent, setSelectedContract,
             retryDashboard

LEMMA ChartStep == ASSUME ChartInv, ChartNext PROVE ChartInv'
<1>0. /\ chartWallet \in Earner
      /\ cached = [w \in Earner |-> cached[w]] /\ \A w \in Earner : IsRowsOf(w, cached[w])
      /\ \A load \in chartLoads : IsLoad(load)
      /\ \E w \in Earner : IsRowsOf(w, snapshots)
      /\ IsCharted(snapshots, chartContracts)
  BY DEF ChartInv
<1>1. ASSUME NEW w \in Earner, NEW range, loadHistory(w, range), chartWallet' = w,
             UNCHANGED <<snapshots, chartContracts, cached>>
      PROVE  ChartInv'
  <2>1. IsLoad([wallet |-> w, range |-> range, step |-> "asked", rows |-> NoRows])
    BY NoRowsIsRows DEF IsLoad
  <2>2. chartLoads' = chartLoads \cup {[wallet |-> w, range |-> range, step |-> "asked", rows |-> NoRows]}
    BY <1>1 DEF loadHistory
  <2> QED  BY <1>0, <1>1, <2>1, <2>2 DEF ChartInv
<1>2. ASSUME NEW load \in chartLoads, NEW step, NEW rows, IsRowsOf(load.wallet, rows), Step(load, step, rows),
             UNCHANGED <<chartWallet, snapshots, chartContracts, cached>>
      PROVE  ChartInv'
  <2> DEFINE new == [wallet |-> load.wallet, range |-> load.range, step |-> step, rows |-> rows]
  <2>1. load.wallet \in Earner  BY <1>0 DEF IsLoad
  <2>3. IsLoad(new)  BY <1>2, <2>1 DEF IsLoad
  <2>4. chartLoads' = (chartLoads \ {load}) \cup {new}  BY <1>2 DEF Step
  <2> HIDE DEF new
  <2> QED  BY <1>0, <1>2, <2>3, <2>4 DEF ChartInv
<1>3. ASSUME NEW load \in chartLoads PROVE load.wallet \in Earner /\ IsRowsOf(load.wallet, load.rows)
  BY <1>0, <1>3 DEF IsLoad
<1>4. ASSUME NEW w \in Earner, ShowEarner(w) PROVE ChartInv'
  BY <1>1, <1>4 DEF ShowEarner
<1>5. ASSUME NEW range, setRange(range) PROVE ChartInv'
  BY <1>0, <1>1, <1>5 DEF setRange
<1>6. ASSUME NEW load \in chartLoads, ChartAnswers(load) PROVE ChartInv'
  BY <1>2, <1>6, EarningsAreRows DEF ChartAnswers
<1>7. ASSUME NEW load \in chartLoads, mergeSnapshots(load) PROVE ChartInv'
  BY <1>0, <1>2, <1>3, <1>7, OverlayIsRows DEF mergeSnapshots, readCachedSnapshots
<1>8. ASSUME NEW load \in chartLoads, ChartRefused(load) \/ ChartUnreachable(load) PROVE ChartInv'
  <2>1. /\ chartLoads' \subseteq chartLoads /\ UNCHANGED <<chartWallet, cached>>
        /\ \/ UNCHANGED <<snapshots, chartContracts>>
           \/ snapshots' = cached[load.wallet] /\ chartContracts' = ContractsIn(cached[load.wallet])
    BY <1>8 DEF ChartRefused, ChartUnreachable, LoadEnds, readCachedSnapshots
  <2>2. \E w \in Earner : IsRowsOf(w, snapshots')  BY <1>0, <1>3, <2>1
  <2>3. IsCharted(snapshots', chartContracts')
    <3>1. IsRowsOf(load.wallet, cached[load.wallet])  BY <1>0, <1>3
    <3>2. ContractsIn(cached[load.wallet]) \subseteq Source  BY <3>1, RowsAreOfSources
    <3> QED  BY <1>0, <2>1, <3>2 DEF IsCharted
  <2> QED  BY <1>0, <2>1, <2>2, <2>3 DEF ChartInv
<1>9. ASSUME NEW load \in chartLoads, ChartWritten(load) PROVE ChartInv'
  <2>1. /\ chartLoads' \subseteq chartLoads /\ UNCHANGED chartWallet
        /\ snapshots' = load.rows /\ chartContracts' = contractsOf(load.wallet)
        /\ cached' = [cached EXCEPT ![load.wallet] = Overlay(cached[load.wallet], load.rows)]
    BY <1>9 DEF ChartWritten, LoadEnds, writeSnapshots
  <2>2. IsRowsOf(load.wallet, Overlay(cached[load.wallet], load.rows))
    BY <1>0, <1>3, OverlayIsRows
  <2>3. cached' = [w \in Earner |-> cached'[w]] /\ \A w \in Earner : IsRowsOf(w, cached'[w])
    <3> DEFINE merged == Overlay(cached[load.wallet], load.rows)
    <3> HIDE DEF merged
    <3>1. cached' = [w \in Earner |-> IF w = load.wallet THEN merged ELSE cached[w]]
      BY <1>0, <1>3, <2>1 DEF merged
    <3> QED  BY <1>0, <2>2, <3>1 DEF merged
  <2>4. IsCharted(snapshots', chartContracts')
    BY <1>3, <2>1, RowsAreOfContracts DEF IsCharted, contractsOf
  <2> QED  BY <1>0, <1>3, <2>1, <2>3, <2>4 DEF ChartInv
<1>10. ASSUME NEW c, toggleContract(c) PROVE ChartInv'
  BY <1>0, <1>10 DEF toggleContract, ChartInv
<1> QED  BY <1>4, <1>5, <1>6, <1>7, <1>8, <1>9, <1>10 DEF ChartNext

\* The chart regroups the cells it was given: a day sums at most what the rows hold
\* of that day, and the headline and all the days together what they hold of the range.
LEMMA ChartAddsUp ==
    ASSUME NEW w \in Earner, IsRowsOf(w, snapshots), IsCharted(snapshots, chartContracts)
    PROVE  /\ summary.total = Total(snapshots, getRangeDates(chartRange))
           /\ \A d \in DOMAIN chartSeries : chartSeries[d] <= Total(snapshots, {d})
           /\ chartedContracts \subseteq enabledContracts =>
                 Total(snapshots, getRangeDates(chartRange)) = SumFunction(chartSeries)
<1> DEFINE days == getRangeDates(chartRange)
           kept == DOMAIN snapshots
           filled == fillMissingDays(snapshots, days, chartedContracts)
           cells == days \X chartedContracts
           On(d) == {j \in cells : j[1] = d /\ j[2] \in enabledContracts}
           drawn == {k[1] : k \in {j \in cells : j[2] \in enabledContracts}}
<1>1. kept \subseteq ChartDay \X Source /\ \A k \in kept : snapshots[k] \in Nat
  <2>1. kept \subseteq ChartDay \X Source /\ \A k \in kept : snapshots[k] = Paid(w, k[2], k[1])
    BY DEF IsRowsOf
  <2>2. \A d \in ChartDay, c \in Source : Paid(w, c, d) \in Nat
    BY EarningsAssumption DEF ChartDay
  <2> QED  BY <2>1, <2>2
<1>a. chartedContracts \subseteq Source /\ \A k \in kept : k[2] \in chartedContracts
  <2>1. ContractsIn(snapshots) \subseteq Source  BY RowsAreOfSources
  <2>2. chartedContracts \subseteq Source /\ ContractsIn(snapshots) \subseteq chartedContracts
    BY <2>1 DEF chartedContracts, IsCharted
  <2> QED  BY <2>2 DEF ContractsIn
<1>2. IsFiniteSet(ChartDay) /\ IsFiniteSet(Source)
  BY EarningsAssumption, FS_Interval DEF ChartDay
<1>3. IsFiniteSet(kept) /\ IsFiniteSet(cells)
  <2>1. IsFiniteSet(ChartDay \X Source)  BY <1>2, FS_Product
  <2>2. chartedContracts \subseteq Source  BY <1>a
  <2>3. cells \subseteq ChartDay \X Source  BY <2>2, RangeIsDays
  <2> QED  BY <1>1, <2>1, <2>3, FS_Subset
<1>4. /\ DOMAIN filled = cells
      /\ \A k \in cells : filled[k] = IF k \in kept THEN snapshots[k] ELSE 0
  BY DEF fillMissingDays
<1>5. chartSeries = [d \in drawn |-> SumFunctionOnSet(filled, On(d))]
  BY <1>4 DEF chartSeries, filledSnapshots, buildChartSeries
<1>b. summary.total = SumFunctionOnSet(filled, cells)
  <2>1. {j \in DOMAIN filled : j[1] \in days} = cells  BY <1>4
  <2>2. summary.total = Total(filled, days)  BY DEF summary, filledSnapshots, calculatePeriodSummary
  <2> QED  BY <2>1, <2>2 DEF Total
<1> HIDE DEF filled
<1>6. ASSUME NEW T \in SUBSET cells
      PROVE  SumFunctionOnSet(filled, T) = SumFunctionOnSet(snapshots, T \cap kept)
  <2>1. IsFiniteSet(T) /\ IsFiniteSet(T \cap kept)  BY <1>3, FS_Subset
  <2>2. IntsOn(filled, T)  BY <1>1, <1>4 DEF IntsOn
  <2>3. \A x \in T \ (T \cap kept) : filled[x] = 0  BY <1>4
  <2>4. SumFunctionOnSet(filled, T) = SumFunctionOnSet(filled, T \cap kept)
    BY <2>1, <2>2, <2>3, SumOfSupport
  <2>5. IntsOn(filled, T \cap kept) /\ \A x \in T \cap kept : filled[x] = snapshots[x]
    BY <1>4, <2>2 DEF IntsOn
  <2>6. SumFunctionOnSet(filled, T \cap kept) = SumFunctionOnSet(snapshots, T \cap kept)
    BY <2>1, <2>5, SumEqual
  <2> QED  BY <2>4, <2>6
<1>7. ASSUME NEW d \in DOMAIN chartSeries PROVE chartSeries[d] <= Total(snapshots, {d})
  <2> DEFINE all == {j \in kept : j[1] \in {d}}
  <2>1. On(d) \in SUBSET cells /\ On(d) \cap kept \in SUBSET all /\ all \in SUBSET kept  OBVIOUS
  <2>2. chartSeries[d] = SumFunctionOnSet(snapshots, On(d) \cap kept)
    BY <1>5, <1>6, <1>7, <2>1
  <2>3. IsFiniteSet(all) /\ \A x \in all : snapshots[x] \in Nat
    BY <1>1, <1>3, FS_Subset
  <2>4. Total(snapshots, {d}) = SumFunctionOnSet(snapshots, all)  BY DEF Total
  <2> HIDE DEF all, On, kept
  <2> QED  BY <2>1, <2>2, <2>3, <2>4, SumOfPart
<1>c. Total(snapshots, days) = SumFunctionOnSet(filled, cells)
  <2>1. cells \cap kept = {j \in kept : j[1] \in days}
    BY <1>1, <1>a
  <2>2. SumFunctionOnSet(filled, cells) = SumFunctionOnSet(snapshots, cells \cap kept)
    BY <1>6
  <2>3. Total(snapshots, days) = SumFunctionOnSet(snapshots, {j \in kept : j[1] \in days})  BY DEF Total
  <2> QED  BY <2>1, <2>2, <2>3
<1>8. ASSUME chartedContracts \subseteq enabledContracts
      PROVE  Total(snapshots, days) = SumFunction(chartSeries)
  <2> DEFINE class == [j \in cells |-> j[1]]
  <2>1. \A j \in cells : class[j] \in drawn  BY <1>8
  <2>2. \A d \in drawn : chartSeries[d] = SumFunctionOnSet(filled, ClassOf(cells, class, d))
    <3>1. ASSUME NEW d \in drawn PROVE On(d) = ClassOf(cells, class, d)  BY <1>8 DEF ClassOf
    <3> QED  BY <1>5, <3>1
  <2>3. IsFiniteSet(drawn)
    <3>1. drawn \subseteq ChartDay  BY RangeIsDays
    <3> QED  BY <1>2, <3>1, FS_Subset
  <2>4. IntsOn(filled, cells)  BY <1>1, <1>4 DEF IntsOn
  <2>8. DOMAIN chartSeries = drawn  BY <1>5
  <2> HIDE DEF class, cells, drawn, kept
  <2>9. SumFunctionOnSet(chartSeries, drawn) = SumFunctionOnSet(filled, cells)
    BY <1>3, <2>1, <2>2, <2>3, <2>4, SumByClass
  <2> QED  BY <1>c, <2>8, <2>9 DEF SumFunction
<1> QED  BY <1>b, <1>c, <1>7, <1>8

\* The figures of the dashboard are of one contract, and what the browser keeps and
\* charts of a wallet is what that wallet earned and adds up: for every set of
\* contracts and wallets, every range of days and every overlap of loads
\* (EarningsDashboard.tsx, EarningsHistoryChart.tsx, earnings-snapshots-db.ts).
THEOREM TheEarningsAgree == FrontendSpec => []EarningsAgree
<1> DEFINE Inv == DashboardInv /\ ChartInv
<1>1. FrontendInit => Inv
  <2> SUFFICES ASSUME EarningsInit PROVE Inv  BY DEF FrontendInit
  <2>1. DashboardInv
    <3>1. OfOneContract(figures)  BY DEF EarningsInit, OfOneContract
    <3> QED  BY <3>1 DEF EarningsInit, DashboardInv
  <2>2. chartWallet \in Earner  BY EarningsAssumption DEF EarningsInit
  <2>3. \A load \in chartLoads : IsLoad(load)
    BY <2>2, NoRowsIsRows DEF EarningsInit, IsLoad
  <2>4. cached = [v \in Earner |-> NoRows] /\ snapshots = NoRows /\ chartContracts = {}
    BY DEF EarningsInit
  <2>5. ChartInv  BY <2>2, <2>3, <2>4, NoRowsIsRows DEF ChartInv, IsCharted
  <2> QED  BY <2>1, <2>5
<1>2. Inv /\ [FrontendNext]_mcVars => Inv'
  <2> SUFFICES ASSUME Inv, [FrontendNext]_mcVars PROVE Inv'  OBVIOUS
  <2>1. DashboardNext => UNCHANGED chartVars
    BY DEF DashboardNext, FollowContract, DistributionAnnounced, handleDistributionEvent, setSelectedContract,
       retryDashboard, handleExportJSON, DashboardAnswers
  <2>2. ChartNext => UNCHANGED dashVars
    BY DEF ChartNext, ShowEarner, setRange, ChartAnswers, ChartRefused, ChartUnreachable, mergeSnapshots,
       ChartWritten, toggleContract
  <2>3. DashboardInv'
    <3>1. CASE UNCHANGED dashVars  BY <3>1 DEF dashVars, DashboardInv
    <3> QED  BY <2>2, <3>1, PageFrame, DashboardStep DEF earningsVars
  <2>4. ChartInv'
    <3>1. CASE UNCHANGED chartVars  BY <3>1 DEF chartVars, ChartInv
    <3> QED  BY <2>1, <3>1, PageFrame, ChartStep DEF earningsVars
  <2> QED  BY <2>3, <2>4
<1>3. Inv => EarningsAgree
  <2> SUFFICES ASSUME DashboardInv, ChartInv PROVE EarningsAgree  OBVIOUS
  <2>1. FiguresAgree  BY OneContractIsOne DEF DashboardInv, FiguresAgree
  <2>2. PICK w \in Earner : IsRowsOf(w, snapshots)  BY DEF ChartInv
  <2>3. IsCharted(snapshots, chartContracts)  BY DEF ChartInv
  <2>4. KeptIsOfItsWallet
    BY <2>2, <2>3, ChartAddsUp DEF ChartInv, IsRowsOf, KeptIsOfItsWallet
  <2> QED  BY <2>1, <2>4 DEF EarningsAgree
<1> QED  BY <1>1, <1>2, <1>3, PTL DEF FrontendSpec

-----------------------------------------------------------------------------
(***************************************************************************)
(* What the history shows and exports.  A verdict is kept with the row it  *)
(* was read for and the backend gives it once, so it is true for as long   *)
(* as the list lives; and a request carries the contract it asks about, so *)
(* its answer may come after the user has moved on.                        *)
(***************************************************************************)

IsListQuery(q) == q.contract \in HistoryContract /\ q.offset \in Nat /\ q.limit \in Int

\* A page, and every request for one, is of a contract of the ledger.
AsksAreOfContracts ==
    /\ hContract \in HistoryContract /\ hOffset \in Nat
    /\ \A ask \in hAsks : IsListQuery(ask.query)
    /\ "step" \in DOMAIN refreshing
    /\ refreshing.step = "confirm" => IsListQuery(refreshing.query)

\* Rows with their status, as far as the backend has settled it.
IsRealList(txs) ==
    /\ \E n \in Nat : DOMAIN txs = 1..n
    /\ \A i \in DOMAIN txs :
          /\ txs[i].row \in LedgerRows
          /\ txs[i].status \in {"confirmed", "failed"} => rowStatus[txs[i].row.id] = txs[i].status

ListIsReal == DOMAIN rowStatus = {r.id : r \in LedgerRows} /\ IsRealList(listed)

FilesAreOfTheirContracts ==
    /\ \A ask \in exportAsks : \E c \in HistoryContract : ask.query = Query(c, ExportLimit, 0, AllTypes)
    /\ ExportIsOfItsContract

HistoryInv == AsksAreOfContracts /\ ListIsReal /\ FilesAreOfTheirContracts

\* The rows of a contract that pass a filter are rows of the ledger.
LEMMA PassingAreRows ==
    ASSUME NEW q, q.contract \in HistoryContract
    PROVE  Passing(q) \in Seq(LedgerRows)
<1> DEFINE rows == Ledger[q.contract]
           P == {i \in DOMAIN rows : q.filter = AllTypes \/ rows[i].type = q.filter}
<1>1. rows \in Seq(LedgerRows)  BY HistoryAssumption
<1>2. \E n \in Nat : DOMAIN rows = 1..n  BY <1>1
<1>3. \A i \in DOMAIN rows : rows[i] \in LedgerRows  BY <1>1
<1> HIDE DEF rows
<1>4. P \in SUBSET Int /\ IsFiniteSet(P)
  <2>1. PICK n \in Nat : DOMAIN rows = 1..n  BY <1>2
  <2>2. IsFiniteSet(1..n)  BY FS_Interval
  <2> QED  BY <2>1, <2>2, FS_Subset
<1>5. \A p \in P : rows[p] \in LedgerRows  BY <1>3
<1>6. Passing(q) = RowsIn(rows, P)  BY DEF Passing, rows
<1> HIDE DEF P
<1>7. RowsIn(rows, P) \in Seq(LedgerRows)  BY <1>4, <1>5, RowsAreListed
<1> QED  BY <1>6, <1>7

LEMMA AnswersAreRows ==
    ASSUME NEW q, IsListQuery(q)
    PROVE  getTransactionHistory(q) \in Seq(LedgerRows)
<1> DEFINE all == Passing(q)
           m == q.offset + 1
           n == Least(q.offset + parsePagination(q.limit), Len(all))
<1>1. all \in Seq(LedgerRows)  BY PassingAreRows DEF IsListQuery
<1>2. Len(all) \in Nat /\ \A i \in 1..Len(all) : all[i] \in LedgerRows  BY <1>1
<1>3. parsePagination(q.limit) \in Int  BY HistoryAssumption DEF parsePagination, Least, IsListQuery
<1>4. m \in Int /\ m >= 1 /\ n \in Int /\ n <= Len(all)  BY <1>2, <1>3 DEF Least, IsListQuery
<1>5. getTransactionHistory(q) = SubSeq(all, m, n)  BY DEF getTransactionHistory
<1> HIDE DEF all, m, n
<1>6. \A i \in m..n : all[i] \in LedgerRows  BY <1>2, <1>4
<1> QED  BY <1>4, <1>5, <1>6, SubSeqProperties

\* What the backend answers is real when it is answered.
LEMMA PageIsReal ==
    ASSUME ListIsReal, NEW q, IsListQuery(q)
    PROVE  IsRealList(PageOf(q))
<1> DEFINE rows == getTransactionHistory(q)
<1>1. rows \in Seq(LedgerRows)  BY AnswersAreRows
<1>2. PageOf(q) = [i \in DOMAIN rows |-> [row |-> rows[i], status |-> rowStatus[rows[i].id]]]  BY DEF PageOf
<1> HIDE DEF rows
<1>3. \E n \in Nat : DOMAIN rows = 1..n  BY <1>1
<1>4. \A i \in DOMAIN rows : rows[i] \in LedgerRows  BY <1>1
<1> QED  BY <1>2, <1>3, <1>4 DEF IsRealList

\* The order of the list is strict, whichever column it follows.
LEMMA SortingIsStrict ==
    ASSUME NEW txs, NEW view, \E n \in Nat : DOMAIN txs = 1..n,
           \A i \in DOMAIN txs : txs[i].row \in LedgerRows
    PROVE  StrictOrder(DOMAIN txs, {p \in (DOMAIN txs) \X (DOMAIN txs) : SortsBefore(txs, view, p[1], p[2])})
<1> DEFINE P == DOMAIN txs
           key == [i \in P |-> SortKey(txs[i], view)]
           R == {p \in P \X P : SortsBefore(txs, view, p[1], p[2])}
<1>1. \A i \in P : key[i] \in Int /\ key[i] = SortKey(txs[i], view)  BY HistoryAssumption DEF SortKey
<1>2. P \subseteq Int  OBVIOUS
<1>3. \A i, j \in P : <<i, j>> \in R <=> SortsBefore(txs, view, i, j)  OBVIOUS
<1>4. \A i, j \in P : SortsBefore(txs, view, i, j) <=>
                        \/ IF view.direction = "asc" THEN key[i] < key[j] ELSE key[i] > key[j]
                        \/ key[i] = key[j] /\ i < j
  BY <1>1 DEF SortsBefore
<1> HIDE DEF P, key, R
<1>5. \A i, j \in P : <<i, j>> \in R <=>
                        \/ IF view.direction = "asc" THEN key[i] < key[j] ELSE key[i] > key[j]
                        \/ key[i] = key[j] /\ i < j
  BY <1>3, <1>4
<1>6. \A i \in P : key[i] \in Int  BY <1>1
<1>7. \A i \in P : <<i, i>> \notin R  BY <1>2, <1>5, <1>6
<1>8. \A i, j \in P : i # j => <<i, j>> \in R \/ <<j, i>> \in R  BY <1>2, <1>5, <1>6
<1>9. \A i, j, k \in P : <<i, j>> \in R /\ <<j, k>> \in R => <<i, k>> \in R  BY <1>2, <1>5, <1>6
<1>10. StrictOrder(P, R)  BY <1>7, <1>8, <1>9 DEF StrictOrder
<1> QED  BY <1>10 DEF P, R

\* The list on the screen is made of rows of the list that was fetched.
LEMMA ShownAreListed ==
    ASSUME ListIsReal
    PROVE  \A k \in DOMAIN displayedTransactions : \E i \in DOMAIN listed : displayedTransactions[k] = listed[i]
<1> DEFINE shown == {i \in DOMAIN listed : /\ matchesCategory(listed[i].row, hView.category)
                                           /\ matchesSearch(listed[i].row, hView.search)}
           txs == RowsIn(listed, shown)
           P == DOMAIN txs
           order == {p \in P \X P : SortsBefore(txs, hView, p[1], p[2])}
           at == Listing(P, order)
<1>1. shown \subseteq DOMAIN listed  OBVIOUS
<1>2. displayedTransactions = RowsAt(txs, at)  BY DEF displayedTransactions, sortTransactions
<1> HIDE DEF shown
<1>3. shown \in SUBSET Int /\ IsFiniteSet(shown)
  <2>1. PICK n \in Nat : DOMAIN listed = 1..n  BY DEF ListIsReal, IsRealList
  <2>2. IsFiniteSet(1..n)  BY FS_Interval
  <2> QED  BY <1>1, <2>1, <2>2, FS_Subset
<1>4. /\ \E n \in Nat : DOMAIN txs = 1..n
      /\ \A i \in DOMAIN txs : \E p \in shown : txs[i] = listed[p]
  <2>1. txs \in {RowsIn(listed, shown), LatestIn(listed, shown)}  OBVIOUS
  <2> HIDE DEF txs
  <2> QED  BY <1>3, <2>1, RowsAreListed
<1> HIDE DEF txs
<1>5. \A i \in DOMAIN txs : txs[i].row \in LedgerRows  BY <1>1, <1>4 DEF ListIsReal, IsRealList
<1>6. StrictOrder(P, order)  BY <1>4, <1>5, SortingIsStrict
<1>7. IsFiniteSet(P)
  <2>1. PICK n \in Nat : P = 1..n  BY <1>4
  <2>2. IsFiniteSet(1..n)  BY FS_Interval
  <2> QED  BY <2>1, <2>2
<1> HIDE DEF P, order
<1>8. \A k \in DOMAIN at : at[k] \in P  BY <1>6, <1>7, ListingIsExact
<1> HIDE DEF at
<1>9. \A k \in DOMAIN displayedTransactions : k \in DOMAIN at /\ displayedTransactions[k] = txs[at[k]]
  BY <1>2 DEF RowsAt
<1> QED  BY <1>1, <1>4, <1>8, <1>9 DEF P

\* A file is the beginning of what the contract it is named after has to export.
LEMMA ExportIsPrefix ==
    ASSUME NEW c \in HistoryContract, NEW range
    PROVE  IsPrefix(filterByDateRange(getTransactionHistory(Query(c, ExportLimit, 0, AllTypes)), range),
                    filterByDateRange(Ledger[c], range))
<1> DEFINE q == Query(c, ExportLimit, 0, AllTypes)
           L == Ledger[c]
           b == Least(q.offset + parsePagination(q.limit), Len(L))
           head == SubSeq(L, 1, b)
           InRange(i) == range = 0 \/ L[i].at >= range
           P == {i \in DOMAIN L : InRange(i)}
           Q == {i \in P : i <= b}
           all == RowsIn(L, P)
           file == RowsIn(head, Q)
<1>1. L \in Seq(LedgerRows)  BY HistoryAssumption
<1>2. Len(L) \in Nat /\ DOMAIN L = 1..Len(L)  BY <1>1
<1>3. Passing(q) = L
  <2>1. q.contract = c /\ q.filter = AllTypes  BY DEF Query
  <2> HIDE DEF q, L
  <2>2. Passing(q) = RowsIn(L, {i \in DOMAIN L : TRUE})  BY <2>1 DEF Passing, L
  <2>3. {i \in DOMAIN L : TRUE} = DOMAIN L  OBVIOUS
  <2> QED  BY <1>1, <2>2, <2>3, AllRows
<1>4. b \in 0..Len(L)
  <2>1. q.offset = 0 /\ q.limit = ExportLimit  BY DEF Query
  <2>2. parsePagination(q.limit) \in Nat  BY <2>1, HistoryAssumption DEF parsePagination, Least
  <2> HIDE DEF q, L
  <2> QED  BY <1>2, <2>1, <2>2 DEF Least
<1>5. getTransactionHistory(q) = head
  <2>1. q.offset + 1 = 1  BY DEF Query
  <2> HIDE DEF q, L
  <2> QED  BY <1>3, <2>1 DEF getTransactionHistory
<1> HIDE DEF q, b
<1>6. DOMAIN head = 1..b /\ \A i \in 1..b : head[i] = L[i]
  <2> HIDE DEF L
  <2>1. head \in Seq(LedgerRows) /\ Len(head) = b /\ \A i \in 1..b : head[i] = L[i]
    <3>1. \A i \in 1..b : L[i] \in LedgerRows  BY <1>1, <1>2, <1>4
    <3>2. b \in Int /\ 1 \in Int  BY <1>2, <1>4
    <3> HIDE DEF head
    <3>3. SubSeq(L, 1, b) \in Seq(LedgerRows)  BY <3>1, <3>2, SubSeqProperties
    <3>4. Len(SubSeq(L, 1, b)) = IF 1 <= b THEN b - 1 + 1 ELSE 0  BY <3>1, <3>2, SubSeqProperties
    <3>5. \A i \in 1..b - 1 + 1 : SubSeq(L, 1, b)[i] = L[1 + i - 1]  BY <3>1, <3>2, SubSeqProperties
    <3>6. \A i \in 1..b : i \in 1..b - 1 + 1 /\ 1 + i - 1 = i  BY <3>2
    <3> QED  BY <1>2, <1>4, <3>3, <3>4, <3>5, <3>6 DEF head
  <2> QED  BY <2>1
<1>7. filterByDateRange(head, range) = file
  <2>1. {i \in DOMAIN head : range = 0 \/ head[i].at >= range} = Q
    <3>1. \A i \in 1..b : i \in DOMAIN L /\ i <= b  BY <1>2, <1>4
    <3>2. \A i \in Q : i \in 1..b  BY <1>2, <1>4
    <3> HIDE DEF L, head
    <3> QED  BY <1>6, <3>1, <3>2
  <2> QED  BY <2>1 DEF filterByDateRange
<1>8. filterByDateRange(L, range) = all  BY DEF filterByDateRange
<1> HIDE DEF L, head, InRange
<1>9. P \in SUBSET Int /\ IsFiniteSet(P) /\ b \in Int
  <2>1. IsFiniteSet(1..Len(L))
    <3>1. PICK n \in Nat : n = Len(L)  BY <1>2
    <3>2. IsFiniteSet(1..n)  BY FS_Interval
    <3> QED  BY <3>1, <3>2
  <2> QED  BY <1>2, <1>4, <2>1, FS_Subset
<1>10. \A i \in Q : i \in 1..b  BY <1>2, <1>4
<1>11. Q = {p \in P : p <= b}  OBVIOUS
<1> HIDE DEF P, Q
<1>12. /\ IsFiniteSet(Q) /\ Cardinality(Q) <= Cardinality(P)
       /\ \A k \in DOMAIN OldestFirst(Q) : k \in DOMAIN OldestFirst(P) /\ OldestFirst(Q)[k] = OldestFirst(P)[k]
  BY <1>9, <1>11, PickedPrefix
<1>13. Q \in SUBSET Int  BY <1>9, <1>11
<1>14. /\ Cardinality(Q) \in Nat /\ DOMAIN OldestFirst(Q) = 1..Cardinality(Q)
       /\ \A k \in DOMAIN OldestFirst(Q) : OldestFirst(Q)[k] \in Q
  BY <1>12, <1>13, PlacesAreListed
<1>15. /\ DOMAIN file = 1..Cardinality(Q)
       /\ \A k \in 1..Cardinality(Q) : file[k] = all[k]
  BY <1>6, <1>10, <1>12, <1>14 DEF RowsIn, RowsAt
<1>16. Len(file) = Cardinality(Q)
  <2>1. file \in {RowsIn(head, Q), LatestIn(head, Q)}  OBVIOUS
  <2> HIDE DEF file
  <2> QED  BY <1>12, <1>13, <2>1, RowsAreListed
<1>17. Len(all) = Cardinality(P)
  <2>1. all \in {RowsIn(L, P), LatestIn(L, P)}  OBVIOUS
  <2> HIDE DEF all
  <2> QED  BY <1>9, <2>1, RowsAreListed
<1> HIDE DEF file, all
<1>18. SubSeq(file, 1, Cardinality(Q)) = SubSeq(all, 1, Cardinality(Q))
  <2> DEFINE m == Cardinality(Q)
  <2>1. m \in Int /\ 1 \in Int  BY <1>14
  <2>2. \A i \in 1..m : file[i] = all[i]  BY <1>15
  <2> HIDE DEF m
  <2> DEFINE V == {file[i] : i \in 1..m}
  <2>3. \A i \in 1..m : file[i] \in V /\ all[i] \in V  BY <2>2
  <2> HIDE DEF V
  <2>4. /\ SubSeq(file, 1, m) \in Seq(V) /\ SubSeq(all, 1, m) \in Seq(V)
        /\ Len(SubSeq(file, 1, m)) = Len(SubSeq(all, 1, m))
    BY <2>1, <2>3, SubSeqProperties
  <2>5. \A i \in 1..m - 1 + 1 : SubSeq(file, 1, m)[i] = file[1 + i - 1] /\ SubSeq(all, 1, m)[i] = all[1 + i - 1]
    BY <2>1, <2>3, SubSeqProperties
  <2>6. Len(SubSeq(file, 1, m)) = IF 1 <= m THEN m - 1 + 1 ELSE 0
    BY <2>1, <2>3, SubSeqProperties
  <2>7. \A i \in 1..m : i \in 1..m - 1 + 1 /\ 1 + i - 1 = i  BY <2>1
  <2>8. \A i \in 1..Len(SubSeq(file, 1, m)) : SubSeq(file, 1, m)[i] = SubSeq(all, 1, m)[i]
    BY <2>1, <2>2, <2>5, <2>6, <2>7
  <2> QED  BY <2>4, <2>8 DEF m
<1>19. IsPrefix(file, all)  BY <1>12, <1>16, <1>17, <1>18 DEF IsPrefix
<1> QED  BY <1>5, <1>7, <1>8, <1>19 DEF L, q

\* What the page waits for, whatever its user does meanwhile.
LEMMA AskingStep ==
    ASSUME HistoryInv, HistoryNext
    PROVE  AsksAreOfContracts'
<1> USE DEF AsksAreOfContracts, HistoryInv
<1>0. PageSize \in Nat  BY HistoryAssumption
<1>1. \A filter : \A c \in HistoryContract, offset \in Nat : IsListQuery(ListQuery(c, offset, filter))
  BY <1>0 DEF ListQuery, Query, IsListQuery
<1>2. ASSUME NEW Q, NEW by, fetchHistory(Q, by), \A q \in Q : IsListQuery(q)
      PROVE  \A ask \in hAsks' : IsListQuery(ask.query)
  BY <1>2 DEF fetchHistory
<1>3. ASSUME NEW ask \in hAsks, Answered(ask) PROVE AsksAreOfContracts'
  <2>1. hAsks' \subseteq hAsks /\ hContract' = hContract /\ hOffset' = hOffset
    BY <1>3 DEF Answered, queryVars
  <2>2. /\ refreshing'.step = "confirm" => refreshing' = refreshing
        /\ "step" \in DOMAIN refreshing'
    BY <1>3 DEF Answered, NotRefreshing, NoRow
  <2> QED  BY <2>1, <2>2
<1>4. ASSUME NEW c \in HistoryContract, ShowContract(c) PROVE AsksAreOfContracts'
  <2>1. hContract' = c /\ hOffset' = 0 /\ refreshing' = refreshing  BY <1>4 DEF ShowContract, verdictVars
  <2>2. \A q \in {ListQuery(c, hOffset, hFilter), ListQuery(c, 0, hFilter)} : IsListQuery(q)  BY <1>1
  <2>3. \A ask \in hAsks' : IsListQuery(ask.query)  BY <1>2, <1>4, <2>2 DEF ShowContract
  <2> QED  BY <2>1, <2>3
<1>5. ASSUME NEW offset \in Nat, ShowPage(offset) PROVE AsksAreOfContracts'
  <2>1. hContract' = hContract /\ hOffset' = offset /\ refreshing' = refreshing  BY <1>5 DEF ShowPage, verdictVars
  <2>2. \A q \in {ListQuery(hContract, offset, hFilter)} : IsListQuery(q)  BY <1>1
  <2>3. \A ask \in hAsks' : IsListQuery(ask.query)  BY <1>2, <1>5, <2>2 DEF ShowPage
  <2> QED  BY <2>1, <2>3
<1>6. ASSUME previousPage \/ nextPage PROVE AsksAreOfContracts'
  <2>1. \E offset \in Nat : ShowPage(offset)
    <3>1. CASE previousPage
      <4>1. (IF hOffset > PageSize THEN hOffset - PageSize ELSE 0) \in Nat  BY <1>0
      <4> QED  BY <3>1, <4>1 DEF previousPage
    <3>2. CASE nextPage
      <4>1. hOffset + PageSize \in Nat  BY <1>0
      <4> QED  BY <3>2, <4>1 DEF nextPage
    <3> QED  BY <1>6, <3>1, <3>2
  <2> QED  BY <1>5, <2>1
<1>7. ASSUME refreshList PROVE AsksAreOfContracts'
  <2>1. hContract' = hContract /\ hOffset' = hOffset /\ refreshing' = refreshing
    BY <1>7 DEF refreshList, queryVars, verdictVars
  <2>2. \A q \in {ListQuery(hContract, hOffset, hFilter)} : IsListQuery(q)  BY <1>1
  <2>3. \A ask \in hAsks' : IsListQuery(ask.query)  BY <1>2, <1>7, <2>2 DEF refreshList
  <2> QED  BY <2>1, <2>3
<1>8. ASSUME NEW filter, FilterBecomes(filter) PROVE AsksAreOfContracts'
  <2>1. hContract' = hContract /\ hOffset' = 0 /\ refreshing' = refreshing  BY <1>8 DEF FilterBecomes, verdictVars
  <2>2. \A q \in {ListQuery(hContract, 0, filter)} : IsListQuery(q)  BY <1>1
  <2>3. \A ask \in hAsks' : IsListQuery(ask.query)
    <3>1. CASE fetchHistory({ListQuery(hContract, 0, filter)}, "list")  BY <1>2, <2>2, <3>1
    <3>2. CASE UNCHANGED listVars  BY <3>2 DEF listVars
    <3> QED  BY <1>8, <3>1, <3>2 DEF FilterBecomes
  <2> QED  BY <2>1, <2>3
<1>9. ASSUME NEW i, handleRefreshStatus(i) PROVE AsksAreOfContracts'
  <2>1. /\ refreshing'.query = ListQuery(hContract, hOffset, hFilter) /\ "step" \in DOMAIN refreshing'
        /\ UNCHANGED <<hContract, hOffset, hAsks>>
    BY <1>9 DEF handleRefreshStatus, queryVars, listVars
  <2>2. IsListQuery(ListQuery(hContract, hOffset, hFilter))  BY <1>1
  <2> QED  BY <2>1, <2>2
<1>10. ASSUME RefreshAnswers PROVE AsksAreOfContracts'
  <2>1. refreshing' = [refreshing EXCEPT !.step = "list"] /\ hContract' = hContract /\ hOffset' = hOffset
    BY <1>10 DEF RefreshAnswers, queryVars
  <2>2. refreshing'.step # "confirm" /\ "step" \in DOMAIN refreshing'
    BY <2>1
  <2>3. \A q \in {refreshing.query} : IsListQuery(q)  BY <1>10 DEF RefreshAnswers
  <2>4. \A ask \in hAsks' : IsListQuery(ask.query)  BY <1>2, <1>10, <2>3 DEF RefreshAnswers
  <2> QED  BY <2>1, <2>2, <2>4
<1>11. ASSUME RefreshFails PROVE AsksAreOfContracts'
  BY <1>11 DEF RefreshFails, NotRefreshing, NoRow, queryVars, listVars
<1>12. ASSUME UNCHANGED <<hContract, hOffset, hAsks, refreshing>> PROVE AsksAreOfContracts'
  BY <1>12
<1>13. ASSUME \/ \E filter \in HistoryFilter : editFilter(filter)
              \/ \E view \in HistoryViews : editView(view)
              \/ \E id \in DOMAIN rowStatus : LedgerSettles(id)
              \/ \E range \in {0, 3} : handleExport(range)
              \/ \E ask \in exportAsks : ExportAnswers(ask) \/ ExportFails(ask)
              \/ \E id \in DOMAIN rowStatus \cup {NoRow} : handleSelectTxHash(id)
       PROVE  UNCHANGED <<hContract, hOffset, hAsks, refreshing>>
  BY <1>13 DEF editFilter, editView, LedgerSettles, handleExport, ExportAnswers, ExportFails, handleSelectTxHash,
               queryVars, listVars, verdictVars
<1> QED  BY <1>3, <1>4, <1>6, <1>7, <1>8, <1>9, <1>10, <1>11, <1>12, <1>13, Zenon
         DEF HistoryNext, HistoryAnswers, HistoryFails, applyFilters, resetFilters

\* Settled once, a row stays as it is; so what the list shows of it stays true.
LEMMA ListingStep ==
    ASSUME HistoryInv, HistoryNext
    PROVE  ListIsReal'
<1> USE DEF HistoryInv
<1>1. ASSUME NEW ask \in hAsks, HistoryAnswers(ask) PROVE ListIsReal'
  <2>1. listed' = PageOf(ask.query) /\ rowStatus' = rowStatus
    BY <1>1 DEF HistoryAnswers, Answered
  <2>2. IsRealList(PageOf(ask.query))  BY PageIsReal DEF AsksAreOfContracts
  <2> HIDE DEF HistoryInv
  <2> QED  BY <2>1, <2>2 DEF ListIsReal, IsRealList, HistoryInv
<1>2. ASSUME NEW id \in DOMAIN rowStatus, LedgerSettles(id) PROVE ListIsReal'
  <2>1. PICK s \in {"confirmed", "failed"} : rowStatus' = [rowStatus EXCEPT ![id] = s]
    BY <1>2 DEF LedgerSettles
  <2>2. rowStatus[id] = "pending" /\ listed' = listed  BY <1>2 DEF LedgerSettles, listVars
  <2>3. \A r \in LedgerRows : r.id \in DOMAIN rowStatus  BY DEF ListIsReal
  <2>4. \A j \in DOMAIN rowStatus : rowStatus[j] # "pending" => rowStatus'[j] = rowStatus[j]
    BY <2>1, <2>2
  <2>5. DOMAIN rowStatus' = DOMAIN rowStatus  BY <2>1
  <2>6. ASSUME NEW i \in DOMAIN listed', listed'[i].status \in {"confirmed", "failed"}
        PROVE  rowStatus'[listed'[i].row.id] = listed'[i].status
    <3>1. rowStatus[listed[i].row.id] = listed[i].status /\ listed[i].row \in LedgerRows
      BY <2>2, <2>6 DEF ListIsReal, IsRealList
    <3>2. rowStatus[listed[i].row.id] # "pending"  BY <2>2, <2>6, <3>1
    <3> QED  BY <2>2, <2>3, <2>4, <3>1, <3>2
  <2>7. IsRealList(listed)'
    <3>1. (\E n \in Nat : DOMAIN listed' = 1..n) /\ \A i \in DOMAIN listed' : listed'[i].row \in LedgerRows
      BY <2>2 DEF ListIsReal, IsRealList
    <3> QED  BY <2>6, <3>1 DEF IsRealList
  <2> QED  BY <2>5, <2>7 DEF ListIsReal
<1>3. ASSUME UNCHANGED <<rowStatus, listed>> PROVE ListIsReal'
  BY <1>3 DEF ListIsReal, IsRealList
<1>4. ASSUME NEW ask \in hAsks, HistoryFails(ask) PROVE UNCHANGED <<rowStatus, listed>>
  BY <1>4 DEF HistoryFails, Answered
<1>5. ASSUME NEW c \in HistoryContract, ShowContract(c) PROVE UNCHANGED <<rowStatus, listed>>
  BY <1>5 DEF ShowContract, fetchHistory, verdictVars
<1>6. ASSUME previousPage \/ nextPage PROVE UNCHANGED <<rowStatus, listed>>
  BY <1>6 DEF previousPage, nextPage, ShowPage, fetchHistory, verdictVars
<1>7. ASSUME refreshList \/ RefreshAnswers \/ RefreshFails PROVE UNCHANGED <<rowStatus, listed>>
  BY <1>7 DEF refreshList, RefreshAnswers, RefreshFails, fetchHistory, verdictVars, listVars
<1>8. ASSUME applyFilters \/ resetFilters PROVE UNCHANGED <<rowStatus, listed>>
  BY <1>8 DEF applyFilters, resetFilters, FilterBecomes, fetchHistory, verdictVars, listVars
<1>9. ASSUME \/ \E filter \in HistoryFilter : editFilter(filter)
             \/ \E view \in HistoryViews : editView(view)
             \/ \E i \in 1..PageSize : handleRefreshStatus(i)
             \/ \E range \in {0, 3} : handleExport(range)
             \/ \E ask \in exportAsks : ExportAnswers(ask) \/ ExportFails(ask)
             \/ \E id \in DOMAIN rowStatus \cup {NoRow} : handleSelectTxHash(id)
      PROVE  UNCHANGED <<rowStatus, listed>>
  BY <1>9 DEF editFilter, editView, handleRefreshStatus, handleExport, ExportAnswers, ExportFails,
              handleSelectTxHash, listVars, verdictVars
<1> QED  BY <1>1, <1>2, <1>3, <1>4, <1>5, <1>6, <1>7, <1>8, <1>9, Zenon DEF HistoryNext

\* An export is of the contract it was asked for, when it was asked for.
LEMMA ExportingStep ==
    ASSUME HistoryInv, HistoryNext
    PROVE  FilesAreOfTheirContracts'
<1> USE DEF HistoryInv
<1>1. ASSUME UNCHANGED exportVars PROVE FilesAreOfTheirContracts'
  BY <1>1 DEF exportVars, FilesAreOfTheirContracts, ExportIsOfItsContract
<1>2. ASSUME NEW range, handleExport(range) PROVE FilesAreOfTheirContracts'
  <2>1. /\ exportAsks' = {[query |-> Query(hContract, ExportLimit, 0, AllTypes), range |-> range]}
        /\ exportFiles' = exportFiles
    BY <1>2 DEF handleExport
  <2>2. hContract \in HistoryContract  BY DEF AsksAreOfContracts
  <2>3. \A ask \in exportAsks' : \E c \in HistoryContract : ask.query = Query(c, ExportLimit, 0, AllTypes)
    BY <2>1, <2>2
  <2>4. ExportIsOfItsContract'  BY <2>1 DEF FilesAreOfTheirContracts, ExportIsOfItsContract
  <2> QED  BY <2>3, <2>4 DEF FilesAreOfTheirContracts
<1>3. ASSUME NEW ask \in exportAsks, ExportAnswers(ask) PROVE FilesAreOfTheirContracts'
  <2> DEFINE rows == filterByDateRange(getTransactionHistory(ask.query), ask.range)
             file == [name |-> ask.query.contract, range |-> ask.range, rows |-> rows]
  <2>1. exportAsks' = exportAsks \ {ask} /\ exportFiles' \subseteq exportFiles \cup {file}
    BY <1>3 DEF ExportAnswers
  <2>2. PICK c \in HistoryContract : ask.query = Query(c, ExportLimit, 0, AllTypes)
    BY DEF FilesAreOfTheirContracts
  <2>3. ask.query.contract = c  BY <2>2 DEF Query
  <2>4. IsPrefix(rows, filterByDateRange(Ledger[c], ask.range))  BY <2>2, ExportIsPrefix
  <2> HIDE DEF rows
  <2>5. file.name = c /\ file.range = ask.range /\ file.rows = rows  BY <2>3
  <2> HIDE DEF file
  <2>6. \A f \in exportFiles' : IsPrefix(f.rows, filterByDateRange(Ledger[f.name], f.range))
    <3>1. IsPrefix(file.rows, filterByDateRange(Ledger[file.name], file.range))  BY <2>4, <2>5
    <3> QED  BY <2>1, <3>1 DEF FilesAreOfTheirContracts, ExportIsOfItsContract
  <2>7. \A a \in exportAsks' : \E d \in HistoryContract : a.query = Query(d, ExportLimit, 0, AllTypes)
    BY <2>1 DEF FilesAreOfTheirContracts
  <2> QED  BY <2>6, <2>7 DEF FilesAreOfTheirContracts, ExportIsOfItsContract
<1>4. ASSUME NEW ask \in exportAsks, ExportFails(ask) PROVE FilesAreOfTheirContracts'
  <2>1. exportAsks' \subseteq exportAsks /\ exportFiles' = exportFiles  BY <1>4 DEF ExportFails
  <2> QED  BY <2>1 DEF FilesAreOfTheirContracts, ExportIsOfItsContract
<1>5. ASSUME \/ \E ask \in hAsks : HistoryAnswers(ask) \/ HistoryFails(ask)
             \/ \E c \in HistoryContract : ShowContract(c)
             \/ previousPage \/ nextPage \/ refreshList
             \/ \E filter \in HistoryFilter : editFilter(filter)
             \/ \E view \in HistoryViews : editView(view)
             \/ applyFilters \/ resetFilters
             \/ \E id \in DOMAIN rowStatus : LedgerSettles(id)
             \/ \E i \in 1..PageSize : handleRefreshStatus(i)
             \/ RefreshAnswers \/ RefreshFails
             \/ \E id \in DOMAIN rowStatus \cup {NoRow} : handleSelectTxHash(id)
      PROVE  UNCHANGED exportVars
  BY <1>5, Zenon DEF HistoryAnswers, HistoryFails, Answered, ShowContract, previousPage, nextPage, ShowPage,
                     refreshList, editFilter, editView, applyFilters, resetFilters, FilterBecomes, LedgerSettles,
                     handleRefreshStatus, RefreshAnswers, RefreshFails, handleSelectTxHash
<1> QED  BY <1>1, <1>2, <1>3, <1>4, <1>5, Zenon DEF HistoryNext

\* A verdict the history shows is the one the backend gave, and an exported file is
\* the beginning of the history of the contract it is named after: for every set of
\* contracts and rows, every filter and order, and answers that come as late as
\* they like (TransactionHistory.tsx, transactions.js).
THEOREM TheHistoryIsReal == FrontendSpec => []HistoryIsReal
<1>1. FrontendInit => HistoryInv
  <2> SUFFICES ASSUME HistoryInit PROVE HistoryInv  BY DEF FrontendInit
  <2>1. hContract \in HistoryContract /\ hOffset = 0  BY HistoryAssumption DEF HistoryInit
  <2>2. \A ask \in hAsks : IsListQuery(ask.query)
    <3>1. hAsks = {[query |-> ListQuery(hContract, 0, AllTypes), by |-> "list"]}  BY DEF HistoryInit
    <3>2. IsListQuery(ListQuery(hContract, 0, AllTypes))
      BY <2>1, HistoryAssumption DEF ListQuery, Query, IsListQuery
    <3> QED  BY <3>1, <3>2
  <2>3. refreshing.step # "confirm" /\ "step" \in DOMAIN refreshing  BY DEF HistoryInit, NotRefreshing, NoRow
  <2>4. AsksAreOfContracts  BY <2>1, <2>2, <2>3 DEF AsksAreOfContracts
  <2>5. ListIsReal
    <3>1. listed = << >> /\ DOMAIN rowStatus = {r.id : r \in LedgerRows}  BY DEF HistoryInit
    <3>2. DOMAIN listed = 1..0 /\ 0 \in Nat  BY <3>1
    <3>3. \A i \in DOMAIN listed : FALSE  BY <3>2
    <3> QED  BY <3>1, <3>2, <3>3 DEF ListIsReal, IsRealList
  <2>6. exportAsks = {} /\ exportFiles = {}  BY DEF HistoryInit
  <2> QED  BY <2>4, <2>5, <2>6 DEF HistoryInv, FilesAreOfTheirContracts, ExportIsOfItsContract
<1>2. HistoryInv /\ [FrontendNext]_mcVars => HistoryInv'
  <2> SUFFICES ASSUME HistoryInv, [FrontendNext]_mcVars PROVE HistoryInv'  OBVIOUS
  <2>1. CASE HistoryNext  BY <2>1, AskingStep, ListingStep, ExportingStep DEF HistoryInv
  <2>2. CASE UNCHANGED historyVars
    <3>1. UNCHANGED <<hContract, hOffset, hAsks, refreshing>>  BY <2>2 DEF historyVars
    <3>2. UNCHANGED <<rowStatus, listed, exportAsks, exportFiles>>  BY <2>2 DEF historyVars
    <3> QED  BY <3>1, <3>2 DEF HistoryInv, AsksAreOfContracts, ListIsReal, IsRealList, FilesAreOfTheirContracts,
                               ExportIsOfItsContract
  <2> QED  BY <2>1, <2>2, PageFrame
<1>3. HistoryInv => HistoryIsReal
  <2> SUFFICES ASSUME HistoryInv PROVE HistoryIsReal  OBVIOUS
  <2>1. ASSUME NEW i \in DOMAIN displayedTransactions,
               getStatusDisplay(displayedTransactions[i]) \in {"confirmed", "failed"}
        PROVE  rowStatus[displayedTransactions[i].row.id] = getStatusDisplay(displayedTransactions[i])
    <3>1. PICK k \in DOMAIN listed : displayedTransactions[i] = listed[k]  BY ShownAreListed DEF HistoryInv
    <3>2. listed[k].status \in {"confirmed", "failed"} /\ getStatusDisplay(listed[k]) = listed[k].status
      BY <2>1, <3>1 DEF getStatusDisplay
    <3> QED  BY <3>1, <3>2 DEF HistoryInv, ListIsReal, IsRealList
  <2>2. ShownVerdictIsReal  BY <2>1 DEF ShownVerdictIsReal
  <2> QED  BY <2>2 DEF HistoryInv, FilesAreOfTheirContracts, HistoryIsReal
<1> QED  BY <1>1, <1>2, <1>3, PTL DEF FrontendSpec
=============================================================================
