---------------------------- MODULE WebSocketHub ----------------------------
(***************************************************************************)
(* What the backend pushes to its clients: the WebSocket server, and the   *)
(* notifications sent over it.                                             *)
(***************************************************************************)
EXTENDS Naturals, FiniteSets

-----------------------------------------------------------------------------
(***************************************************************************)
(* The WebSocket server of backend/src/websocket.js: the map from a key (a *)
(* wallet, a transaction, a finality record) to the sockets subscribed to  *)
(* it, the heartbeat that drops dead peers and the broadcasts.  A socket   *)
(* is used for one connection.                                             *)
(***************************************************************************)

CONSTANTS
    Socket,   \* connections
    Wallet,   \* wallet addresses a client may subscribe with
    Tx,       \* ids of rows of the transactions table
    NoWallet  \* ws.walletAddress before the first subscription

VARIABLES
    clients,  \* clients: the sockets registered under each key
    ws,       \* per socket: readyState, isAlive, walletAddress, txnKeys, finalityKeys
    inbox     \* what each socket has been sent

hubVars == <<clients, ws, inbox>>

WalletKey(w) == <<"wallet", w>>
TxnKey(t) == <<"txn", t>>
FinalityKey(t) == <<"finality", t>>
Key == {WalletKey(w) : w \in Wallet} \cup {TxnKey(t) : t \in Tx} \cup {FinalityKey(t) : t \in Tx}

Unconnected == [state |-> "new", isAlive |-> FALSE, wallet |-> NoWallet,
                txnKeys |-> {}, finalityKeys |-> {}]

HubInit ==
    /\ clients = [k \in Key |-> {}]
    /\ ws = [s \in Socket |-> Unconnected]
    /\ inbox = [s \in Socket |-> {}]

Open(s) == ws[s].state = "open"

Connect(s) ==
    /\ ws[s].state = "new"
    /\ ws' = [ws EXCEPT ![s].state = "open", ![s].isAlive = TRUE]
    /\ UNCHANGED <<clients, inbox>>

\* {type: "subscribe", walletAddress}: the socket's wallet is overwritten, the
\* key of an earlier wallet is not.
SubscribeWallet(s, w) ==
    /\ Open(s)
    /\ ws' = [ws EXCEPT ![s].wallet = w]
    /\ clients' = [clients EXCEPT ![WalletKey(w)] = @ \cup {s}]
    /\ UNCHANGED inbox

\* {type: "subscribe", id}
SubscribeTxn(s, t) ==
    /\ Open(s)
    /\ ws' = [ws EXCEPT ![s].txnKeys = @ \cup {TxnKey(t)}]
    /\ clients' = [clients EXCEPT ![TxnKey(t)] = @ \cup {s}]
    /\ UNCHANGED inbox

\* Mutant: the key is not kept on the socket.
SubscribeFinalityUntracked(s, t) ==
    /\ Open(s)
    /\ clients' = [clients EXCEPT ![FinalityKey(t)] = @ \cup {s}]
    /\ UNCHANGED <<ws, inbox>>

\* {type: "subscribe_finality", transactionId}
SubscribeFinality(s, t) ==
    /\ Open(s)
    /\ ws' = [ws EXCEPT ![s].finalityKeys = @ \cup {FinalityKey(t)}]
    /\ clients' = [clients EXCEPT ![FinalityKey(t)] = @ \cup {s}]
    /\ UNCHANGED inbox

\* ws.on("close"): the keys the socket knows of, no others.
OwnKeys(s) ==
    ws[s].txnKeys \cup ws[s].finalityKeys
        \cup (IF ws[s].wallet = NoWallet THEN {} ELSE {WalletKey(ws[s].wallet)})

\* The peer leaves, or the ten-minute timer terminates the socket.
Close(s) ==
    /\ Open(s)
    /\ ws' = [ws EXCEPT ![s].state = "closed"]
    /\ clients' = [k \in Key |-> IF k \in OwnKeys(s) THEN clients[k] \ {s} ELSE clients[k]]
    /\ UNCHANGED inbox

\* ws.on("pong"), for a peer that answers.
Pong(s) ==
    /\ Open(s)
    /\ ~ws[s].isAlive
    /\ ws' = [ws EXCEPT ![s].isAlive = TRUE]
    /\ UNCHANGED <<clients, inbox>>

\* The 30 s interval: a peer that has not answered the last ping is terminated
\* (its close handler runs), the others are pinged again.
Heartbeat ==
    LET dead == {s \in Socket : Open(s) /\ ~ws[s].isAlive} IN
    /\ \E s \in Socket : Open(s)
    /\ ws' = [s \in Socket |->
                IF s \in dead THEN [ws[s] EXCEPT !.state = "closed"]
                ELSE IF Open(s) THEN [ws[s] EXCEPT !.isAlive = FALSE] ELSE ws[s]]
    /\ clients' = [k \in Key |-> clients[k] \ {s \in dead : k \in OwnKeys(s)}]
    /\ UNCHANGED inbox

\* broadcastFinalityUpdate: the subscribers of the record, and every socket with
\* a wallet, found under any key that is not a finality key.
FinalityAudience(t) ==
    {s \in Socket : Open(s) /\ s \in clients[FinalityKey(t)]}
        \cup {s \in Socket : /\ Open(s)
                             /\ ws[s].wallet # NoWallet
                             /\ \E k \in Key : k[1] # "finality" /\ s \in clients[k]}

Deliver(audience, message) ==
    inbox' = [s \in Socket |-> IF s \in audience THEN inbox[s] \cup {message} ELSE inbox[s]]

broadcastFinalityUpdate(t, status) == Deliver(FinalityAudience(t), <<t, status>>)

\* broadcastToContract: every socket that named a wallet, under whatever key.
broadcastToContract(message) ==
    Deliver({s \in Socket : Open(s) /\ ws[s].wallet # NoWallet /\ \E k \in Key : s \in clients[k]},
            message)

\* broadcastTransactionStatus: the subscribers of one transaction.
broadcastTransactionStatus(t, status) ==
    Deliver({s \in Socket : Open(s) /\ s \in clients[TxnKey(t)]}, <<t, status>>)

\* sendNotification: the sockets of one wallet.
sendNotification(w, message) ==
    Deliver({s \in Socket : Open(s) /\ s \in clients[WalletKey(w)]}, message)

\* The routes and the schedule job that announce a transaction.
Announce(t) ==
    /\ \/ broadcastToContract(<<t, "initiated">>)
       \/ broadcastTransactionStatus(t, "processing")
    /\ inbox' # inbox
    /\ UNCHANGED <<clients, ws>>

HubNext ==
    \/ Heartbeat
    \/ \E s \in Socket :
          \/ Connect(s) \/ Close(s) \/ Pong(s)
          \/ \E w \in Wallet : SubscribeWallet(s, w)
          \/ \E t \in Tx : SubscribeTxn(s, t) \/ SubscribeFinality(s, t)

-----------------------------------------------------------------------------
\* The close handler leaves no trace of a closed socket under a transaction or
\* finality key.  (A wallet key can keep one: a socket that subscribed with two
\* wallets is only taken out of the second.)
NoGhostSubscribers ==
    \A s \in Socket, t \in Tx :
        ws[s].state = "closed" => s \notin clients[TxnKey(t)] \cup clients[FinalityKey(t)]

-----------------------------------------------------------------------------
(***************************************************************************)
(* In-app notifications: the notifications and preference tables           *)
(* (backend/src/database/notifications.js, notification-preferences.js),   *)
(* their routes, and the push over the WebSocket hub.                      *)
(***************************************************************************)

CONSTANTS
    Notice,   \* rows of the notifications table
    Channel   \* email, sms, inApp, push

\* A push says by its type whether it is about a transaction or a notification.
ASSUME HubAssumption == Tx \cap Notice = {} /\ NoWallet \notin Wallet

VARIABLES
    notices,  \* per row: not created, unread, read or deleted, and its wallet
    channels  \* notification_preferences: the channels a wallet has on

noticeVars == <<notices, channels>>

NoNotice == [state |-> "none", wallet |-> NoWallet]
DefaultChannels == {"email", "inApp"} \cap Channel

NotificationsInit ==
    /\ notices = [n \in Notice |-> NoNotice]
    /\ channels = [w \in Wallet |-> DefaultChannels]

createNotification(n, w) == [notices EXCEPT ![n] = [state |-> "unread", wallet |-> w]]

markNotificationRead(n) ==
    [notices EXCEPT ![n].state = IF @ = "unread" THEN "read" ELSE @]

markAllNotificationsRead(w) ==
    [n \in Notice |-> IF notices[n].wallet = w /\ notices[n].state = "unread"
                      THEN [notices[n] EXCEPT !.state = "read"] ELSE notices[n]]

getUnreadNotificationCount(w) ==
    Cardinality({n \in Notice : notices[n] = [state |-> "unread", wallet |-> w]})

\* POST /send: stored first, then pushed to the open sockets of the wallet.
PostSend(n, w) ==
    /\ notices[n] = NoNotice
    /\ notices' = createNotification(n, w)
    /\ sendNotification(w, <<n, w>>)
    /\ UNCHANGED <<clients, ws, channels>>

PostRead(n) ==
    /\ notices[n].state = "unread"
    /\ notices' = markNotificationRead(n)
    /\ UNCHANGED <<hubVars, channels>>

PostReadAll(w) ==
    /\ getUnreadNotificationCount(w) > 0
    /\ notices' = markAllNotificationsRead(w)
    /\ UNCHANGED <<hubVars, channels>>

DeleteNotice(n) ==
    /\ notices[n].state \in {"unread", "read"}
    /\ notices' = [notices EXCEPT ![n].state = "deleted"]
    /\ UNCHANGED <<hubVars, channels>>

\* saveNotificationPreferences: the channels the body names are set, the others
\* are merged from the stored row or from the defaults.
MergeChannels(w, on, off) == (channels[w] \cup on) \ off

PostPreferences(w, on, off) ==
    /\ on \cup off # {}
    /\ on \cap off = {}
    /\ channels' = [channels EXCEPT ![w] = MergeChannels(w, on, off)]
    /\ UNCHANGED <<hubVars, notices>>

NotificationsNext ==
    \/ \E n \in Notice : PostRead(n) \/ DeleteNotice(n) \/ (\E w \in Wallet : PostSend(n, w))
    \/ \E w \in Wallet :
          \/ PostReadAll(w)
          \/ \E on, off \in SUBSET Channel : PostPreferences(w, on, off)

-----------------------------------------------------------------------------
\* What a socket was pushed is in the table, under the wallet it was sent to, or
\* was deleted there since: no client shows a notification the server never kept.
PushedWasStored ==
    \A s \in Socket, n \in Notice, w \in Wallet :
        <<n, w>> \in inbox[s] => notices[n].wallet = w
=============================================================================
