------------------------------ MODULE LiveFeed ------------------------------
(***************************************************************************)
(* The WebSocket the web application listens on (useWebSocket), reopened   *)
(* when it closes, and the notifications it brings (NotificationContext,   *)
(* NotificationBell).                                                      *)
(*                                                                         *)
(* The hook is used twice.  EarningsDashboard hands it a memoized callback *)
(* and reacts to distribution events; App hands it a new callback on every *)
(* render and fills the inbox, and as its effect depends on the callback,  *)
(* each render of App closes the socket and opens another.                 *)
(*                                                                         *)
(* A socket that closes leaves a timer that opens another for the wallet   *)
(* it was made for; a slot stands for a socket and then for its timer.     *)
(***************************************************************************)
EXTENDS Integers, Sequences, FiniteSets, SequencesExt

CONSTANTS
    Slot,             \* sockets and timers that may exist at once
    User,             \* wallets of the user
    MaxDrops,         \* bound on connections lost
    MaxSwitches,      \* bound on changes of wallet
    MaxPushes,        \* bound on messages pushed
    MaxHistory,       \* MAX_HISTORY
    BellLength        \* entries the bell lists

ASSUME FeedAssumption == MaxHistory \in Nat

VARIABLES
    hook,             \* who uses the hook: "app" or "dashboard"
    feedWallet,
    sockets,          \* per slot: [for, state]
    wsRef, timerRef,  \* the refs of the hook
    connected,
    inbox,            \* newest first: [type, read]
    pushes,           \* what the server pushed
    reloads,          \* distribution events the dashboard reacted to
    drops, switches

feedVars == <<hook, feedWallet, sockets, wsRef, timerRef, connected, inbox, pushes, reloads, drops, switches>>

NoOne == "no wallet"
NoSlot == "no slot"
Free == [for |-> NoOne, state |-> "free"]
InState(socks, state) == {s \in Slot : socks[s].state = state}

\* What the backend pushes: notifyWallet and the finality updates.
Push == {[type |-> "notification", says |-> "confirmed"], [type |-> "notification", says |-> "distribution_completed"],
         [type |-> "finality_update", says |-> "confirmed"], [type |-> "finality_update", says |-> "failed"],
         [type |-> "finality_update", says |-> "timeout"], [type |-> "transaction_status", says |-> "pending"],
         [type |-> "transaction_status", says |-> "confirmed"]}

-----------------------------------------------------------------------------
\* useWebSocket.

connectFor(feed, wallet) ==
    IF wallet = NoOne \/ InState(feed.sockets, "free") = {} THEN feed
    ELSE LET s == CHOOSE x \in InState(feed.sockets, "free") : TRUE
         IN  [feed EXCEPT !.sockets[s] = [for |-> wallet, state |-> "opening"], !.ws = s]

\* The effect's cleanup knows only the newest socket and the newest timer.
Cleanup(feed) ==
    LET timed == IF feed.timer # NoSlot /\ feed.timer \in InState(feed.sockets, "waiting")
                   THEN [feed EXCEPT !.sockets[feed.timer] = Free] ELSE feed
    IN  IF feed.ws = NoSlot THEN timed
        ELSE [timed EXCEPT !.sockets[feed.ws].state = IF @ \in {"opening", "open"} THEN "closing" ELSE @,
                           !.ws = NoSlot]

\* A render with another connect runs the effect again.
Rerender(feed, wallet) == connectFor(Cleanup(feed), wallet)

Feed == [sockets |-> sockets, ws |-> wsRef, timer |-> timerRef]
Becomes(feed) == sockets' = feed.sockets /\ wsRef' = feed.ws /\ timerRef' = feed.timer

\* setConnected renders the component when it changes the value; only App's
\* render makes another connect.
SetConnected(feed, value) ==
    /\ connected' = value
    /\ Becomes(IF hook = "app" /\ value # connected THEN Rerender(feed, feedWallet) ELSE feed)

FeedInit(user) ==
    LET none == [sockets |-> [s \in Slot |-> Free], ws |-> NoSlot, timer |-> NoSlot]
        first == connectFor(none, feedWallet)
    IN  /\ hook = user
        /\ feedWallet = CHOOSE u \in User : TRUE
        /\ sockets = first.sockets /\ wsRef = first.ws /\ timerRef = first.timer
        /\ connected = FALSE /\ inbox = << >> /\ pushes = {} /\ reloads = 0 /\ drops = 0 /\ switches = 0

onopen(s) ==
    /\ sockets[s].state = "opening"
    /\ SetConnected([Feed EXCEPT !.sockets[s].state = "open"], TRUE)
    /\ UNCHANGED <<hook, feedWallet, inbox, pushes, reloads, drops, switches>>

\* Mutant: a socket that closes is given up.
ClosesForGood(s) ==
    /\ SetConnected([Feed EXCEPT !.sockets[s] = Free], FALSE)
    /\ UNCHANGED <<hook, feedWallet, inbox, pushes, reloads, switches>>

\* The timer reopens for the wallet of the socket's own render.
onclose(s) ==
    /\ SetConnected([Feed EXCEPT !.sockets[s].state = "waiting", !.timer = s], FALSE)
    /\ UNCHANGED <<hook, feedWallet, inbox, pushes, reloads, switches>>

ConnectionLost(s) ==
    /\ sockets[s].state \in {"opening", "open"}
    /\ drops < MaxDrops /\ drops' = drops + 1
    /\ onclose(s)

CloseCompletes(s) == sockets[s].state = "closing" /\ UNCHANGED drops /\ onclose(s)

ReconnectTimer(s) ==
    /\ sockets[s].state = "waiting"
    /\ Becomes([Feed EXCEPT !.sockets[s].state = "opening", !.ws = s])
    /\ UNCHANGED <<hook, feedWallet, connected, inbox, pushes, reloads, drops, switches>>

WalletSwitches(w) ==
    /\ w # feedWallet /\ switches < MaxSwitches /\ switches' = switches + 1
    /\ feedWallet' = w
    /\ Becomes(Rerender(Feed, w))
    /\ UNCHANGED <<hook, connected, inbox, pushes, reloads, drops>>

-----------------------------------------------------------------------------
\* The inbox.

\* What the hook makes of a message, and what App makes of that.
TypeOf(p) ==
    CASE p.type = "notification" -> IF p.says \in {"pending", "confirmed", "failed"} THEN p.says ELSE "info"
      [] p.type = "finality_update" -> IF p.says \in {"confirmed", "failed"} THEN p.says ELSE "info"
      [] p.type = "transaction_status" -> IF p.says \in {"pending", "failed"} THEN p.says ELSE "info"

addNotification(box, type) ==
    SubSeq(<<[type |-> type, read |-> FALSE]>> \o box, 1,
           IF Len(box) < MaxHistory THEN Len(box) + 1 ELSE MaxHistory)

\* A message over an open socket.  A new entry renders App.
onmessage(s, p) ==
    /\ sockets[s].state = "open" /\ Cardinality(pushes) < MaxPushes /\ p \notin pushes
    /\ pushes' = pushes \cup {p}
    /\ IF hook = "app"
         THEN /\ inbox' = addNotification(inbox, TypeOf(p))
              /\ Becomes(Rerender(Feed, feedWallet))
              /\ UNCHANGED reloads
         ELSE /\ reloads' = IF p.type = "notification" /\ p.says = "distribution_completed" THEN reloads + 1
                            ELSE reloads
              /\ UNCHANGED <<inbox, sockets, wsRef, timerRef>>
    /\ UNCHANGED <<hook, feedWallet, connected, drops, switches>>

InboxBecomes(box) ==
    /\ inbox' = box
    /\ Becomes(IF hook = "app" THEN Rerender(Feed, feedWallet) ELSE Feed)
    /\ UNCHANGED <<hook, feedWallet, connected, pushes, reloads, drops, switches>>

markAsRead(i) == i \in DOMAIN inbox /\ ~inbox[i].read /\ InboxBecomes([inbox EXCEPT ![i].read = TRUE])

\* The bell lists the newest entries only; a toast that closes marks its own.
handleNotificationClick(i) == i <= BellLength /\ markAsRead(i)
NotificationToastCloses(i) == markAsRead(i)

clearAllNotifications == inbox # << >> /\ InboxBecomes(<< >>)

FeedNext ==
    \/ \E s \in Slot : onopen(s) \/ ConnectionLost(s) \/ CloseCompletes(s) \/ ReconnectTimer(s)
    \/ \E s \in Slot, p \in Push : onmessage(s, p)
    \/ \E w \in User : WalletSwitches(w)
    \/ \E i \in 1..MaxHistory : handleNotificationClick(i) \/ NotificationToastCloses(i)
    \/ clearAllNotifications

-----------------------------------------------------------------------------
\* A verdict in the inbox is one the backend pushed: no update that was not
\* final is shown as a success or a failure, through both conversions.
InboxIsHonest ==
    \A i \in DOMAIN inbox :
        inbox[i].type \in {"confirmed", "failed"} => \E p \in pushes : p.says = inbox[i].type

\* Once the network and the wallet come to rest, the dashboard has a socket open
\* that is subscribed for the wallet shown.
FeedComesBack == <>[](\E s \in Slot : sockets[s] = [for |-> feedWallet, state |-> "open"])
=============================================================================
