---------------------------- MODULE MCBackstage -----------------------------
(***************************************************************************)
(* What the backend does behind its requests, a scene each.  Once a        *)
(* transaction is sent: the hub with its two users, finality tracking and  *)
(* in-app notifications; reading and archiving the history while rows      *)
(* arrive; confirming and archiving; confirming and delivering webhooks    *)
(* while the retry job runs.  What every request stands on: the connection *)
(* pool, the life of the process, the two kinds of health check, the       *)
(* nonces, keys and meters that admit requests, and the alerts.            *)
(***************************************************************************)
EXTENDS Finality, WebSocketHub, Transactions, ConnectionPool, ServerLife, Monitoring, Access

VARIABLE scene

eventVars == <<pushVars, noticeVars, vars>>
platformVars == <<poolVars, lifeVars, healthVars, accessVars, alertVars>>
mcVars == <<eventVars, platformVars, scene>>

BackstageInit ==
    /\ scene \in {"finality", "notices", "read", "confirm", "deliver",
                  "pool", "life", "health", "detailed", "nonces", "keys", "meter", "alerts"}
    /\ FinalityInit /\ NotificationsInit /\ TransactionsInit
    /\ PoolInit /\ LifeInit /\ HealthInit /\ AccessInit /\ AlertInit

HubOrAnnounce == HubNext \/ \E t \in Tx : Announce(t)

RecordOne == Cardinality(Ids) < 2 /\ Record("distribute")

Webhook == WebhooksNext /\ UNCHANGED txVars

EventsNext ==
    \/ /\ scene = "finality" /\ FinalityNext /\ (\A w \in Wallet : clients'[WalletKey(w)] = {})
       /\ UNCHANGED <<noticeVars, vars>>
    \/ scene = "notices" /\ NotificationsNext /\ UNCHANGED <<finalityVars, vars>>
    \/ scene = "notices" /\ HubOrAnnounce /\ UNCHANGED <<finalityVars, noticeVars, vars>>
    \/ scene = "read" /\ HistoryNext /\ UNCHANGED <<pushVars, noticeVars>>
    \/ /\ scene = "confirm" /\ (ConfirmNext \/ RecordOne \/ Tick \/ PostArchiveRun)
       /\ UNCHANGED <<pushVars, noticeVars>>
    \/ /\ scene = "deliver" /\ (ConfirmNext \/ RecordOne \/ Webhook)
       /\ UNCHANGED <<pushVars, noticeVars>>

PlatformNext ==
    \/ scene = "pool" /\ PoolNext /\ UNCHANGED <<lifeVars, healthVars, accessVars, alertVars>>
    \/ scene = "life" /\ LifeNext /\ UNCHANGED <<poolVars, healthVars, accessVars, alertVars>>
    \/ /\ (scene = "health" /\ PollNext) \/ (scene = "detailed" /\ DetailedNext)
       /\ UNCHANGED <<poolVars, lifeVars, accessVars, alertVars>>
    \/ /\ \/ scene = "nonces" /\ NonceNext /\ UNCHANGED <<keyVars, meterVars>>
          \/ scene = "keys" /\ KeyNext /\ UNCHANGED <<nonceVars, meterVars>>
          \/ scene = "meter" /\ MeterNext /\ UNCHANGED <<nonceVars, keyVars>>
       /\ UNCHANGED <<poolVars, lifeVars, healthVars, alertVars>>
    \/ scene = "alerts" /\ AlertNext /\ UNCHANGED <<poolVars, lifeVars, healthVars, accessVars>>

BackstageNext ==
    /\ UNCHANGED scene
    /\ \/ EventsNext /\ UNCHANGED platformVars
       \/ PlatformNext /\ UNCHANGED eventVars

\* The event loop runs every timer and every answer, and time passes.
PollsRun == \A t \in Tx :
    /\ WF_pushVars(scene = "finality" /\ Poll(t))
    /\ WF_pushVars(scene = "finality" /\ Age(t))

\* Every post ends (WEBHOOK_TIMEOUT_MS), time passes, the interval keeps firing.
Delivers(A) == scene = "deliver" /\ A /\ UNCHANGED txVars
PostsEnd ==
    /\ WF_vars(Delivers(FirstDelivery))
    /\ \A h \in Hook : WF_vars(Delivers(BackoffPasses(h)))
    /\ \A p \in Pass : WF_vars(Delivers(StartPass(p))) /\ WF_vars(Delivers(RetryPass(p)))

\* The shutdown timer fires, and so does the timeout that ends a check.
TimeoutsFire ==
    /\ WF_lifeVars(scene = "life" /\ forceTimeout)
    /\ \A k \in Component : WF_healthVars(scene = "detailed" /\ runCheck(k))
    /\ WF_healthVars(scene = "detailed" /\ DetailedAnswers)

BackstageSpec == BackstageInit /\ [][BackstageNext]_mcVars /\ PollsRun /\ PostsEnd /\ TimeoutsFire

-----------------------------------------------------------------------------
\* Neither the finality table nor the transactions table says confirmed or
\* failed of a transaction unless the ledger says so of the hash it carries.
VerdictsFollowTheLedger == SettledMatchesLedger /\ RowsMatchLedger

\* What is pushed has somebody to hear it and something behind it: the hub lists
\* no closed socket, a notification shown is one that was stored, and a webhook
\* due for a retry has its payload.
PushesAreBacked == NoGhostSubscribers /\ PushedWasStored /\ ScheduledHasPayload

\* Recorded transactions stay in one of the two tables, and a reader who pages
\* through the history misses and repeats none.
HistoryIsComplete == NothingVanishes /\ WalkIsExact

\* A verdict written is never overwritten, its subscribers are told in the same
\* step, and a row keeps the hash it was linked to.
VerdictsStick == OneVerdict /\ SubscribersHearTheVerdict /\ HashSticks

\* Polling and retrying end: every loop leaves a verdict or is cancelled, and the
\* retry job falls silent once nothing new is confirmed.
EventsSettle == LoopLeavesVerdict /\ RetriesEnd

\* The process never half-does its work: a connection serves one caller at a time
\* through releases and reconnections, a start that is cut short leaves no half of
\* a migration, and an exit by the orderly path has answered every request.
WorkIsWhole == ConnectionsAreExclusive /\ SchemaIsWhole /\ CleanExitAnswersAll

\* What admits a request is exact: a nonce passes once unless a full cache pushed it
\* out, the key in use came from the source the status names, and the routes that
\* report an API key's usage agree.
AdmissionIsExact == NonceIsUsedOnce /\ KeyCameFromItsSource /\ UsageViewsAgree

\* What monitoring says can be relied on: a cached verdict is younger than its TTL
\* when it is served, and alerts of a kind on one contract are a dedupe window apart.
MonitoringIsHonest == HealthIsFresh /\ AlertsAreSpaced

\* A detailed health request is answered whatever its checks do, and a process that
\* was told to stop does stop, even when a WebSocket keeps the server from closing.
PlatformResponds == DetailedIsAnswered /\ SignalEndsProcess
=============================================================================
