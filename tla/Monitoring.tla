---------------------------- MODULE Monitoring ------------------------------
(***************************************************************************)
(* What the backend says of its own health: the health routes, and the     *)
(* alerts raised from its metrics.                                         *)
(***************************************************************************)
EXTENDS Integers, Sequences, FiniteSets, SequencesExt, FiniteSetsExt, Functions

-----------------------------------------------------------------------------
(***************************************************************************)
(* The health endpoints (routes/health.js, routes/liveness.js), the probes *)
(* they make (stellar.js) and the history they keep (database/core.js).    *)
(*                                                                         *)
(* A GET / reads the clock when it comes in, awaits its probes and then    *)
(* the database monitor, and dates its cache entry and its snapshot by the *)
(* clock it read; two of them may overlap.                                 *)
(***************************************************************************)

CONSTANTS
    Poller,           \* callers of GET /health
    CACHE_TTL, RECORD_INTERVAL, HealthRetention,
    LastTick,         \* bound on the clock
    Configured        \* a contract id is configured

ASSUME HealthAssumption == CACHE_TTL \in Nat \ {0} /\ RECORD_INTERVAL \in Nat

VARIABLES
    healthClock,
    cachedHealth,     \* the observation cached, its instant and its expiry
    lastRecordedAt,
    history,          \* health_history
    polling,          \* per poller: where its request is
    served,           \* per poller: the age of the last verdict it was given
    checks,           \* GET /detailed: per component, how its check stands
    report            \* GET /detailed: none, running, or the verdict

healthVars == <<healthClock, cachedHealth, lastRecordedAt, history, polling, served, checks, report>>

Nowhere == [at |-> "idle", now |-> 0, seen |-> 0, ok |-> FALSE]
NoHealth == [seen |-> 0, expires |-> 0]
Component == {"database", "horizon", "soroban", "contract", "connectionHealth"}

HealthInit ==
    /\ healthClock = RECORD_INTERVAL      \* far from the epoch
    /\ cachedHealth = NoHealth /\ lastRecordedAt = 0 /\ history = {}
    /\ polling = [p \in Poller |-> Nowhere]
    /\ served = [p \in Poller |-> 0]
    /\ checks = [k \in Component |-> "none"]
    /\ report = "none"

HealthTicks ==
    /\ healthClock < LastTick
    /\ healthClock' = healthClock + 1
    /\ UNCHANGED <<cachedHealth, lastRecordedAt, history, polling, served, checks, report>>

-----------------------------------------------------------------------------
\* GET /health.

GetHealth(p) ==
    /\ polling[p].at = "idle"
    /\ IF cachedHealth # NoHealth /\ healthClock < cachedHealth.expires
         THEN /\ served' = [served EXCEPT ![p] = healthClock - cachedHealth.seen]
              /\ UNCHANGED polling
         ELSE /\ polling' = [polling EXCEPT ![p] = [Nowhere EXCEPT !.at = "probing", !.now = healthClock]]
              /\ UNCHANGED served
    /\ UNCHANGED <<healthClock, cachedHealth, lastRecordedAt, history, checks, report>>

\* A simulation of is_initialized: it fails, answers, or throws.
checkContractDeploymentStatus ==
    IF ~Configured
      THEN {[configured |-> FALSE, deployed |-> FALSE, status |-> "not_configured"]}
      ELSE {[configured |-> TRUE, deployed |-> FALSE, status |-> "unreachable"],
            [configured |-> TRUE, deployed |-> TRUE, status |-> "deployed"],
            [configured |-> TRUE, deployed |-> FALSE, status |-> "error"]}

ContractHealthy(contract) ==
    ~contract.configured \/ (contract.deployed /\ contract.status # "error")

\* Horizon answered or the abort timer fired; dbOk is always true, for
\* getMigrationVersion never throws.
ProbesAnswer(p) ==
    /\ polling[p].at = "probing"
    /\ \E connected \in BOOLEAN, contract \in checkContractDeploymentStatus :
          polling' = [polling EXCEPT ![p] = [@ EXCEPT !.at = "monitor", !.seen = healthClock,
                                                      !.ok = connected /\ ContractHealthy(contract)]]
    /\ UNCHANGED <<healthClock, cachedHealth, lastRecordedAt, history, served, checks, report>>

recordHealthSnapshot(stamp, now, ok) == history \cup {[at |-> stamp, asked |-> now, ok |-> ok]}
pruneHealthHistory(rows) == {r \in rows : r.at >= healthClock - HealthRetention}

CachesUntil(p) ==
    cachedHealth' = [seen |-> polling[p].seen, expires |-> polling[p].now + CACHE_TTL]

\* The monitor has answered or thrown: cache, record at most once an interval.
HealthAnswers(p) ==
    /\ polling[p].at = "monitor"
    /\ CachesUntil(p)
    /\ IF polling[p].now - lastRecordedAt >= RECORD_INTERVAL
         THEN /\ lastRecordedAt' = polling[p].now
              /\ history' = pruneHealthHistory(
                               recordHealthSnapshot(healthClock, polling[p].now, polling[p].ok))
         ELSE UNCHANGED <<lastRecordedAt, history>>
    /\ polling' = [polling EXCEPT ![p] = Nowhere]
    /\ UNCHANGED <<healthClock, served, checks, report>>

\* What the history and the SLA pages read.
getHealthHistory(ticks) == {r \in history : r.at > healthClock - ticks}
getSLAStats(ticks) ==
    LET rows == {r \in history : r.at > healthClock - ticks}
    IN  [totalSnapshots   |-> Cardinality(rows),
         healthySnapshots |-> Cardinality({r \in rows : r.ok}),
         fullUptime       |-> \A r \in rows : r.ok]

-----------------------------------------------------------------------------
\* GET /health/detailed: five checks at once, each raced with a timer.

Verdict == {"ok", "degraded", "error"}

GetDetailed ==
    /\ report # "running"
    /\ report' = "running"
    /\ checks' = [k \in Component |-> "running"]
    /\ UNCHANGED <<healthClock, cachedHealth, lastRecordedAt, history, polling, served>>

\* checkDatabase, checkHorizonConnectivity, checkSorobanConnectivity,
\* checkContractDeploymentStatus, checkConnectionHealthAsync: healthy in time,
\* healthy but slow, or not healthy.
CheckAnswersFor(k) ==
    /\ report = "running" /\ checks[k] = "running"
    /\ \E v \in Verdict : checks' = [checks EXCEPT ![k] = v]
    /\ UNCHANGED <<healthClock, cachedHealth, lastRecordedAt, history, polling, served, report>>

\* Mutant: no timer, so a dependency that never answers holds the check.
CheckHangs(k) == FALSE /\ UNCHANGED healthVars

\* The timer rejects: an error whose result has lost every field of the check.
runCheck(k) ==
    /\ report = "running" /\ checks[k] = "running"
    /\ checks' = [checks EXCEPT ![k] = "timeout"]
    /\ UNCHANGED <<healthClock, cachedHealth, lastRecordedAt, history, polling, served, report>>

IsError(k) == checks[k] \in {"error", "timeout"}
Critical == {"database", "horizon", "soroban"}

\* contract.configured is missing from the result of a check that timed out.
ContractConfigured == Configured /\ checks["contract"] # "timeout"

OverallStatus ==
    IF (\E k \in Critical : IsError(k)) \/ (ContractConfigured /\ IsError("contract"))
      THEN "unhealthy"
    ELSE IF (\E k \in Critical : checks[k] = "degraded")
              \/ (ContractConfigured /\ checks["contract"] = "degraded")
      THEN "degraded"
    ELSE "healthy"

DetailedAnswers ==
    /\ report = "running"
    /\ \A k \in Component : checks[k] # "running"
    /\ report' = OverallStatus
    /\ UNCHANGED <<healthClock, cachedHealth, lastRecordedAt, history, polling, served, checks>>

\* GET /ready: both dependencies must answer.
Ready == ~IsError("database") /\ ~IsError("horizon")

PollNext ==
    \/ HealthTicks
    \/ \E p \in Poller : GetHealth(p) \/ ProbesAnswer(p) \/ HealthAnswers(p)

DetailedNext ==
    GetDetailed \/ DetailedAnswers \/ \E k \in Component : CheckAnswersFor(k) \/ runCheck(k)

-----------------------------------------------------------------------------
\* A verdict served from the cache was observed less than a TTL ago, however
\* long the request that cached it waited; snapshots are an interval apart and
\* the history and the SLA page count the same ones; and a detailed report that is
\* not unhealthy means a server that is ready.
HealthIsFresh ==
    /\ \A p \in Poller : served[p] < CACHE_TTL
    /\ \A r, s \in history : r # s => r.asked - s.asked >= RECORD_INTERVAL
                                       \/ s.asked - r.asked >= RECORD_INTERVAL
    /\ \A n \in 1..LastTick :
          LET sla == getSLAStats(n)
          IN  /\ sla.totalSnapshots = Cardinality(getHealthHistory(n))
              /\ sla.fullUptime <=> sla.healthySnapshots = sla.totalSnapshots
    /\ report \in {"healthy", "degraded"} => Ready

\* A detailed check is answered even when a dependency never answers.
DetailedIsAnswered == report = "running" ~> report # "running"

-----------------------------------------------------------------------------
(***************************************************************************)
(* The metrics of distributions and the alerts on them (metrics.js).       *)
(*                                                                         *)
(* Outcomes are counted in buckets; a monitor pass walks over the          *)
(* contracts and awaits the webhook of every alert it sends, so passes          *)
(* overlap each other and the outcomes that come in meanwhile.             *)
(***************************************************************************)

CONSTANTS
    Watched,          \* contracts
    ALERT_WINDOW, ALERT_HISTORY, DedupeWindow,
    MinTotal, MaxRate, \* the rule: at least MinTotal outcomes, more than MaxRate percent failed
    AlertPass,        \* passes of the monitor that may overlap
    LastSecond,       \* bound on the clock
    MaxOutcomes       \* bound on outcomes recorded

ASSUME Windows == /\ ALERT_WINDOW \in Nat \ {0} /\ ALERT_HISTORY \in Nat /\ ALERT_HISTORY >= ALERT_WINDOW
                  /\ DedupeWindow \in Nat

VARIABLES
    second,
    buckets,          \* per contract: a sequence of start, total, failed
    totals,           \* per contract: outcomes ever
    ruleOn,           \* the rule is there and enabled
    alertState,       \* per contract and kind: when the last alert went out, 0 for never
    alerts,           \* the alerts triggered: contract and kind, instant
    alertPasses,      \* per pass: the contracts it has still to look at
    awaited           \* per pass: the contract whose webhook it awaits

alertVars == <<second, buckets, totals, ruleOn, alertState, alerts, alertPasses, awaited>>

Nobody == "nobody"
Kind == {"anomaly", "error_rate"}
MAX_BUCKETS == (ALERT_HISTORY + ALERT_WINDOW - 1) \div ALERT_WINDOW

AlertInit ==
    /\ second = DedupeWindow             \* far from the epoch
    /\ buckets = [c \in Watched |-> <<>>]
    /\ totals = [c \in Watched |-> 0]
    /\ ruleOn = TRUE
    /\ alertState = [k \in Watched \X Kind |-> 0]
    /\ alerts = {}
    /\ alertPasses = [p \in AlertPass |-> {}]
    /\ awaited = [p \in AlertPass |-> Nobody]

SecondPasses ==
    /\ second < LastSecond
    /\ second' = second + 1
    /\ UNCHANGED <<buckets, totals, ruleOn, alertState, alerts, alertPasses, awaited>>

-----------------------------------------------------------------------------
\* Outcomes.

\* Old buckets are dropped only when a new one is opened: the first ones, up to the
\* first that is young, and one more when there are too many.
Young(bs) == {i \in DOMAIN bs : bs[i].start >= second - ALERT_HISTORY}
Pruned(bs) ==
    LET young == SubSeq(bs, Min(Young(bs)), Len(bs))
    IN  IF Len(young) > MAX_BUCKETS THEN Tail(young) ELSE young

OpenBucket(bs) ==
    IF bs = <<>> \/ second - bs[Len(bs)].start >= ALERT_WINDOW
      THEN Pruned(Append(bs, [start |-> second, total |-> 0, failed |-> 0]))
      ELSE bs

updateContractMetrics(c, success) ==
    LET bs == OpenBucket(buckets[c])
        n == Len(bs)
    IN  /\ buckets' = [buckets EXCEPT ![c] = [bs EXCEPT ![n].total = @ + 1,
                                                        ![n].failed = IF success THEN @ ELSE @ + 1]]
        /\ totals' = [totals EXCEPT ![c] = @ + 1]

Outcomes == MapThenSumSet(LAMBDA c : totals[c], Watched)

\* Mutant: the instant of the alert is not kept.
shouldSendAlways(c, kind) ==
    /\ alerts' = alerts \cup {[about |-> <<c, kind>>, at |-> second]}
    /\ UNCHANGED alertState

\* One alert of a kind per contract in a dedupe window; the instant is kept before the
\* webhook is awaited, and whether or not the webhook takes it.
shouldSendAlert(c, kind) ==
    IF second - alertState[<<c, kind>>] < DedupeWindow
      THEN UNCHANGED <<alertState, alerts>>
      ELSE /\ alertState' = [alertState EXCEPT ![<<c, kind>>] = second]
           /\ alerts' = alerts \cup {[about |-> <<c, kind>>, at |-> second]}

Sends(c, kind) == second - alertState[<<c, kind>>] >= DedupeWindow

\* An anomaly (amount, token or latency) is judged before the outcome is counted.
recordDistributionOutcome(c, success, anomaly) ==
    /\ Outcomes < MaxOutcomes
    /\ updateContractMetrics(c, success)
    /\ IF ruleOn /\ anomaly THEN shouldSendAlert(c, "anomaly") ELSE UNCHANGED <<alertState, alerts>>
    /\ UNCHANGED <<second, ruleOn, alertPasses, awaited>>

configureAlertRules ==
    /\ ruleOn' = ~ruleOn
    /\ UNCHANGED <<second, buckets, totals, alertState, alerts, alertPasses, awaited>>

-----------------------------------------------------------------------------
\* The monitor.

Total(bs) == SumFunction([i \in DOMAIN bs |-> bs[i].total])
Failures(bs) == SumFunction([i \in DOMAIN bs |-> bs[i].failed])

getErrorRateAbove(c) ==
    LET total == Total(buckets[c])
    IN  total >= MinTotal /\ 100 * Failures(buckets[c]) > MaxRate * total

startAlertMonitor(p) ==
    /\ alertPasses[p] = {} /\ awaited[p] = Nobody
    /\ alertPasses' = [alertPasses EXCEPT ![p] = {c \in Watched : buckets[c] # <<>>}]
    /\ alertPasses'[p] # {}
    /\ UNCHANGED <<second, buckets, totals, ruleOn, alertState, alerts, awaited>>

\* One contract of the walk; an alert awaits its webhook before the next one.
evaluateErrorRateAlerts(p, c) ==
    /\ c \in alertPasses[p] /\ awaited[p] = Nobody
    /\ alertPasses' = [alertPasses EXCEPT ![p] = @ \ {c}]
    /\ IF ruleOn /\ getErrorRateAbove(c)
         THEN /\ shouldSendAlert(c, "error_rate")
              /\ awaited' = [awaited EXCEPT ![p] = IF Sends(c, "error_rate") THEN c ELSE Nobody]
         ELSE UNCHANGED <<alertState, alerts, awaited>>
    /\ UNCHANGED <<second, buckets, totals, ruleOn>>

\* The webhook took the alert, or failed and was logged.
postToWebhook(p) ==
    /\ awaited[p] # Nobody
    /\ awaited' = [awaited EXCEPT ![p] = Nobody]
    /\ UNCHANGED <<second, buckets, totals, ruleOn, alertState, alerts, alertPasses>>

AlertNext ==
    \/ SecondPasses \/ configureAlertRules
    \/ \E c \in Watched, success \in BOOLEAN, anomaly \in BOOLEAN :
          recordDistributionOutcome(c, success, anomaly)
    \/ \E p \in AlertPass :
          \/ startAlertMonitor(p) \/ postToWebhook(p)
          \/ \E c \in Watched : evaluateErrorRateAlerts(p, c)

-----------------------------------------------------------------------------
\* Whatever passes and outcomes overlap, two alerts of a kind on a contract are a
\* dedupe window apart; the buckets hold no more than the history, in order, and
\* nothing that the totals do not.
AlertsAreSpaced ==
    /\ \A a, b \in alerts :
          a.about = b.about /\ a.at < b.at => b.at - a.at >= DedupeWindow
    /\ \A c \in Watched :
          /\ Len(buckets[c]) <= MAX_BUCKETS
          /\ \A i, j \in DOMAIN buckets[c] :
                i < j => buckets[c][j].start - buckets[c][i].start >= ALERT_WINDOW
          /\ Failures(buckets[c]) <= Total(buckets[c])
          /\ Total(buckets[c]) <= totals[c]
=============================================================================
