----------------------------- MODULE ReadCaches -----------------------------
(***************************************************************************)
(* The cached reads of one contract: its collaborators                     *)
(* (backend/src/routes/collaborators.js) and its state (routes/contract.js)*)
(* over cache.js, the recommended fee (stellar.js, retried by              *)
(* rpc-retry.js) and the royalty statistics (routes/secondary-royalty.js). *)
(* What is read has a version; time is counted in units of the lead time.  *)
(***************************************************************************)
EXTENDS Integers

LOCAL INSTANCE Functions

CONSTANTS
    TTL,         \* lifetime of a cache entry
    LEAD,        \* CACHE_WARM_LEAD_TIME_MS
    MaxVersion,
    MaxMisses,   \* bound on the handlers that read one thing for themselves
    FeeRetries,  \* maxRetries that getRecommendedFee asks for
    Nothing      \* undefined, null or an absent map entry

Cached == {"collaborators", "state"}

VARIABLES
    version,   \* what the network holds
    store,     \* cacheStore: value and time left
    stale,     \* the copy that may be served after the entry expired
    inflight,  \* the background refresh: the version when it was sent
    refreshAt, \* time until the scheduled refresh
    misses,    \* handlers that wait for their own read: how many for each such version
    served,    \* what the last reader got (observed)
    fee,       \* feeCache
    feeCall,   \* getRecommendedFee under way: attempts made; 0 for none
    stats      \* statsCache: value and time left

cacheVars == <<version, store, stale, inflight, refreshAt, misses, served, fee, feeCall, stats>>

Empty == [value |-> Nothing, left |-> 0]

CachesInit ==
    /\ version = 1
    /\ store = [c \in Cached |-> Empty]
    /\ stale = [c \in Cached |-> Nothing]
    /\ inflight = [c \in Cached |-> Nothing]
    /\ refreshAt = [c \in Cached |-> Nothing]
    /\ misses = [c \in Cached |-> [v \in 1..MaxVersion |-> 0]]
    /\ served = [c \in Cached |-> Nothing]
    /\ fee = Empty /\ feeCall = 0
    /\ stats = Empty

-----------------------------------------------------------------------------
cacheSet(s, c, v) == [s EXCEPT ![c] = [value |-> v, left |-> TTL]]

cacheGet(c) == store[c].left > 0

\* A collaborators entry is renewed when its time minus the lead is over, a
\* state entry a lead time after it was set.
Delay(c) == IF c = "state" THEN LEAD ELSE TTL - LEAD

\* A hit: collaborators get a timer if they have none, a state entry that is
\* about to expire is refreshed at once unless a refresh is under way.
Hit(c) ==
    /\ cacheGet(c)
    /\ served' = [served EXCEPT ![c] = store[c].value]
    /\ refreshAt' = [refreshAt EXCEPT ![c] =
                    CASE c = "collaborators" -> IF @ = Nothing THEN Delay(c) ELSE @
                      [] c = "state" -> IF store[c].left <= LEAD /\ inflight[c] = Nothing
                                        THEN 0 ELSE @]
    /\ UNCHANGED <<version, store, stale, inflight, misses, fee, feeCall, stats>>

\* Expired, with an old copy: serve it and refresh behind it.
ServeStale(c) ==
    /\ ~cacheGet(c) /\ stale[c] # Nothing
    /\ served' = [served EXCEPT ![c] = stale[c]]
    /\ inflight' = [inflight EXCEPT ![c] = IF @ = Nothing THEN version ELSE @]
    /\ UNCHANGED <<version, store, stale, refreshAt, misses, fee, feeCall, stats>>

\* Nothing to serve: the handler reads for itself, whoever else does.
Miss(c) ==
    /\ ~cacheGet(c) /\ stale[c] = Nothing
    /\ FoldFunction(+, 0, misses[c]) < MaxMisses
    /\ misses' = [misses EXCEPT ![c][version] = @ + 1]
    /\ UNCHANGED <<version, store, stale, inflight, refreshAt, served, fee, feeCall, stats>>

MissEnds(c, sent) == misses[c][sent] > 0 /\ misses' = [misses EXCEPT ![c][sent] = @ - 1]

\* The answer is what the network held at some moment since the read was sent;
\* it replaces what another handler has cached meanwhile.
warmCacheSet(c) == \E sent \in 1..version :
    /\ MissEnds(c, sent)
    /\ \E v \in sent..version :
          /\ store' = cacheSet(store, c, v)
          /\ stale' = [stale EXCEPT ![c] = v]
          /\ served' = [served EXCEPT ![c] = v]
    /\ refreshAt' = [refreshAt EXCEPT ![c] = Delay(c)]
    /\ UNCHANGED <<version, inflight, fee, feeCall, stats>>

ReadFails(c) == \E sent \in 1..version :
    /\ MissEnds(c, sent)
    /\ UNCHANGED <<version, store, stale, inflight, refreshAt, served, fee, feeCall, stats>>

\* The timer fires; a refresh that is under way is left alone.
scheduleRefresh(c) ==
    /\ refreshAt[c] = 0
    /\ refreshAt' = [refreshAt EXCEPT ![c] = Nothing]
    /\ inflight' = [inflight EXCEPT ![c] = IF @ = Nothing THEN version ELSE @]
    /\ UNCHANGED <<version, store, stale, misses, served, fee, feeCall, stats>>

\* The refresh answers: collaborators keep the value as the copy to serve
\* later, the state drops its copy.
refreshContractState(c) ==
    /\ inflight[c] # Nothing
    /\ \E v \in inflight[c]..version :
          /\ store' = cacheSet(store, c, v)
          /\ stale' = [stale EXCEPT ![c] = IF c = "collaborators" THEN v ELSE Nothing]
    /\ refreshAt' = [refreshAt EXCEPT ![c] = Delay(c)]
    /\ inflight' = [inflight EXCEPT ![c] = Nothing]
    /\ UNCHANGED <<version, misses, served, fee, feeCall, stats>>

\* The finally block lets the next refresh start.
RefreshFails(c) ==
    /\ inflight[c] # Nothing
    /\ inflight' = [inflight EXCEPT ![c] = Nothing]
    /\ UNCHANGED <<version, store, stale, refreshAt, misses, served, fee, feeCall, stats>>

\* The minute's sweep: contracts that were asked for get a timer again.
Sweep ==
    /\ stale["collaborators"] # Nothing /\ refreshAt["collaborators"] = Nothing
    /\ refreshAt' = [refreshAt EXCEPT !["collaborators"] = Delay("collaborators")]
    /\ UNCHANGED <<version, store, stale, inflight, misses, served, fee, feeCall, stats>>

-----------------------------------------------------------------------------
\* Fee and statistics.

\* Classified in this order: message, then status, then code, then message.
isTransientError == [simulation |-> FALSE, account_not_found |-> FALSE, http_429 |-> TRUE,
                     http_503 |-> TRUE, http_504 |-> TRUE, http_408 |-> TRUE, http_4xx |-> FALSE,
                     network |-> TRUE, timed_out |-> TRUE, unknown |-> FALSE]

\* A cached fee is used while it is fresh; otherwise /fee_stats is asked.
getRecommendedFee ==
    /\ feeCall = 0 /\ fee.left = 0
    /\ feeCall' = 1
    /\ UNCHANGED <<version, store, stale, inflight, refreshAt, misses, served, fee, stats>>

FeeArrives ==
    /\ feeCall > 0
    /\ fee' = [value |-> version, left |-> TTL]
    /\ feeCall' = 0
    /\ UNCHANGED <<version, store, stale, inflight, refreshAt, misses, served, stats>>

\* A transient error is retried; otherwise the caller gets BASE_FEE, uncached.
withRetry == \E e \in DOMAIN isTransientError :
    /\ feeCall > 0
    /\ feeCall' = IF isTransientError[e] /\ feeCall < FeeRetries THEN feeCall + 1 ELSE 0
    /\ UNCHANGED <<version, store, stale, inflight, refreshAt, misses, served, fee, stats>>

GetStats ==
    /\ stats' = IF stats.left > 0 THEN stats ELSE [value |-> version, left |-> TTL]
    /\ UNCHANGED <<version, store, stale, inflight, refreshAt, misses, served, fee, feeCall>>

-----------------------------------------------------------------------------
Down(n) == IF n = Nothing \/ n = 0 THEN n ELSE n - 1
Older(e) == [e EXCEPT !.left = Down(@)]

Tick ==
    /\ store' = [c \in Cached |-> Older(store[c])]
    /\ refreshAt' = [c \in Cached |-> Down(refreshAt[c])]
    /\ fee' = Older(fee)
    /\ stats' = Older(stats)
    /\ UNCHANGED <<version, stale, inflight, misses, served, feeCall>>

\* Somebody changes the contract.
Change ==
    /\ version < MaxVersion
    /\ version' = version + 1
    /\ UNCHANGED <<store, stale, inflight, refreshAt, misses, served, fee, feeCall, stats>>

Read(c) == Hit(c) \/ ServeStale(c) \/ Miss(c)

CacheNext(c) ==
    \/ Read(c) \/ warmCacheSet(c) \/ ReadFails(c) \/ scheduleRefresh(c)
    \/ refreshContractState(c) \/ RefreshFails(c)
    \/ c = "collaborators" /\ Sweep
    \/ Tick \/ Change

FeeNext == getRecommendedFee \/ FeeArrives \/ withRetry \/ GetStats \/ Tick \/ Change
=============================================================================
