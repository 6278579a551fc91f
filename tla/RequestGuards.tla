--------------------------- MODULE RequestGuards ----------------------------
(***************************************************************************)
(* What stands between the network and the distribute handler: the request *)
(* timer (backend/src/index.js), the wallet and contract rate limits       *)
(* (middleware/tieredRateLimit.js), the in-flight deduplication            *)
(* (middleware/dedup.js) and the idempotency cache (idempotency.js).  All  *)
(* requests here carry the same body, so they share one dedup key and one  *)
(* pair of rate-limit keys; their Idempotency-Keys may differ.             *)
(***************************************************************************)
EXTENDS Naturals, Sequences, FiniteSets, SequencesExt

CONSTANTS
    Req, Key, NoKey, Nobody,
    WALLET_MAX, CONTRACT_MAX,  \* requests per window
    MAX_ENTRIES,               \* size of the idempotency cache
    MaxTurns                   \* bound on rate-limit windows and cache expiries

ASSUME GuardsAssumption == Nobody \notin Req

VARIABLES
    key,       \* Idempotency-Key header of each request
    stage,     \* new, following, running, over: how far the request is
    reply,     \* what the client has received
    inFlight,  \* the request whose promise is in the map
    timer,     \* requests whose dedup timer is armed
    leader,    \* whose promise a follower waits for
    shared,    \* what a request's promise has settled to
    cache,     \* cached keys, oldest first
    wallet, contract,  \* hits in the current windows
    lost,      \* times the map forgot a handler that still ran (observed)
    turns

guardVars == <<key, stage, reply, inFlight, timer, leader, shared, cache, wallet, contract, lost,
               turns>>

GuardsInit ==
    /\ key \in [Req -> Key \cup {NoKey}]
    /\ stage = [r \in Req |-> "new"]
    /\ reply = [r \in Req |-> "none"]
    /\ inFlight = Nobody
    /\ timer = {}
    /\ leader = [r \in Req |-> Nobody]
    /\ shared = [r \in Req |-> "pending"]
    /\ cache = <<>>
    /\ wallet = 0 /\ contract = 0
    /\ lost = 0
    /\ turns = 0

Running == {r \in Req : stage[r] = "running"}

\* Removing the map entry forgets its owner if the owner's handler goes on.
Forgotten(r) == IF inFlight # Nobody /\ inFlight # r /\ inFlight \in Running THEN 1 ELSE 0

-----------------------------------------------------------------------------
\* The idempotency cache.

getCachedResponse(k) == k # NoKey /\ k \in Range(cache)

\* Insertion order; a key that is already there keeps its place, and the
\* oldest entry is evicted even then.
cacheResponse(k) ==
    LET kept == IF Len(cache) >= MAX_ENTRIES THEN Tail(cache) ELSE cache
    IN  IF k \in Range(kept) THEN kept ELSE Append(kept, k)

\* Twenty-four hours after it was stored, or swept by the interval.
cleanupExpiredEntries ==
    /\ turns < MaxTurns /\ cache # <<>>
    /\ cache' = Tail(cache)
    /\ turns' = turns + 1
    /\ UNCHANGED <<key, stage, reply, inFlight, timer, leader, shared, wallet, contract, lost>>

-----------------------------------------------------------------------------
\* A request comes in.

walletLimiter == wallet + 1 <= WALLET_MAX
contractLimiter == contract + 1 <= CONTRACT_MAX

\* The wallet is counted first; a request it refuses is not counted for the
\* contract.
TooMany(r) ==
    /\ stage[r] = "new" /\ ~(walletLimiter /\ contractLimiter)
    /\ stage' = [stage EXCEPT ![r] = "over"]
    /\ reply' = [reply EXCEPT ![r] = "429"]
    /\ wallet' = wallet + 1
    /\ contract' = IF walletLimiter THEN contract + 1 ELSE contract
    /\ UNCHANGED <<key, inFlight, timer, leader, shared, cache, lost, turns>>

Admit(r) ==
    /\ stage[r] = "new" /\ walletLimiter /\ contractLimiter
    /\ wallet' = wallet + 1 /\ contract' = contract + 1

\* dedupMiddleware: an identical request is in flight, wait for its answer.
Follow(r) ==
    /\ Admit(r)
    /\ inFlight # Nobody
    /\ stage' = [stage EXCEPT ![r] = "following"]
    /\ leader' = [leader EXCEPT ![r] = inFlight]
    /\ UNCHANGED <<key, reply, inFlight, timer, shared, cache, lost, turns>>

\* idempotencyMiddleware: the key has an answer, given through the res.json
\* that dedupMiddleware has wrapped, so the entry just made is gone again.
Replay(r) ==
    /\ Admit(r)
    /\ inFlight = Nobody
    /\ getCachedResponse(key[r])
    /\ stage' = [stage EXCEPT ![r] = "over"]
    /\ reply' = [reply EXCEPT ![r] = "2xx"]
    /\ shared' = [shared EXCEPT ![r] = "2xx"]
    /\ UNCHANGED <<key, inFlight, timer, leader, cache, lost, turns>>

\* Mutant: a request with a key of its own is not looked up in the map.
LeadBesides(r) ==
    /\ Admit(r)
    /\ inFlight = Nobody \/ key[r] # NoKey
    /\ ~getCachedResponse(key[r])
    /\ stage' = [stage EXCEPT ![r] = "running"]
    /\ inFlight' = r
    /\ timer' = timer \cup {r}
    /\ UNCHANGED <<key, reply, leader, shared, cache, lost, turns>>

\* The handler starts.
Lead(r) ==
    /\ Admit(r)
    /\ inFlight = Nobody
    /\ ~getCachedResponse(key[r])
    /\ stage' = [stage EXCEPT ![r] = "running"]
    /\ inFlight' = r
    /\ timer' = timer \cup {r}
    /\ UNCHANGED <<key, reply, leader, shared, cache, lost, turns>>

-----------------------------------------------------------------------------
\* Ends.

Settle(r, s) == shared' = [shared EXCEPT ![r] = IF @ = "pending" THEN s ELSE @]

\* The window closes: the entry is dropped if it is still this request's, and
\* the followers are rejected.  The handler goes on.
DedupExpires(r) ==
    /\ r \in timer
    /\ timer' = timer \ {r}
    /\ IF inFlight = r
       THEN inFlight' = Nobody /\ Settle(r, "rejected") /\ lost' = lost + 1
       ELSE UNCHANGED <<inFlight, shared, lost>>
    /\ UNCHANGED <<key, stage, reply, leader, cache, wallet, contract, turns>>

\* The wrapped res.json: the timer is cleared, the entry deleted whoever owns
\* it, the promise settled.
interceptedJson(r, s) ==
    /\ timer' = timer \ {r}
    /\ inFlight' = Nobody
    /\ Settle(r, s)

TimesOut(r) ==
    /\ reply[r] = "none"
    /\ reply' = [reply EXCEPT ![r] = "503"]
    /\ IF stage[r] = "running"
       THEN interceptedJson(r, "503")
            /\ lost' = lost + Forgotten(r) + (IF inFlight = r THEN 1 ELSE 0)
       ELSE UNCHANGED <<timer, inFlight, shared, lost>>
    /\ UNCHANGED <<key, stage, leader, cache, wallet, contract, turns>>

\* The request timer answers 503 while the handler goes on.
RequestTimeout(r) == stage[r] \in {"running", "following"} /\ TimesOut(r)

\* The handler answers: a 2xx is cached under the key unless the timer has
\* answered before, which left 503 in the status the wrapper remembers.
Answer(r, s) ==
    /\ stage[r] = "running"
    /\ stage' = [stage EXCEPT ![r] = "over"]
    /\ reply' = [reply EXCEPT ![r] = IF @ = "none" THEN s ELSE @]
    /\ cache' = IF key[r] # NoKey /\ s = "2xx" /\ reply[r] = "none"
                THEN cacheResponse(key[r]) ELSE cache
    /\ interceptedJson(r, s)
    /\ lost' = lost + Forgotten(r)
    /\ UNCHANGED <<key, leader, wallet, contract, turns>>

FollowerAnswered(r) ==
    /\ stage[r] = "following" /\ shared[leader[r]] # "pending"
    /\ stage' = [stage EXCEPT ![r] = "over"]
    /\ reply' = [reply EXCEPT ![r] =
                    IF @ # "none" THEN @
                    ELSE IF shared[leader[r]] = "rejected" THEN "500" ELSE shared[leader[r]]]
    /\ UNCHANGED <<key, inFlight, timer, leader, shared, cache, wallet, contract, lost, turns>>

\* A fixed window per limiter.
WindowTurns ==
    /\ turns < MaxTurns
    /\ turns' = turns + 1
    /\ \/ wallet > 0 /\ wallet' = 0 /\ UNCHANGED contract
       \/ contract > 0 /\ contract' = 0 /\ UNCHANGED wallet
    /\ UNCHANGED <<key, stage, reply, inFlight, timer, leader, shared, cache, lost>>

Arrive(r) == TooMany(r) \/ Follow(r) \/ Replay(r) \/ Lead(r)

GuardsNext ==
    \/ \E r \in Req : \/ Arrive(r) \/ DedupExpires(r) \/ RequestTimeout(r)
                      \/ (\E s \in {"2xx", "500"} : Answer(r, s)) \/ FollowerAnswered(r)
    \/ cleanupExpiredEntries \/ WindowTurns

GuardsSpec == GuardsInit /\ [][GuardsNext]_guardVars

-----------------------------------------------------------------------------
\* Two handlers run for one body only after the map forgot a running one: its
\* window closed, its request timed out, or another's late answer deleted it.
DuplicatesOnlyWhenLost == Cardinality(Running) <= 1 + lost

\* Whatever happens to the request it waits for, a follower gets an answer.
EveryoneIsAnswered == \A r \in Req : (stage[r] # "new") ~> (reply[r] # "none")
=============================================================================
