----------------------------- MODULE MCRequests -----------------------------
(***************************************************************************)
(* How requests are handled, a scene each: two requests of any two kinds   *)
(* with a payout that contends with them for the lock; the guards in front *)
(* of the handlers; each cached read; the fee and its statistics.          *)
(***************************************************************************)
EXTENDS TxRoutes, RequestGuards, ReadCaches

CONSTANTS First, Second, Third

VARIABLE scene

mcVars == <<vars, guardVars, cacheVars, scene>>

Order == <<"initialize", "commit", "reveal", "distribute", "upgrade", "batch", "tokens", "sale",
           "set_rate", "payout">>
Rank(k) == CHOOSE i \in DOMAIN Order : Order[i] = k

\* The order of the two does not matter.
RequestsInit ==
    /\ scene \in {"building", "guards", "fee"} \cup Cached
    /\ RoutesInit /\ GuardsInit /\ CachesInit
    /\ kind[Third] = "payout"
    /\ Rank(kind[First]) <= Rank(kind[Second])
    /\ scene # "building" => kind[First] = "payout"
    /\ scene # "guards" => \A r \in Req : key[r] = NoKey

RequestsNext ==
    /\ UNCHANGED scene
    /\ \/ scene = "building" /\ RoutesNext /\ UNCHANGED <<guardVars, cacheVars>>
       \/ scene = "guards" /\ GuardsNext /\ UNCHANGED <<vars, cacheVars>>
       \/ \E x \in Cached : scene = x /\ CacheNext(x) /\ UNCHANGED <<vars, guardVars>>
       \/ scene = "fee" /\ FeeNext /\ UNCHANGED <<vars, guardVars>>

\* Every RPC call ends, with an answer or with its timeout, and promises that
\* are settled resume: a handler that can go on does.
HandlersGoOn == \A r \in Request : WF_vars(scene = "building" /\ Handle(r))

\* The request timers fire.
TimersFire == \A r \in Req : WF_guardVars(scene = "guards" /\ RequestTimeout(r))

\* Time passes, readers keep coming, and the network answers again and again.
Reading(A(_)) == scene \in Cached /\ A(scene)
RefreshEnds(x) == RefreshFails(x) \/ refreshContractState(x)
CachesFairness ==
    /\ WF_cacheVars(scene \in Cached /\ Tick)
    /\ WF_cacheVars(Reading(Read)) /\ WF_cacheVars(Reading(scheduleRefresh))
    /\ SF_cacheVars(Reading(refreshContractState)) /\ SF_cacheVars(Reading(warmCacheSet))
    /\ WF_cacheVars(Reading(RefreshEnds))

RequestsSpec == RequestsInit /\ [][RequestsNext]_mcVars /\ HandlersGoOn /\ TimersFire /\ CachesFairness

-----------------------------------------------------------------------------
\* Once the contract has stopped changing, every reader ends up with its last
\* state: neither the stale copies nor a failed refresh can keep an old one.
ReadersCatchUp ==
    (scene \in Cached /\ version = MaxVersion) ~> (scene \in Cached /\ served[scene] = MaxVersion)

\* Everybody gets an answer: the request that waits for the lock behind a build
\* that fails, the duplicate that waits for another's answer, and the reader who
\* is served from a cache.
RequestsAreAnswered == EveryRequestEnds /\ EveryoneIsAnswered /\ ReadersCatchUp
=============================================================================
