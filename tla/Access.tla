------------------------------- MODULE Access -------------------------------
(***************************************************************************)
(* Who may call, and how often: signed requests (verify-signature.js), the *)
(* server's own key (signing-key.js, secrets-manager.js, routes/admin.js)  *)
(* and the metering of API keys (database/rate-limit.js,                   *)
(* routes/admin-api-keys.js).                                              *)
(***************************************************************************)
EXTENDS Integers, Sequences, FiniteSets, FiniteSetsExt, Functions

CONSTANTS
    Nonce,
    SIGNATURE_MAX_AGE, NONCE_TTL, NONCE_MAX_ENTRIES,
    LastInstant,      \* bound on the clock
    MaxAccepted,      \* bound on the accepted counter
    Secret,           \* signing secrets; those that parse are Good
    Good,
    Provided,         \* a secrets provider is configured
    ApiKey,
    KeyLimit,         \* custom limits an admin may set
    DEFAULT_AUTH_LIMIT, HistoryMinutes,
    MaxMetered        \* bound on requests metered

None == "none"

ASSUME GoodSecrets == Good \subseteq Secret /\ None \notin Secret
\* The defaults are 5 and 10 minutes, and 50000 entries.
ASSUME NoncesOutliveSignatures ==
    /\ SIGNATURE_MAX_AGE \in Int /\ NONCE_TTL \in Int /\ NONCE_TTL > SIGNATURE_MAX_AGE
    /\ NONCE_MAX_ENTRIES \in Nat \ {0}
ASSUME MeterAssumption == IsFiniteSet(ApiKey) /\ HistoryMinutes \in Nat

VARIABLES
    instant,
    nonceCache,       \* a sequence in insertion order: nonce, expiry
    letters,          \* signed requests on the wire; any may arrive again
    accepted,         \* per nonce: times a request with it was accepted
    pushedOut,        \* nonces evicted because the cache was full
    activeKeypair, lastRotationSource,
    provider,         \* what the provider holds
    reload,           \* a reload from the provider: none, or what it read
    offered,          \* per source: the secrets it gave
    keyRows,          \* api_keys: label and custom limit
    events,           \* rate_limit_events: per key and minute, requests and blocked
    minute, metered

nonceVars == <<instant, nonceCache, letters, accepted, pushedOut>>
keyVars == <<activeKeypair, lastRotationSource, provider, reload, offered>>
meterVars == <<keyRows, events, minute, metered>>
accessVars == <<nonceVars, keyVars, meterVars>>

NoLimit == 0          \* custom_limit_per_minute is null
Source == {"api", "secrets_reload", "file_reload", "provider"}

AccessInit ==
    /\ instant = 1 /\ nonceCache = <<>> /\ letters = {} /\ pushedOut = {}
    /\ accepted = [n \in Nonce |-> 0]
    /\ activeKeypair = None /\ lastRotationSource = None
    /\ provider = (CHOOSE s \in Secret : TRUE) /\ reload = None
    /\ offered = [s \in Source |-> {}]
    /\ keyRows = <<>> /\ events = <<>> /\ minute = 1 /\ metered = 0

-----------------------------------------------------------------------------
\* Signed requests.

InstantPasses ==
    /\ instant < LastInstant
    /\ instant' = instant + 1
    /\ UNCHANGED <<nonceCache, letters, accepted, pushedOut>>

\* A client signs a request with a fresh nonce and its clock.
ClientSigns(n) ==
    /\ \A l \in letters : l.nonce # n
    /\ letters' = letters \cup {[nonce |-> n, timestamp |-> instant]}
    /\ UNCHANGED <<instant, nonceCache, accepted, pushedOut>>

\* Every entry of the map lives NONCE_TTL and the map is in order of insertion, so
\* the expired entries come first.
Live == {i \in DOMAIN nonceCache : nonceCache[i].expires > instant}
evictExpired == IF Live = {} THEN <<>> ELSE SubSeq(nonceCache, Min(Live), Len(nonceCache))
isNonceSeen(n) == \E i \in DOMAIN evictExpired : evictExpired[i].nonce = n

\* Mutant: a nonce is remembered only as long as a signature is valid.
recordNonceBriefly(n) ==
    /\ nonceCache' = Append(evictExpired, [nonce |-> n, expires |-> instant + SIGNATURE_MAX_AGE])
    /\ UNCHANGED pushedOut

\* At the cap the oldest entry makes room.
recordNonce(n) ==
    LET kept == evictExpired
        full == Len(kept) >= NONCE_MAX_ENTRIES
    IN  /\ nonceCache' = Append(IF full THEN Tail(kept) ELSE kept,
                                [nonce |-> n, expires |-> instant + NONCE_TTL])
        /\ pushedOut' = IF full THEN pushedOut \cup {Head(kept).nonce} ELSE pushedOut

\* The first delivery of a request, or a repeated one.
verifyRequestSignature(l) ==
    LET age == instant - l.timestamp
    IN  /\ age >= 0 /\ age <= SIGNATURE_MAX_AGE
        /\ ~isNonceSeen(l.nonce)
        /\ accepted[l.nonce] < MaxAccepted
        /\ recordNonce(l.nonce)
        /\ accepted' = [accepted EXCEPT ![l.nonce] = @ + 1]
        /\ UNCHANGED <<instant, letters>>

\* A request that is too old, or seen: refused, and expired nonces go.
RefusesSignature(l) ==
    /\ instant - l.timestamp > SIGNATURE_MAX_AGE \/ isNonceSeen(l.nonce)
    /\ nonceCache' = IF instant - l.timestamp > SIGNATURE_MAX_AGE THEN nonceCache ELSE evictExpired
    /\ UNCHANGED <<instant, letters, accepted, pushedOut>>

verifySignatureMiddleware == \E l \in letters : verifyRequestSignature(l) \/ RefusesSignature(l)

NonceNext == InstantPasses \/ verifySignatureMiddleware \/ \E n \in Nonce : ClientSigns(n)

-----------------------------------------------------------------------------
\* The server's signing key.

Parses(secret) == secret \in Good

\* parseSigningSecret throws before anything is assigned.
rotateSigningKey(secret, source) ==
    IF Parses(secret) THEN activeKeypair' = secret /\ lastRotationSource' = source
                      ELSE UNCHANGED <<activeKeypair, lastRotationSource>>

OffersWhenGood(source, secret) ==
    offered' = IF Parses(secret) THEN [offered EXCEPT ![source] = @ \cup {secret}] ELSE offered

\* Start-up: without a provider the server runs keyless.
initializeSigningKey ==
    /\ activeKeypair = None
    /\ Provided
    /\ Parses(provider)
    /\ activeKeypair' = provider /\ lastRotationSource' = "provider"
    /\ offered' = [offered EXCEPT !["provider"] = @ \cup {provider}]
    /\ UNCHANGED <<provider, reload>>

ProviderChanges ==
    /\ provider' \in Secret \ {provider}
    /\ UNCHANGED <<activeKeypair, lastRotationSource, reload, offered>>

\* POST /rotate-key with a secret: its schema wants one of the right form.
PostRotateKey(secret) ==
    /\ rotateSigningKey(secret, "api")
    /\ OffersWhenGood("api", secret)
    /\ UNCHANGED <<provider, reload>>

\* POST /rotate-key with reloadFromProvider: AWS or Vault is asked ...
loadSigningSecret ==
    /\ Provided /\ reload = None
    /\ reload' = provider
    /\ UNCHANGED <<activeKeypair, lastRotationSource, provider, offered>>

\* ... and answers after other rotations may have been made.
reloadSigningKeyFromSecretsProvider ==
    /\ reload # None
    /\ rotateSigningKey(reload, "secrets_reload")
    /\ OffersWhenGood("secrets_reload", reload)
    /\ reload' = None
    /\ UNCHANGED provider

ReloadFails ==
    /\ reload # None
    /\ reload' = None
    /\ UNCHANGED <<activeKeypair, lastRotationSource, provider, offered>>

reloadSigningKeyFromSecretsFile ==
    /\ Provided
    /\ rotateSigningKey(provider, "file_reload")
    /\ OffersWhenGood("file_reload", provider)
    /\ UNCHANGED <<provider, reload>>

getSigningKeyStatus == [configured |-> activeKeypair # None, source |-> lastRotationSource]

KeyNext ==
    \/ initializeSigningKey \/ ProviderChanges \/ loadSigningSecret
    \/ reloadSigningKeyFromSecretsProvider \/ ReloadFails \/ reloadSigningKeyFromSecretsFile
    \/ \E s \in Secret : PostRotateKey(s)

-----------------------------------------------------------------------------
\* Metering of API keys.

MinutePasses ==
    /\ minute < 3
    /\ minute' = minute + 1
    /\ UNCHANGED <<keyRows, events, metered>>

\* An insert, or an update that puts the given label, null too, over the old.
upsertKey(k, label) ==
    keyRows' = [x \in DOMAIN keyRows \cup {k} |->
                  IF x # k THEN keyRows[x]
                  ELSE [label |-> label, limit |-> IF k \in DOMAIN keyRows THEN keyRows[k].limit ELSE NoLimit]]

registerApiKey(k, label) == upsertKey(k, label)
setApiKeyLimit(k, limit) == k \in DOMAIN keyRows /\ keyRows' = [keyRows EXCEPT ![k].limit = limit]

Count(cell) == IF cell \in DOMAIN events THEN events[cell] ELSE [requests |-> 0, blocked |-> 0]
Old(cell) == cell[2] < minute - HistoryMinutes

upsertEvent(k, blocked) ==
    LET cell == <<k, minute>>
    IN  events' = [x \in {c \in DOMAIN events \cup {cell} : ~Old(c)} |->
                     IF x # cell THEN events[x]
                     ELSE [requests |-> Count(cell).requests + 1,
                           blocked |-> Count(cell).blocked + (IF blocked THEN 1 ELSE 0)]]

\* The general limiter lets the request pass, or its handler answers 429.
recordApiKeyRequest(k, blocked) ==
    /\ metered < MaxMetered
    /\ metered' = metered + 1
    /\ upsertKey(k, None)
    /\ upsertEvent(k, blocked)
    /\ UNCHANGED minute

Requests(cells) == SumFunctionOnSet([c \in DOMAIN events |-> events[c].requests], cells)
Blocked(cells) == SumFunctionOnSet([c \in DOMAIN events |-> events[c].blocked], cells)
Window(k, back) == {c \in DOMAIN events : c[1] = k /\ c[2] >= minute - back}
LimitOf(k) == IF keyRows[k].limit = NoLimit THEN DEFAULT_AUTH_LIMIT ELSE keyRows[k].limit

\* This minute and the one before; capped at 100 percent.
getApiKeyCurrentUsage(k) ==
    LET requests == Requests(Window(k, 1))
    IN  [requestsPerMinute |-> requests,
         blockedPerMinute  |-> Blocked(Window(k, 1)),
         limit             |-> LimitOf(k),
         approaching       |-> 10 * requests >= 8 * LimitOf(k)]

\* The overview joins every key with its events in one query of its own.
getAllApiKeysUsage ==
    LET joined == [k \in DOMAIN keyRows |-> {c \in DOMAIN events : c[1] = k /\ c[2] >= minute - 1}]
    IN  {[key               |-> k,
          requestsPerMinute |-> Requests(joined[k]),
          blockedPerMinute  |-> Blocked(joined[k]),
          limit             |-> LimitOf(k),
          approaching       |-> 10 * Requests(joined[k]) >= 8 * LimitOf(k)] : k \in DOMAIN keyRows}

getApproachingLimitAlerts == {usage \in getAllApiKeysUsage : usage.approaching}

getApiKeyHistory(k, minutes) ==
    [totalRequests |-> Requests(Window(k, minutes)),
     totalBlocked  |-> Blocked(Window(k, minutes)),
     activeMinutes |-> Cardinality(Window(k, minutes))]

\* The admin routes on API keys; PATCH answers 404 for a key nobody has used or registered.
PostRegister(k, label) ==
    /\ registerApiKey(k, label)
    /\ UNCHANGED <<events, minute, metered>>

PatchLimit(k, limit) ==
    /\ setApiKeyLimit(k, limit)
    /\ UNCHANGED <<events, minute, metered>>

GetUsage == [data |-> getAllApiKeysUsage, count |-> Cardinality(getAllApiKeysUsage)]
GetAlerts == [data |-> getApproachingLimitAlerts, count |-> Cardinality(getApproachingLimitAlerts)]

GetKeyUsage(k) ==
    IF k \in DOMAIN keyRows THEN [status |-> 200, data |-> {getApiKeyCurrentUsage(k)}]
                            ELSE [status |-> 404, data |-> {}]

GetKeyHistory(k, minutes) ==
    CASE minutes \notin 1 .. HistoryMinutes -> [status |-> 400, data |-> {}]
      [] k \notin DOMAIN keyRows -> [status |-> 404, data |-> {}]
      [] OTHER -> [status |-> 200, data |-> {getApiKeyHistory(k, minutes)}]

MeterNext ==
    \/ MinutePasses
    \/ \E k \in ApiKey :
          \/ \E label \in {"named", None} : PostRegister(k, label)
          \/ \E limit \in KeyLimit \cup {NoLimit} : PatchLimit(k, limit)
          \/ \E blocked \in BOOLEAN : recordApiKeyRequest(k, blocked)

-----------------------------------------------------------------------------
\* A signed request that is delivered again is accepted again only if its nonce
\* was pushed out of a full cache: while it is remembered it is refused, and
\* when it is forgotten its timestamp is too old, to the very instant.
NonceIsUsedOnce == \A n \in Nonce : accepted[n] <= 1 \/ n \in pushedOut

\* The key in use is one that the source named in the status gave, and a
\* rotation that fails leaves key and source as they were.
KeyCameFromItsSource ==
    /\ getSigningKeyStatus.configured <=> lastRotationSource # None
    /\ getSigningKeyStatus.configured => activeKeypair \in offered[lastRotationSource]

\* The pages on API keys agree: the overview, a key's own page, the alerts and
\* the history are queries of their own over the same events, blocked requests
\* are among the requests, and no request of the last minutes is missing from
\* the history or counted twice.
UsageViewsAgree ==
    /\ GetUsage.count = Cardinality(DOMAIN keyRows)
    /\ GetAlerts.count <= GetUsage.count
    /\ \A k \in ApiKey : (GetKeyUsage(k).status = 404) = (\A u \in GetUsage.data : u.key # k)
    /\ \A overview \in GetUsage.data :
          \A own \in GetKeyUsage(overview.key).data, past \in GetKeyHistory(overview.key, HistoryMinutes).data :
             /\ own.requestsPerMinute = overview.requestsPerMinute
             /\ own.blockedPerMinute = overview.blockedPerMinute
             /\ own.limit = overview.limit /\ own.approaching = overview.approaching
             /\ own.blockedPerMinute <= own.requestsPerMinute
             /\ own.requestsPerMinute <= past.totalRequests
             /\ past.totalRequests <= metered
             /\ past.activeMinutes <= past.totalRequests
             /\ own.approaching <=> overview \in GetAlerts.data
=============================================================================
