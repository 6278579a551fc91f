---------------------------- MODULE Transactions ----------------------------
(***************************************************************************)
(* The transactions table and its archive (backend/src/database/           *)
(* transactions.js, archive.js) with the routes of routes/history.js:      *)
(* confirmation against Horizon, archival, and reading the history by      *)
(* cursor.  One contract.  Time is in units of the archive's retention     *)
(* granularity; a confirmation is a request with one await in it.          *)
(***************************************************************************)
EXTENDS Naturals, Sequences, FiniteSets, SequencesExt

-----------------------------------------------------------------------------
(***************************************************************************)
(* Distribution webhooks: the webhooks table (backend/src/database/        *)
(* webhooks.js), the first delivery of a confirmed distribution            *)
(* (webhook-delivery.js), the retry job (jobs/retry-failed-webhooks.js)    *)
(* and the routes, for one contract.  A notification is named by its       *)
(* hash.  Backoff delays are abstracted to "later", which becomes "due" as *)
(* time passes.                                                            *)
(***************************************************************************)

CONSTANTS
    Hook,        \* rows of the webhooks table, one per URL
    NoNote,      \* payload is NULL
    Pass,        \* passes of the retry job that may overlap
    MAX_WEBHOOK_RETRIES,
    MaxEdits     \* bound on registrations and removals

ASSUME HooksAssumption == IsFiniteSet(Hook)

VARIABLES
    hook,     \* the row: known, enabled, retry_count, next_retry_time, payload
    posts,    \* first deliveries in flight, with the row as it was read
    passes,   \* per pass: the due rows as they were read, the first being posted
    dlq,      \* webhook_dlq
    arrived,  \* notifications the receivers accepted (observed)
    missed,   \* notifications whose delivery failed (observed)
    edits

webhookVars == <<hook, posts, passes, dlq, arrived, missed, edits>>

Absent == [known |-> FALSE, enabled |-> FALSE, retry |-> 0, next |-> "none", payload |-> NoNote]

WebhooksInit ==
    /\ hook = [h \in Hook |-> Absent]
    /\ posts = {}
    /\ passes = [p \in Pass |-> <<>>]
    /\ dlq = {}
    /\ arrived = {}
    /\ missed = {}
    /\ edits = 0

-----------------------------------------------------------------------------
\* The table.

\* Upsert: a known row is enabled again with its counters reset and its payload
\* as it was.
registerWebhook(w) == [w EXCEPT !.known = TRUE, !.enabled = TRUE, !.retry = 0, !.next = "none"]

listWebhooks == {h \in Hook : hook[h].enabled}

deleteWebhook(w) == [w EXCEPT !.enabled = FALSE]

updateWebhookRetryStateWithPayload(w, retry, next, payload) ==
    [w EXCEPT !.retry = retry, !.next = next, !.payload = payload]

getWebhooksDueForRetry ==
    {h \in Hook : /\ hook[h].enabled
                  /\ hook[h].retry < MAX_WEBHOOK_RETRIES
                  /\ hook[h].next = "due"}

resetWebhookRetryCount(w) == [w EXCEPT !.retry = 0, !.next = "none", !.payload = NoNote]

moveToDlq(h, note) == dlq' = dlq \cup {<<h, note>>}

-----------------------------------------------------------------------------
\* Routes.

PostWebhooks(h) ==
    /\ edits < MaxEdits
    /\ edits' = edits + 1
    /\ hook' = [hook EXCEPT ![h] = registerWebhook(@)]
    /\ UNCHANGED <<posts, passes, dlq, arrived, missed>>

DeleteWebhooks(h) ==
    /\ edits < MaxEdits
    /\ hook[h].enabled
    /\ edits' = edits + 1
    /\ hook' = [hook EXCEPT ![h] = deleteWebhook(@)]
    /\ UNCHANGED <<posts, passes, dlq, arrived, missed>>

-----------------------------------------------------------------------------
\* First delivery: one concurrent post per enabled row, by some confirmation.
deliverDistributeWebhooks(note, by) ==
    posts' = posts \cup {[hook |-> h, note |-> note, retry |-> hook[h].retry, by |-> by] :
                            h \in listWebhooks}

\* postWebhook resolves (2xx) or rejects (another status, network, timeout).
Arrives(h, note) == arrived' = arrived \cup {<<h, note>>} /\ UNCHANGED missed
Misses(h, note) == missed' = missed \cup {<<h, note>>} /\ UNCHANGED arrived

\* The attempt that failed, counted from the row as it was read before the post.
RetryCount(read) == read.retry + 1

FirstDelivered(post) ==
    /\ post \in posts
    /\ posts' = posts \ {post}
    /\ Arrives(post.hook, post.note)
    /\ hook' = [hook EXCEPT ![post.hook] = resetWebhookRetryCount(@)]
    /\ UNCHANGED <<passes, dlq, edits>>

FirstFailed(post) ==
    LET retry == RetryCount(post) IN
    /\ post \in posts
    /\ posts' = posts \ {post}
    /\ Misses(post.hook, post.note)
    /\ hook' = [hook EXCEPT ![post.hook] =
                  updateWebhookRetryStateWithPayload(@, retry, "later", post.note)]
    /\ IF retry >= MAX_WEBHOOK_RETRIES THEN moveToDlq(post.hook, post.note) ELSE UNCHANGED dlq
    /\ UNCHANGED <<passes, edits>>

-----------------------------------------------------------------------------
\* The retry job.  setInterval starts a pass whether or not the last has ended;
\* a pass reads the due rows once and posts them one after the other.

BackoffPasses(h) ==
    /\ hook[h].next = "later"
    /\ hook' = [hook EXCEPT ![h].next = "due"]
    /\ UNCHANGED <<posts, passes, dlq, arrived, missed, edits>>

StartPass(p) ==
    /\ passes[p] = <<>>
    /\ getWebhooksDueForRetry # {}
    /\ \E order \in SetToSeqs(getWebhooksDueForRetry) :
          passes' = [passes EXCEPT ![p] =
                       [i \in DOMAIN order |-> [hook |-> order[i], row |-> hook[order[i]]]]]
    /\ UNCHANGED <<hook, posts, dlq, arrived, missed, edits>>

RetryDelivered(p) ==
    /\ passes[p] # <<>>
    /\ LET h == Head(passes[p]).hook IN
       /\ Arrives(h, Head(passes[p]).row.payload)
       /\ hook' = [hook EXCEPT ![h] = resetWebhookRetryCount(@)]
    /\ passes' = [passes EXCEPT ![p] = Tail(@)]
    /\ UNCHANGED <<posts, dlq, edits>>

\* The last failure clears the schedule and keeps the payload; it does not go to
\* the dead-letter table.
RetryFailed(p) ==
    /\ passes[p] # <<>>
    /\ LET h == Head(passes[p]).hook
           row == Head(passes[p]).row
           retry == RetryCount(row)
           next == IF retry >= MAX_WEBHOOK_RETRIES THEN "none" ELSE "later"
       IN /\ Misses(h, row.payload)
          /\ hook' = [hook EXCEPT ![h] =
                        updateWebhookRetryStateWithPayload(@, retry, next, row.payload)]
    /\ passes' = [passes EXCEPT ![p] = Tail(@)]
    /\ UNCHANGED <<posts, dlq, edits>>

FirstDelivery == \E post \in posts : FirstDelivered(post) \/ FirstFailed(post)
RetryPass(p) == RetryDelivered(p) \/ RetryFailed(p)

WebhooksNext ==
    \/ FirstDelivery
    \/ \E h \in Hook : PostWebhooks(h) \/ DeleteWebhooks(h) \/ BackoffPasses(h)
    \/ \E p \in Pass : StartPass(p) \/ RetryPass(p)

-----------------------------------------------------------------------------
\* A row that is scheduled for a retry holds the payload to retry with, whatever
\* the overlap of first deliveries, retry passes and registrations: the job never
\* posts a NULL payload.
ScheduledHasPayload ==
    /\ \A h \in Hook : hook[h].next # "none" => hook[h].payload # NoNote
    /\ \A p \in Pass : \A i \in DOMAIN passes[p] : passes[p][i].row.payload # NoNote

\* Once distributions stop being confirmed the job falls silent: every row is
\* delivered, used up or removed, though overlapping passes write counts they read
\* long before.
RetriesEnd == <>[](getWebhooksDueForRetry = {} /\ \A p \in Pass : passes[p] = <<>>)

-----------------------------------------------------------------------------
\* The transactions table and its archive.

CONSTANTS
    MaxTx,      \* bound on recorded transactions
    Hash,       \* Horizon transaction hashes
    NoHash,     \* txHash is NULL
    Call,       \* confirmation requests
    Retention,  \* retentionDays of the policy
    BatchSize,  \* batchSize of an archive run
    Limit,      \* page size of a reader
    MaxClock    \* bound on time

ASSUME TransactionsAssumption ==
    /\ Limit \in Nat \ {0} /\ MaxClock \in Nat
    /\ NoHash \notin Hash /\ NoNote \notin Hash

VARIABLES
    rows,      \* transactions, by id
    archive,   \* contract_event_archive, by originalTransactionId
    policy,    \* event_archive_policy.enabled
    calls,     \* confirmation requests awaiting Horizon, or done
    chain,     \* what Horizon answers for each hash
    clock,
    walk       \* a reader paging through the history: cursor, what it saw, where it began

txVars == <<rows, archive, policy, calls, chain, clock, walk>>
vars == <<webhookVars, txVars>>

Settled == {"confirmed", "failed"}
NoBlockTime == MaxClock + 1
Idle == [at |-> "idle", hash |-> NoHash]
NoWalk == [on |-> FALSE, cursor |-> <<>>, filters |-> {}, seen |-> <<>>, from |-> {}]

TransactionsInit ==
    /\ WebhooksInit
    /\ rows = <<>>
    /\ archive = <<>>
    /\ policy = TRUE
    /\ calls = [c \in Call |-> Idle]
    /\ chain = [h \in Hash |-> "not_found"]
    /\ clock = 0
    /\ walk = NoWalk

\* rows and archive are functions from a set of ids; ids are never reused.
Ids == DOMAIN rows \cup DOMAIN archive
Without(f, ids) == [i \in DOMAIN f \ ids |-> f[i]]
Take(s, n) == SubSeq(s, 1, IF n < Len(s) THEN n ELSE Len(s))
With(f, i, row) == [j \in DOMAIN f \cup {i} |-> IF j = i THEN row ELSE f[j]]

\* ORDER BY ... LIMIT n over S: what is left out comes after n others.
Query(S, Precedes(_, _), n) ==
    {s \in UNION {[1..k -> S] : k \in 0..n} :
        /\ \A a, b \in DOMAIN s : a < b => Precedes(s[a], s[b])
        /\ \A x \in S \ Range(s) : Len(s) = n /\ \A a \in DOMAIN s : Precedes(s[a], x)}

-----------------------------------------------------------------------------
\* transactions.js

recordTransaction(type) ==
    With(rows, Cardinality(Ids) + 1,
         [type |-> type, status |-> "pending", hash |-> NoHash,
          timestamp |-> clock, blockTime |-> NoBlockTime, by |-> "record"])

updateTransactionHash(i, h) == [rows EXCEPT ![i].hash = h]

\* UPDATE ... WHERE txHash = ?, whatever the status; by is who wrote blockTime
\* and errorMessage.
updateTransactionStatus(h, status, blockTime, by) ==
    [i \in DOMAIN rows |->
        IF rows[i].hash = h
        THEN [rows[i] EXCEPT !.status = status, !.blockTime = blockTime, !.by = by]
        ELSE rows[i]]

\* The live row of a hash, else the archived one; none is {}.
getTransactionDetails(table, h) ==
    LET live == {table[i] : i \in {j \in DOMAIN table : table[j].hash = h}}
        old == {archive[i] : i \in {j \in DOMAIN archive : archive[j].hash = h}}
    IN IF live # {} THEN live ELSE old

getTransactionById(i) == IF i \in DOMAIN rows THEN {rows[i]} ELSE {}

\* (timestamp DESC, id DESC)
Before(k, l) == k[1] > l[1] \/ (k[1] = l[1] /\ k[2] > l[2])
SortKey(i) == <<rows[i].timestamp, i>>

\* The optional filters, here on the type; {} is none.
Matches(row, filters) == filters = {} \/ row.type \in filters

\* Mutant: ties on the timestamp are not broken by the id.
LooseAfter(cursor) ==
    {i \in DOMAIN rows : cursor = <<>> \/ rows[i].timestamp < cursor[1]}

\* The rows that follow a cursor.
AfterCursor(cursor) ==
    {i \in DOMAIN rows : cursor = <<>> \/ Before(cursor, SortKey(i))}

\* limit + 1 rows are read; one too many means there is a next page.
getTransactionHistoryCursor(limit, cursor, filters) ==
    LET match == {i \in AfterCursor(cursor) : Matches(rows[i], filters)}
        Page(read) == [data |-> Take(read, limit),
                       nextCursor |-> IF Len(read) > limit THEN read[limit] ELSE <<>>]
    IN {Page(read) : read \in Query({SortKey(i) : i \in match}, Before, limit + 1)}

\* The page at an offset of 0, which the history serves while there is no cursor: the
\* same rows in the same order.  It says whether there are more (hasNextPage) and
\* gives no cursor: a reader makes its first one of the last row, as encodeCursor does.
getTransactionHistory(limit, filters) == getTransactionHistoryCursor(limit, <<>>, filters)

-----------------------------------------------------------------------------
\* archive.js

updateArchivePolicy(enabled) == policy' = enabled

EventTime(row) == IF row.blockTime = NoBlockTime THEN row.timestamp ELSE row.blockTime

Older(i, j) ==
    \/ EventTime(rows[i]) < EventTime(rows[j])
    \/ EventTime(rows[i]) = EventTime(rows[j]) /\ i < j

\* The oldest rows before the cutoff, settled or not.
ArchiveCandidates(batchSize) ==
    LET expired == {i \in DOMAIN rows : EventTime(rows[i]) + Retention < clock}
    IN {Range(read) : read \in Query(expired, Older, batchSize)}

\* One database transaction: INSERT OR IGNORE ... SELECT, then DELETE.
archiveContractEvents(batchSize) ==
    \E ids \in ArchiveCandidates(batchSize) :
        /\ policy
        /\ ids # {}
        /\ archive' = [i \in DOMAIN archive \cup ids |->
                          IF i \in DOMAIN archive THEN archive[i] ELSE rows[i]]
        /\ rows' = Without(rows, ids)

-----------------------------------------------------------------------------
\* The world outside: routes that record transactions, the ledger, the clock.

Record(type) ==
    /\ Cardinality(Ids) < MaxTx
    /\ rows' = recordTransaction(type)
    /\ UNCHANGED <<webhookVars, archive, policy, calls, chain, clock, walk>>

LedgerSettles(h) ==
    /\ chain[h] = "not_found"
    /\ \E outcome \in Settled : chain' = [chain EXCEPT ![h] = outcome]
    /\ UNCHANGED <<webhookVars, rows, archive, policy, calls, clock, walk>>

Tick ==
    /\ clock < MaxClock
    /\ clock' = clock + 1
    /\ UNCHANGED <<webhookVars, rows, archive, policy, calls, chain, walk>>

-----------------------------------------------------------------------------
\* POST /transaction/confirm/:txHash

\* Mutant: a pending row is linked even if it already carries another hash.
Relinkable(i, h) == \E row \in getTransactionById(i) : row.status = "pending"

\* A row found by transactionId takes the hash if it is pending and has no other.
Linkable(i, h) ==
    \E row \in getTransactionById(i) : row.status = "pending" /\ row.hash \in {NoHash, h}

\* Up to the await: find the row, link it, and go on only if it is pending.
ConfirmStart(c, h, i) ==
    /\ calls[c].at = "idle"
    /\ IF getTransactionDetails(rows, h) # {} THEN rows' = rows
       ELSE Linkable(i, h) /\ rows' = updateTransactionHash(i, h)
    /\ \E found \in getTransactionDetails(rows', h) : found.status = "pending"
    /\ calls' = [calls EXCEPT ![c] = [at |-> "polling", hash |-> h]]
    /\ UNCHANGED <<webhookVars, archive, policy, chain, clock, walk>>

\* The outcome pollHorizonTransaction returns.
PollOutcome(h, outcome) == chain[h] = outcome

\* After the await: the row is written without a second look at its status, and
\* a confirmed distribution is announced.  blockTime is the client's or Horizon's.
ConfirmSettle(c) ==
    LET h == calls[c].hash IN
    /\ calls[c].at = "polling"
    /\ \E outcome \in Settled, blockTime \in 0..clock :
          /\ PollOutcome(h, outcome)
          /\ rows' = updateTransactionStatus(h, outcome, blockTime, c)
          /\ IF /\ outcome = "confirmed"
                /\ \E found \in getTransactionDetails(rows', h) : found.type = "distribute"
             THEN deliverDistributeWebhooks(h, c)
             ELSE UNCHANGED posts
    /\ calls' = [calls EXCEPT ![c].at = "done"]
    /\ UNCHANGED <<hook, passes, dlq, arrived, missed, edits, archive, policy, chain, clock, walk>>

\* pollHorizonTransaction gives up with a 504: the row stays as it is.
ConfirmTimeout(c) ==
    /\ calls[c].at = "polling"
    /\ calls' = [calls EXCEPT ![c] = Idle]
    /\ UNCHANGED <<webhookVars, rows, archive, policy, chain, clock, walk>>

-----------------------------------------------------------------------------
\* POST /archive/policy and POST /archive/run

PostArchivePolicy(enabled) ==
    /\ policy # enabled
    /\ updateArchivePolicy(enabled)
    /\ UNCHANGED <<webhookVars, rows, archive, calls, chain, clock, walk>>

PostArchiveRun ==
    /\ archiveContractEvents(BatchSize)
    /\ UNCHANGED <<webhookVars, policy, calls, chain, clock, walk>>

-----------------------------------------------------------------------------
\* GET /history/:contractId: the first page without a cursor, the others with that of
\* the page before, up to the one without a next.

GetHistoryPage ==
    /\ walk.on \/ walk.seen = <<>>
    /\ \E filters \in IF walk.on THEN {walk.filters} ELSE {{}, {"distribute"}} :
       \E page \in IF walk.on THEN getTransactionHistoryCursor(Limit, walk.cursor, filters)
                                ELSE getTransactionHistory(Limit, filters) :
          walk' = [on |-> page.nextCursor # <<>>, cursor |-> page.nextCursor, filters |-> filters,
                   seen |-> walk.seen \o page.data,
                   from |-> IF walk.on THEN walk.from
                            ELSE {i \in DOMAIN rows : Matches(rows[i], filters)}]
    /\ UNCHANGED <<webhookVars, rows, archive, policy, calls, chain, clock>>

ConfirmNext ==
    \/ \E h \in Hash : LedgerSettles(h)
    \/ \E c \in Call :
          \/ ConfirmSettle(c) \/ ConfirmTimeout(c)
          \/ \E h \in Hash, i \in 1..MaxTx : ConfirmStart(c, h, i)

HistoryNext ==
    \/ \E type \in {"distribute", "initialize"} : Record(type)
    \/ Tick
    \/ \E enabled \in BOOLEAN : PostArchivePolicy(enabled)
    \/ PostArchiveRun
    \/ GetHistoryPage

TransactionsSpec ==
    TransactionsInit /\ [][ConfirmNext \/ HistoryNext \/ (WebhooksNext /\ UNCHANGED txVars)]_vars

-----------------------------------------------------------------------------
\* A row says confirmed or failed only if the ledger says so of
\* the hash the row carries, and no two rows carry one hash.
RowsMatchLedger ==
    /\ \A i \in DOMAIN rows : rows[i].status \in Settled =>
           rows[i].hash # NoHash /\ rows[i].status = chain[rows[i].hash]
    /\ \A i, j \in DOMAIN rows : rows[i].hash = rows[j].hash /\ rows[i].hash # NoHash => i = j

\* A row keeps the hash it was linked to.
HashSticks ==
    [][\A i \in DOMAIN rows \cap DOMAIN rows' :
          rows[i].hash # NoHash => rows'[i].hash = rows[i].hash]_vars

\* Every transaction that was recorded is in exactly one of the two tables.
NothingVanishes ==
    /\ Ids = 1..Cardinality(Ids)
    /\ DOMAIN rows \cap DOMAIN archive = {}

\* A reader that follows the cursors sees no row twice, and by the last page every
\* row that was there when it began and has not been archived since, though new
\* rows arrive and timestamps tie.
WalkIsExact ==
    LET ids == {walk.seen[n][2] : n \in DOMAIN walk.seen} IN
    /\ Cardinality(ids) = Len(walk.seen)
    /\ walk.on \/ walk.seen = <<>> \/ walk.from \cap DOMAIN rows \subseteq ids
=============================================================================
