# Stellar Royalty Splitter: TLA+ specifications and proofs

This directory specifies the behaviour of the Stellar Royalty Splitter, checks it
with TLC on small instances and proves most of its safety with TLAPS for every instance.
`PROJECT.json` lists the components, the runs, which source lines every
definition models, the mutants, the findings and the hazards the properties are
aimed at.

Contents: 1 the system, 2 the modules, 3 what TLC checks, 4 fairness and
refinement, 5 where code and documentation differ, 6 what is proved, 7 only
model-checked, 8 not modelled, 9 notes on the sources, 10 what could come next.

## 1. The system

| Part | State it keeps | What moves it |
|---|---|---|
| Soroban contract (`src/lib.rs`) | instance and persistent storage (`StorageKey`), balances on token contracts | transactions signed by wallets |
| Backend (`backend/src`) | SQLite tables; in-memory maps (trackers, locks, caches, nonces, in-flight requests, buckets) | HTTP requests, WebSocket messages, interval jobs, signals |
| Frontend (`frontend/src`) | React state, `localStorage`, IndexedDB, a service worker | the user, the Freighter extension, answers of the backend, timers |
| Scripts, infrastructure, CI | none at run time | - |

The contract owns the money and every rule about it. The backend never moves
money: it prepares transactions, records them, a wallet signs them in the browser,
the contract decides, and the backend finds out from Horizon what became of them.
Backend and frontend are single-threaded JavaScript: a handler runs undisturbed
from one `await` to the next, so everything hard in them is what may happen during
an `await` (another request, another pass of a job, a restart, a change of page,
contract or account), and what never comes back.

### The contract's parts

* **Share arithmetic.** Shares are basis points (10 000 = 100 %). An amount is
  split by flooring everybody's part but the last recipient's, who takes the
  remainder. Incentives take bonuses off the top and shrink the base shares.
  *Correct when* nothing is lost or invented and rounding favours only the last.
* **Initialization and shares.** `initialize`, or `commit_initialize` and, in a
  later ledger, `reveal_initialize`; then `set_recipients`,
  `set_default_recipients`, `update_share`. *Correct when* the collaborator
  vector, the share map and the join dates agree and add up to 10 000.
* **Administration.** A single admin, handed on by `admin_transfer`,
  `propose_admin_transfer`/`accept_admin` or a timelocked rotation; an optional
  admin list of which the first `AdminThreshold` entries must sign. *Correct
  when* nobody is locked out, a rotation waits its time, and the list is changed
  only by itself.
* **Switches.** Global pause, one pause per operation, the emergency pause
  (set by the admins or by the anomaly check, cleared by *all* listed admins), the
  anomaly threshold, the token whitelist. *Correct when* a switch stops what it
  says it stops.
* **Payments.** `distribute`, `distribute_with_override`, `batch_distribute`,
  `distribute_resilient`, `distribute_with_incentives` pay the whole balance of a
  token; `record_secondary_royalty` collects a pool in one token that
  `distribute_secondary` pays; `withdraw` pays the admin. They all draw on the same
  balance. *Correct when* nothing is spent twice and a pool is paid once, in full.
* **Royalty rate and governance.** `set_royalty_rate` by the admins;
  `propose_rate_change`, `vote`, `execute_proposal` by share-weighted majority.
  *Correct when* only majorities execute, once, and the history tells one story.
* **Disputes, upgrade.** `clawback` pulls tokens from accounts that sign and closes
  the dispute, once; a repeated `migrate` is recorded once.

### The backend's parts

| Part | Operations | Hard because |
|---|---|---|
| Transaction-building routes, account lock | ten POST routes over `retryBuildTx`, `buildTx`, `withAccountBuildLock` | builds of one wallet wait for each other, fail and retry in between, and rows are written before anything is signed |
| Request guards | request timer, two limiters, in-flight map, idempotency cache | an entry may be dropped while its request runs; late answers delete what is there now |
| Cached reads | collaborators, contract state, fee, statistics | stale copies are served while a refresh runs or fails |
| Transactions, confirmation, archive | record, link, confirm, page, archive | state checked before an `await` and written after it; rows move while somebody pages |
| Finality tracking | track, set hash, poll, time out, clean up | loops live in memory and records on disk; a timeout races an answer |
| Webhooks | first delivery, retry passes | counts read before an `await` and written after; passes overlap |
| WebSocket hub, notifications | subscribe, push, prune | a socket may be gone when it is pushed to |
| Payment schedules | next-run calculation, interval job | read as due, changed, then marked |
| Referrals, holds, tickets, contributors, mail, reports | staff routes and jobs | the audit write throws after the rows are written; passes overlap |
| Views of the ledger | analytics, ranking, earnings, metrics, fees | one figure, several queries and caches, two text formats of a time |
| Pool, process, monitoring, access | acquire/release, migrations, shutdown, health, alerts, nonces, keys, meters | restarts, time-outs, full caches, open WebSockets |

### The frontend's parts

The setup form (commit, reveal, drafts), the distribution form and the state of
its payment, the transaction list with its export, the earnings dashboard and
chart, three staff forms, the shell (wallet, network, contract, session), the
offline write queue with its service worker, and the WebSocket feed. Nothing
cancels a request there: what is hard is that answers arrive in any order, after
the contract, the wallet or the page they belong to is gone.

## 2. The modules

```
ShareMath                    arithmetic, pure operators
SumTheorems                  lemmas: induction, sums over sets, lists made by queries
  ShareMathProofs            lemmas: splits, incentive adjustments
  SplitterState              storage, clock, authorization, pauses
    SplitterSetup            initialization, recipients, shares
      SplitterPayments       money in and out, the secondary pool, disputes, clawback
      SplitterGovernance     rate, history, proposals
    SplitterAdmin            admin key, admin list, switches, upgrade
RoyaltySplitter              composes them: Init, Next, Spec, TypeOK
  ContractProofs             theorems: administration, rate, votes, types, split,
                             money, disputes, tallies
  MCSplitter                 scenes of the contract
MCShareMath                  ShareMath over bounded inputs, with its theorems

WebSocketHub <- Finality     hub and notifications; finality tracking over it
Transactions                 webhooks; confirmation, history, archive over them
ConnectionPool, ServerLife, Monitoring, Access
  MCBackstage                scenes of the backend behind its requests
    BackstageProofs          theorems about them

AccountMutex                 abstract: what the account lock promises
TxRoutes                     the lock and its refinement mapping; the routes that use it
RequestGuards, ReadCaches
  RequestProofs              theorems: the lock, the routes, the guards
  MCRequests                 scenes of requests

Tables                       lists made by queries and pages; the audit log's actions
PaymentSchedules, CaseFiles, Contributors, Correspondence
LedgerViews <- Reports       figures; snapshots and compliance reports
  MCRecords                  scenes of the back office
    RecordsProofs            theorems about them

SetupForm, PayForm, HistoryView, EarningsViews, OfficeForms
BrowserSession, BrowserOffline, LiveFeed
  MCFrontend                 scenes of the web application
    FrontendProofs           theorems about them
```

### How the contract's modules correspond to the code

* **One variable per storage key**, named after it (`adminList` is
  `StorageKey::AdminList`). An absent entry is `None`, an empty vector `<<>>`, an
  empty map `EmptyMap`, or the default the code reads in its place when no caller
  can tell the two apart (`AdminThreshold` 1, `Paused` false, `RoyaltyRate` 0).
  `Proposals`, `ProposalVotes` and `Disputes` are keyed by a counter that starts
  at 1 and never lose an entry, so they are sequences.
* **One action per entry point.** Soroban runs a call atomically and rolls back
  every write and transfer of a call that returns `Err` or panics. So every early
  return is a conjunct of the action and a failing call is a step that does not
  happen. Where a call returns `Ok` early (the anomaly trip, a migration already
  recorded, a rejected proposal) that is an outcome of its own.
* **Signatures.** A call carries a set `signers`; `require_auth` is membership.
  `check_admin_auth` is the code's: the first `AdminThreshold` entries of the list,
  or the single admin.
* **Time.** `ledger` stands for the ledger sequence and its timestamp.
* **Tokens** are external: `balance[token][holder]`, with transfers that need the
  money. An allowance is taken to be given by a payer who signs.
  `distribute_resilient` may see any subset of its transfers fail. A recipient is
  an account, never the contract.
* **Arithmetic** keeps the checked widths: `SplitOk` says that no `checked_`
  operation overflows, with `I128_MAX` and `U32_MAX` scaled down so that overflow
  happens. Vote tallies saturate as in the code.
* **Hashes.** A commitment holds the vectors themselves.
* **Left out:** events, TTL extension, error numbers, reasons and memos.

### How the JavaScript modules correspond to the code

* **A step is a handler from one `await` to the next.** A handler without an
  `await` is one action. One with an `await` is an action that starts it, which
  keeps what the code holds in local variables or closures, and one action per way
  the awaited call can end. The same goes for timers, effects and callbacks; a
  React effect belongs to the step that changes what it depends on, and a handler
  works with the values of the render it was made in.
* **One variable per table, map or piece of state**, named after it where TLA+
  allows it. After a crash the tables stay and the maps are gone.
* **Synchronous SQLite** statements take effect in the step; a `db.transaction` is
  one step, rows written before a statement that throws stay.
* **External services** (Horizon, Soroban RPC, the webhook's receiver, the wallet
  extension, mail) answer anything their use in the code allows: late, with an
  error, or not at all. The ledger's verdict on a hash is one value, which Horizon
  may withhold for a while. An answer of the wallet extension is taken to be current
  when it is delivered.
* **Audit.** `addAuditLog` throws unless the action is in `AUDIT_ACTIONS`
  (`Tables`); most callers pass one that is not, so their routes answer 500
  after their rows are written, and the models do the same.
* **Time** is counted in the coarsest unit that tells the code's comparisons
  apart; each module's head says which.
* **Conversions that matter are modelled**: percentages are thousandths, so that
  rounding to basis points is seen; timestamps and block times are two text
  formats whose comparison with a day's midnight differs (`LedgerViews`); the two
  KYC address patterns match other strings than the rest (`Contributors`).

Definitions commented *Mutant* are altered forms of the definition that follows
them. They are not used by any specification; replacing the definition by its
mutant makes TLC report the property named in `PROJECT.json`.

## 3. What TLC checks

A run is a set of *scenes*: the variable `scene` is chosen in the initial state and
never changes, and a scene lets the actions that bear on one question interleave
while the variables of the others stay put. So a run is the union of small
instances that share their constants, and the properties hold in every scene. A
property that is a conjunction names its parts by an operator each, defined and
commented in the module of the component.

| Run | Scenes | Bounds | Properties |
|---|---|---|---|
| `share_math` | - | all lists of up to 3 recipients from awkward shares, amounts from the list length to past the overflow, bonuses below and above the cap | `SplitIsExact`, `IncentivesAreBounded` |
| `control` | setup, upgrade, admin, governance | 3 accounts of which one never signs with another, 4 ledgers, timelocks 1 to 3, 2 commitments, 2 builds, 2 voters with half of the weight each, 2 proposals, history of 2 | `TypeOK`, `BooksAreExact`, `AdminNeverLockedOut`, `RateHistoryChains`, `ExecutedHadMajority`, `RotationWaits`, `ClosedProposalsFreeze`, `ChangesAreAuthorised` |
| `money` | pool, switches, incentive, disputes | 2 tokens, holders with 3 units of each, split 3333/6667, pool up to 3, threshold met and passed, shares down to 2 bps, 2 disputes | `PaymentsStayPayable`, `DistributionsAreComplete`, `EmergencyStopsPayouts`, `DisputesAreFair` |
| `backstage` | finality, notices, read, confirm, deliver, pool, life, health, detailed, nonces, keys, meter, alerts | 1 tracked transaction with 2 hashes and 1 restart; 3 rows, 2 confirmations at a time, 2 retry passes of 3 tries; 2 connections and 3 callers; 2 starts; 3 nonces in a cache of 2 | `VerdictsFollowTheLedger`, `PushesAreBacked`, `HistoryIsComplete`, `WorkIsWhole`, `AdmissionIsExact`, `MonitoringIsHonest`, `VerdictsStick`, `EventsSettle`, `PlatformResponds` |
| `requests` | building, guards, fee, the cached reads | any two kinds of request and a payout of one wallet, 2 tries each, prices on both sides of a basis point; 3 requests with one body and a cache of 1; 2 readers that miss at once | `MarkedWasCounted`, `OneBuildAtATime`, `DuplicatesOnlyWhenLost`, `LockIsMutex`, `RequestsAreAnswered` |
| `records` | schedules, referrals, holds, disputes, kyc, standing, onboarding, digest, office, tables, views, fees, snapshots, compliance | days of 2 ticks, months of 3 days, schedules for a day or an interval on either side of what the routes accept, patched in any field; an upload with a good, an empty and a bad file; 2 contributors, 2 tickets, 2 digest passes, 2 generators, months across a year's end | `SchedulesKeepTime`, `DecisionsAreTraceable`, `FilesAgree`, `JobsDoNotOverlap`, `FiguresMatch` |
| `frontend` | setup, draft, pay, fields, history, dashboard, chart, upload, sale, distribute, session, queue, feed, app | 2 contracts, wallets and tokens, percentages on both sides of what the schema takes, 2 overlapping submissions or payments, 3 edits or changes of contract, 2 drains over a queue of 1 and 2 writes of which one is signed, a back-off of one unit, in the shell the rate and status asks of one contract at a time, 3 sockets with 2 drops and 2 changes of wallet | `SetupIsFaithful`, `PaymentsAreAsShown`, `HistoryIsReal`, `EarningsAgree`, `ShellIsHonest`, `NoWriteIsLost`, `BrowserRecovers` |

Why the bounds are enough to be interesting: two recipients with shares that do
not divide the amount produce dust; a balance below the number of recipients
meets the length check; two tokens are what the pool's single `SecondaryToken`
needs to go wrong; a voter with exactly half of the weight sits on the majority's
boundary; four ledgers let a rotation be initiated, re-initiated, and finalized
under a changed timelock. In the backend, two of whatever overlaps (confirmations,
passes, generators, drains) make every read-before-write race, the third request
waits behind both; a cache one smaller than what is put into it evicts; one restart
separates what is stored from what is remembered; rows with one timestamp test the
cursor's tie-break. In the frontend two contracts and two wallets are what a late
answer needs to land on the wrong one. With the real constants the 20 % cap on
bonuses cannot be reached by ten collaborators (ten times 150 bps), so `share_math`
feeds larger bonuses to the operator; a collaborator with a single basis point may
be rounded to zero by the adjustment, which is why `IncentivesNeverBlock` speaks of
shares of two basis points or more.

Constants named `Max...`, `Last...` bound counters and clocks that the code leaves
to their width; each appears in guards only. Deadlock is not checked: every scene
ends when its bounded clock and counters are used up, and some of the systems
really may stop (an admin list headed by an account that never signs, a process
that has exited). What must not stop is stated by the liveness properties. The
`records` run uses symmetry over four sets whose members no definition tells apart;
it has no liveness property.

What the less obvious properties say of the code:

* `DuplicatesOnlyWhenLost`: two handlers run for one body only after the in-flight
  map forgot a running one. It does not say that this never happens: the window
  may close, a request may time out, a late answer may delete another's entry.
* `MarkedWasCounted`: the secondary payout marks the ids it read before its
  `await`, never those recorded meanwhile.
* `VerdictsFollowTheLedger`, `VerdictsStick`: the finality table and the
  transactions table are written by two independent paths; neither says confirmed
  or failed of a hash unless the ledger does, and neither changes its mind.
* `NonceIsUsedOnce` (of `AdmissionIsExact`): a signed request is accepted twice only
  if a full cache pushed its nonce out.
* `WorkIsWhole`: no connection is handed to two callers although a caller that
  timed out stays in the queue and its connection is lost.
* `TrailExplainsHold` (of `DecisionsAreTraceable`): although each hold route fails
  after its rows are written, the hold's own trail explains the hold in force.
* `HistoriesAgree`, `ImportsAreWhole` (of `FilesAgree`): every digest that was mailed is in
  its reader's history, and that holds nobody else's; a contributor's list is as
  long as its count and holds no internal entry. An import has a result per row, is
  completed exactly when none is an error, and the shares it took are whole; a file without rows
  completes, in the code as in the model.
* `KeptIsOfItsWallet` (of `EarningsAgree`): the headline of the chart is of the rows shown with
  their gaps filled, and equals the sum of all that the wallet earned in the range.
* `RevealFollowsItsCommit` (of `SetupIsFaithful`): the form keeps a pending commit when the contract changes,
  so a reveal may be sent to a contract to which nothing was committed. The property says
  that its payload was committed to some contract, and that the ledger installs for a
  contract only what was committed to *it*.
* `PaymentsAreAsShown`: about what is shown and reported once; it does *not* say
  that a payment is made once (see section 5).

## 4. Fairness and refinement

**Contract.** None is assumed. It acts only when somebody sends a transaction,
nobody is obliged to, and the code contains no scheduler. "Can still be acted for"
is the safety property `AdminNeverLockedOut`.

**Backend.** Weak fairness of what the event loop or a timer is bound to run:

* `PollsRun`: a poll loop goes on (each poll ends with an answer, an error or its
  own time-out) and its record grows older.
* `PostsEnd`: a webhook post ends (`WEBHOOK_TIMEOUT_MS`), back-off passes, the
  interval fires and the pass it starts goes on.
* `TimeoutsFire`: the forced-shutdown timer and the time-out of a health check.
* `HandlersGoOn`, `TimersFire`: a handler whose awaited call has ended resumes; an
  RPC call ends by its time-out; the request timer fires.
* `CachesFairness`: time passes, readers keep coming, refreshes end; *strong*
  fairness of a successful refresh, that is, a network that is tried again and
  again answers again and again. Nothing weaker lets a reader catch up.

No fairness is given to clients, wallets, signals or staff.

**Frontend.** `BrowserFairness`: interval timers and the reconnect timer fire, and
requests to the extension, the store and the server end. None for the user, the
network's coming back or the wallet.

`WritesGetThrough` assumes that the network is back for good and that from some time on
no request or answer is lost (`MaxFaults` bounds the losses). It assumes nothing of
the server: a signed write may expire or have its nonce spent, and any write may be
refused for good. Such writes are `spent`; they are tried again for ever, as in the
code, and the property says that nothing else stays in the queue.

**Refinement.** `LockIsMutex` is the specification of `AccountMutex` (callers line
up in the order they came, only the one with nobody ahead works) under the mapping
in `TxRoutes`: the line is the set of requests in the promise chain, one is ahead
of another when its place in the chain is lower, and those inside are at work. It
is proved for any number of requests (`LockImplementsMutex`), and
`RoutesUseTheLock` proves that the routes, with builds that fail, retry and time
out, implement the lock; TLC checks it as a property of the routes as well.

## 5. Where the code and its documentation differ

Each of these is a run that TLC ends with a counterexample; `findings` in
`PROJECT.json` quotes both sides.

| Run | Property that a doc, comment or test states | What the code does |
|---|---|---|
| `pool_backed` | `PoolIsBacked` | the pool's token is overwritten by the next royalty, and primary distributions pay the pool away |
| `trip` | `TripPaysNothing` | a batch pays the tokens before the anomalous one, and does not count them |
| `primary_pause` | `PrimaryPauseHolds` | `batch_distribute` ignores the pause of primary distributions |
| `reshuffle` | `WeightWithinTotal` | votes weigh the share at the time of the vote, so `set_recipients` lets weight count twice |
| `sequence` | `NoSequenceReuse` | the account lock ends when the XDR is built; the next build reads the same sequence number |

Met while modelling, plain from the lines named and kept in the models as they are
(no run is spent on them):

* Contract: the whitelist comment (`src/lib.rs:2118`) against
  `distribute_resilient` and `execute_distribution`, which never call
  `require_approved_token`; the comment on `Proposal` (`src/lib.rs:96`, "*and* the
  voting window is still open") against `execute_proposal`, which requires it to
  have closed; `tests/integration_test.rs:4845` against `update_share`, which can
  only write the share that is there; `README.md:28` ("cannot be altered") against
  `set_recipients`.
* Backend: after a restart a pending finality record cannot be tracked again
  (`routes/transaction-finality.js:100`: the insert meets the UNIQUE constraint);
  two overlapping requests with different Idempotency-Keys and one body, or with
  one key after the in-flight entry is lost, both run (`idempotency.js:131`); the
  comment "Prevent overwriting already-settled transactions"
  (`routes/history.js:328`) guards before the `await` only; the retry job stops at
  the limit without the dead-letter queue that `webhook-delivery.js` uses; every
  due cycle a schedule missed is skipped (`schedule-calculator.js:8-11`); the
  digest may be mailed twice by overlapping passes (`weekly-digest.js:47`); the
  first page of the history, which is asked for without a cursor, returns none, although
  its text says to use the previous response's (`routes/history.js:122`); KYC
  callbacks do not reach the verification table for ordinary addresses
  (`kyc-webhooks.js:5-8`); a connection given to a caller that timed out never
  comes back (`database/pool.js:12`); the health monitor's reconnection drains the
  pool and nothing reopens it (`database/health-monitor.js:264`); WebSockets are
  closed only after `server.close`, which waits for them, so a shutdown with one
  open ends by the forced exit and drops requests (`README.md:307` against
  `shutdown.js:34-49`); an alert whose webhook fails is lost for the whole dedupe
  window (`metrics.js:197`); the database is always reported healthy
  (`routes/health.js:100-105`).
* Frontend: a confirmation that times out after 30 seconds may still be taken by
  the ledger, and a second click then pays again (`stellar.ts:53`,
  `DistributeForm.tsx:213`); a late answer replaces the list, the figures or the
  balance of the contract now shown (`TransactionHistory.tsx:281`,
  `EarningsDashboard.tsx:99`, `DistributeForm.tsx:147`); changing the contract
  overwrites the other's draft (`DistributeForm.tsx:102`) and does not reset a
  pending commit, so that the form can only reveal to the new contract, which refuses
  (`InitializeForm.tsx:515`); discarding a draft does not cancel the timer that stores it
  (`useRoyaltyDraft.ts:158`), nor discarding the queue a write that is being sent
  (`lib/offlineQueue.ts:90`); overlapping drains send a write twice and
  count-then-add exceeds the queue's limit; a queued write is sent with the time and the
  nonce it was signed with, so that after five minutes (`verify-signature.js:251`) or a
  lost answer (`verify-signature.js:261`) it is refused for good and still tried for ever
  (`service-worker.js:193`; the "stuck retries" of `OfflineIndicator.tsx:10`, where
  the user may discard the whole queue); the setup form lets a share of 0 %
  pass where the file import, which says that it mirrors the form, refuses it
  (`royaltyConfig.ts:4`, `:123`); the comparison of periods is always
  zero (`EarningsHistoryChart.tsx:149`); the export asks for a page larger than the
  backend grants (`TransactionHistory.tsx:533` against `validation.js:448`); App's
  inline callback reopens its socket at every render (`useWebSocket.ts:111`,
  `App.tsx:67`); a secondary sale is recorded before the wallet signs, so a retry
  records it twice.

## 6. What is proved

36 of the 40 properties that the passing runs check are theorems, and with them the
inductive invariants they rest on: every safety property of a passing run is proved, and
the four that are not are liveness. The runs show them on a small instance, the
theorems for every value of the constants that satisfies the `ASSUME`s, which TLC
evaluates on the runs.

### The share arithmetic (`SumTheorems`, `ShareMathProofs`, `MCShareMath`)

* `SplitsAreExact`: for lists of every length and every amount a split pays out
  exactly the whole, everybody else the floor of their share, and the last
  recipient less than one unit per other recipient on top of theirs.
* `IncentivesStayBounded`: the adjusted shares make up 100 % again and nobody loses
  more than the cap.

What a sum over a list is worth needs induction over its length. The library's
induction theorems take the statement as an operator, which the installed provers
cannot instantiate; `FiniteInduction` and `NaturalInduction` take it as a *set* of
the instances for which it holds instead, and argue with a least counterexample
(strict inclusion is well-founded on finite sets). From them follow the facts about
`SumFunctionOnSet` that everything else uses: it is unfolded by removing any element
(`SumRemove`), monotone, additive over disjoint sets, unchanged by renaming, and the
floors of the parts fit into the whole (`FloorsFit`). All of this is in `SumTheorems`,
which also says what a query's list is: `Listing` of `Tables` puts a finite set in an
order without recursion, and `PlacesAreListed`, `PlacesAreOrdered` and `RowsOfPlaces` give its length,
its members and their order.

### The contract (`ContractProofs`)

About `Spec` of `RoyaltySplitter`: every entry point, in any order, for every set of
accounts, tokens, recipient lists and amounts. Assumptions: `ShareMathAssumption`,
`SplitterAssumption`, `SetupAssumption`, `AdminAssumption`, `PaymentsAssumption`,
`GovernanceAssumption`, `DisputesAssumption`. They give the constants their types,
order the timelocks and make `None` none of the values it stands in for.

* `AdminInvariant`, with `NeverLockedOut` and `RotationsWait`. `AdminInv` is the type
  invariant of the administration with two strengthenings: the threshold never
  exceeds a configured list (`AdminNeverLockedOut` alone says nothing of a contract
  that is not initialized yet and is not inductive), and a configured timelock is at
  least the minimum, without which the timelock read by `finalize_admin_rotation`
  could be anything.
* `RateInvariant`, with `HistoryChains`, `MajorityRules` and `ClosedStaysClosed`.
  `RateInv` adds that no entry of the history lies in the future, needed for the time
  order of the next one.
* `ContractInvariant`: `Spec => []ContractInv`. `ContractInv` joins the two above with
  the types of the rest, `SplitIsWhole`, `DefaultsAreWhole`, `MigrationLogIsExact`, a
  list of collaborators that a distribution accepts (`CollaboratorsFit`) and
  `FreshUntilInitialized`: before `initialize` there is no admin list, no share, no
  default and no migration. The last one is what makes the rest inductive: without
  it an entry point that only asks for `check_admin_auth` could act on an empty split.
  `StorageKeepsTypes` and `BooksStayWhole` follow at once.
* `PaymentsAreSafe`: every transfer a call makes is covered, and while everybody
  holds two basis points no activity makes an incentive payment impossible.
* `DistributionsPayInFull`: the pool is paid whole and once, a primary distribution
  leaves no dust of a token it paid, for batches of every length.
* `EmergencyHolds`, `DisputesStayFair`, `ChangesStayAuthorised`: action properties.
  `Writers` says which entry points write which storage; the others are frames, and
  one step per remaining entry point shows the property.
* `BooksStayExact`, `WeightsStayWithin`: `Spec /\ SplitStands => []...`. `SplitStands`
  says that the share map is not rewritten once there is a proposal. It is a
  hypothesis about behaviours, not about constants, and it is needed: a vote weighs
  the share held when it is cast, so after `set_recipients` a tally is no longer the
  sum of the shares of those who voted, as the run `reshuffle` shows. The parts of
  `BooksAreExact` that do not speak of tallies need no hypothesis (`BooksStayWhole`).
  `TallyInv` says of each side what `TallyIsExact` says of the tally; the
  proof shows that the saturating additions never saturate.

### Requests (`RequestProofs`)

* About `LockSpec`, any number of requests that join, enter and leave the chain of one
  account and join again: `LockExcludes`, `LockIsFirstComeFirstServed`,
  `LockImplementsMutex`. They rest on `LockInv`. Exclusion is not inductive: that two
  requests inside are one follows only because places are given out once and in
  order, a request in the chain has not released its place, and whoever is inside
  found every place before its own released.
* About `RoutesSpec`, handlers of all kinds with their retries and failures:
  `RoutesUseTheLock` (an implementation: the routes' steps are steps of the lock or
  leave it alone), `LockStaysHeldRight` (a handler is inside exactly while it reads the
  account or prepares, so a build that throws keeps nothing), `BuildsStaySerial`, and
  `MarkedSalesWereCounted`. `CountInv` adds to the latter that a payout that has a
  list of sales has recorded its transaction, once, before the `await`.
* About `GuardsSpec`: `DuplicatesAreExplained`. `FlightInv` counts: the running
  handlers are at most those the map has lost, and the one that is in it. It uses
  `GuardsAssumption` (`Nobody` is no request).

### Behind the requests (`BackstageProofs`)

About `BackstageSpec`, all of the backend's scenes; its liveness conjuncts are not
used. Each component keeps its own invariant, and steps of the others leave its
variables alone.

* `PushInv` (`HubAssumption`, `FinalityAssumption`): a socket listed under a key is open
  and remembers it; a poll loop has a pending record with the hash it polls for; a
  notification keeps its wallet. `VerdictsAreFinal`, `VerdictsAreHeard` about the hub,
  trackers and notifications alone (`PushSpec`).
* `TxInv` (`TransactionsAssumption`): the two tables have disjoint ids and between them
  every id ever given; a settled row says what the
  ledger says of its hash, and no two rows share one. `WalkInv` is about a
  reader with a cursor: what was seen is in order, the cursor is the last seen, and
  every row that was there when the walk began is seen, archived or ahead of the
  cursor. The `ORDER BY ... LIMIT` of the queries is `Query`, the set of the sequences
  that the statement may return, so that nothing needs a sort. `HookInv`
  (`HooksAssumption`): a retry that is scheduled has its payload. `HashesStick`.
* `VerdictsAreTheLedgers`, `PushesStayBacked`, `HistoryStaysComplete`,
  `VerdictsStayStuck` follow from `EventInvariant`.
* `WorkStaysWhole`, from `PoolInv` and `LifeInv`. The pool (`PoolAssumption`): a
  connection is on the stack or with one caller, and a waiter that still waits is its
  caller's only one, so that a released connection goes to a caller that holds none.
  The process: the versions recorded and those whose SQL took effect are one prefix of
  the list of migrations, and the loop has passed no version that is not in it,
  whatever kills it; a request that is pending has its connection open, so that a
  server that has closed owes no answer.

* `AdmissionStaysExact`, from `AdmissionInv`. `NonceInv` (`NoncesOutliveSignatures`): the
  cache is in the order of its expiries, and a nonce that was accepted was pushed out of
  a full cache, or is remembered for longer than any letter that carries it is young
  enough. `KeyInv` (`GoodSecrets`): key and source are assigned together, from a secret
  that the source gave. `MeterInv` (`MeterAssumption`): a cell of the table counts at
  least one request and no more blocked ones than requests, and all cells together
  no more than was metered; the views are sums over parts of the cells.
* `MonitoringStaysHonest`, from `MonitoringInv`. `HealthInv` (`HealthAssumption`): a
  cached verdict expires a TTL after the request that wrote it came in, and what it holds
  was observed after that. `AlertInv` (`Windows`): no alert is younger than the mark of
  its kind, and what the buckets count never exceeds what was recorded.

### The back office (`RecordsProofs`)

About `RecordsSpec`, all of the scenes of the run `records`.

* `TheSchedulesKeepTime` (`ScheduleAssumption`), from `PlanInv`: while a schedule is on,
  its next run is what the calculator says for the time at which it was set, with
  whatever day, anchor, interval and hour it was given since, an anchor taken away included. The
  calculator works with days and hours and the property with ticks; the lemmas that
  join the two are about division with remainder, for months, weeks and days of every
  length.
* `TheDecisionsAreTraceable` (`ReferralAssumption`), from `ReferralInv` and `HoldInv`. A
  referral that is pending has no activation bonus, and one that is active has. The trail
  of a hold has a placement that no release follows exactly while the hold is in force.
* `TheFilesAgree` (`TicketAssumption`, `FilesAssumption`, `DigestAssumption`, `UploadAssumption`), from
  `DisputeInv`, `FileInv`, `DigestInv` and `OfficeInv`. `DisputeInv` says of the last
  review of every ticket that the letter with its status is on its way or sent, which
  is stable under the letters of the others. `FileInv` says that a row a
  callback wrote follows the wallet's last event. What is listed, paged or counted are
  queries over tables, so the rest is the lemmas about `Listing` and `Page`.
* `TheJobsDoNotOverlap` (`ReportAssumption`), from `DigestInv`, `ReportInv` and `ShotInv`.
  A pass that waits for the mail server remembers how much of the log it had read, and
  the log only grows. The test for an earlier report reads rows and the property speaks
  of generators: a generator at work owns the row that is marked as being generated,
  no two of which are of one period, and two periods of one kind overlap only if they are
  the same. No snapshot is dated ahead of the clock, so what is added is
  newest and pruning leaves a top part.
* `TheFiguresMatch` (`LedgerAssumption`), from `ViewInv`. Every figure is the sum of a set
  of payouts, and its parts are the classes of that set, by day, payee, contract or status
  (`SumByClass`). The totals agree because no payout belongs to an initialization
  (`PayoutIsDue`, see section 9),
  and because every day is one that the views know. A cache holds what was
  computed on the day it is marked with; after `ViewTtl` still days that is later than
  the last change.

### The web application (`FrontendProofs`)

About `FrontendSpec` (its fairness is not used) and, for the queue, `QueueSpec`.

* `AcceptedWritesAreKept` (`QueueAssumption`: finitely many writes). `QueueInv` adds the
  shape of the store and of what each drain still has to send.
* `TheShellIsHonest` (`PageAssumption`, `FeedAssumption`), from `SessionInv` and
  `InboxInv`. A wallet that changes while the application still loads would be missed,
  so `SessionInv` says that nobody is connected, and nothing else is asked of the
  extension, before `tryReconnect` has ended, even if the session expires meanwhile.
* `TheSetupIsFaithful` (`SetupAssumption`), from `SetupInv`, which follows a payload
  through its submission: what is sent has passed the schema, what was confirmed was
  committed to the contract it was sent to, and only a payload that was is revealed.
* `ThePaymentsAreAsShown` (`PayAssumption`, `OfficeAssumption`), from `PayInv`,
  `UploadInv` and `StaffInv`. The phase belongs to the application and outlives the form;
  `StatusMatches` relates it to the payments that run and to which of those the
  mounted form made. `HandlerIsAhead` counts how far a staff form's handler is ahead of
  the ledger and of its own report.
* `TheEarningsAgree` (`EarningsAssumption`), from `DashboardInv` and `ChartInv`: every
  table on its way, kept or charted is one wallet's, cell by cell, and the contracts
  charted contain those of its rows, so that filling the gaps loses nothing.
* `TheHistoryIsReal` (`HistoryAssumption`), from `HistoryInv`. A row of the list has the
  verdict it was read with, and the backend gives it once; an answer carries the contract
  it was asked about, and is a prefix of that contract's rows. That sorting and paging the
  list lose and invent no row is the lemmas about `Listing` again.

The proofs have one step per action and under it one per conjunct that the action can
disturb. tlapm 1.4.5 reads `@` in a second clause of one EXCEPT as the value before the
first clause; where two clauses may meet in one place (`release` of the pool) the new
function is written out, and for a transfer payer and payee are distinct.

What the assumptions ask is what the code's constants satisfy: sets that are
finite where the code counts or lists them, times and limits that are numbers, a nonce
that is kept for longer than a signature is accepted (10 minutes against 5), a window of
history no shorter than the window of one bucket, a placeholder that is no value.

## 7. Only model-checked

* Liveness under fairness (`EventsSettle`, `PlatformResponds`, `RequestsAreAnswered`,
  `BrowserRecovers`): out of the prover's reach, like ENABLED.
* Of `BooksAreExact`, that tallies are exact in every behaviour of the run `control`,
  whose governance scene has one split; the theorem states the same under
  `SplitStands`.
* What a recursive definition computes for every input: the models have none, since the
  folds of the community modules and `Listing` stand for the loops and the sorts.

## 8. Not modelled

* Getters and error codes of the contract.
* API documentation (`swagger.js`), request-body schemas beyond the guards that a
  model needs, mounting of middleware, logging, Prometheus text, CSV, PDF and mail
  text: no state.
* `database.js`, an earlier copy of `database/`, but for the two functions the
  onboarding route still takes from it and its table `secondary_sales`.
* UI components that show what they are given or send one request and show its
  answer (`AdminDashboard.tsx`, `PaymentHoldManager.tsx`, cards, icons, styles).
* Tests, scripts, infrastructure, CI: not part of the running program.

Components with status *partly* in `PROJECT.json` have every protocol step
modelled; what is missing is named in their note.

## 9. Notes on the sources

At this commit several files cannot run as they stand. Where the intent is plain,
from the callers, the tests or the neighbouring code, the models take it:

* `database/core.js`: `let _writeCount` is inside a comment; some migrations have
  SQL errors; `secondary_sales` exists only in the old `database.js`.
* `index.js` uses `verifySignatureMiddleware` without importing it; `cache.js` lacks
  exports its users import; some routers are not mounted; `admin.js` names a
  parameter `:Id` and reads `id`; `collaborators.js` and `contract.js` have typos in
  identifiers.
* `buildAndRecordTransaction` passes the transaction type as the contract's method;
  `distribute_secondary_royalties` is not an entry point. The XDR is abstracted, and
  whether `prepareTransaction` succeeds is a choice.
* `recordDistributionOutcome` and `startAlertMonitor` have no callers in `src/`; the
  models call them as their tests do. `addDistributionPayout` has none anywhere and checks
  nothing: that it records each collaborator once, and of distributions only, is assumed
  of its caller (`PayoutIsDue`), and the agreement of totals rests on it.
* `InitializeForm.tsx` and `App.tsx` use names they do not import; the secondary
  forms call `api` without the key pair; `useVirtualList.ts` does not parse.

## 10. What could come next

* A composition of the routes with the contract, in which the sales a payout marked
  are compared with what the contract paid.
