------------------------------ MODULE TxRoutes ------------------------------
(***************************************************************************)
(* The routes that build an unsigned transaction for one wallet and one    *)
(* contract: initialize, initialize/commit, initialize/reveal, distribute, *)
(* upgrade, batch-distribute, batch-distribute/tokens and the three        *)
(* secondary-royalty routes, over retryBuildTx, buildTx and                *)
(* BatchTransactionBuilder (backend/src/stellar.js).                       *)
(*                                                                         *)
(* A step runs a handler from one await to the next.  A request is handled *)
(* once; its XDR is signed and submitted later, or never, by the wallet.   *)
(***************************************************************************)
EXTENDS Naturals, FiniteSets, Sequences, Tables

-----------------------------------------------------------------------------
(***************************************************************************)
(* withAccountBuildLock (backend/src/stellar.js) for one account: the map  *)
(* entry is a chain of promises.  The k-th call appends its own promise to *)
(* the chain and runs once the chain before it has settled, that is, once  *)
(* every earlier call has released.  The entry is replaced by              *)
(* previous.then(...), never by the promise the deletion compares it with, *)
(* so the chain is never cut.                                              *)
(***************************************************************************)

CONSTANT Request

VARIABLES
    links,     \* how many calls have appended to the chain
    link,      \* the place of a request's call in the chain; 0 outside the lock
    inside,    \* the requests whose fn() runs
    released   \* places whose promise is resolved

lockVars == <<links, link, inside, released>>

LockInit ==
    /\ links = 0
    /\ link = [r \in Request |-> 0]
    /\ inside = {}
    /\ released = {}

\* The part of the call before its await.
Join(r) ==
    /\ link[r] = 0
    /\ links' = links + 1
    /\ link' = [link EXCEPT ![r] = links + 1]
    /\ UNCHANGED <<inside, released>>

\* Mutant: a call runs as soon as any earlier one has released.
ChainRaced(k) == k = 1 \/ \E j \in 1..(k - 1) : j \in released

ChainSettled(k) == \A j \in 1..(k - 1) : j \in released

Enter(r) ==
    /\ link[r] # 0
    /\ r \notin inside
    /\ ChainSettled(link[r])
    /\ inside' = inside \cup {r}
    /\ UNCHANGED <<links, link, released>>

\* The finally block, whether fn() returned or threw.
Leave(r) ==
    /\ r \in inside
    /\ released' = released \cup {link[r]}
    /\ inside' = inside \ {r}
    /\ link' = [link EXCEPT ![r] = 0]
    /\ UNCHANGED links

LockNext == \E r \in Request : Join(r) \/ Enter(r) \/ Leave(r)

LockSpec == LockInit /\ [][LockNext]_lockVars

-----------------------------------------------------------------------------
LockTypeOK ==
    /\ links \in Nat
    /\ link \in [Request -> Nat]
    /\ inside \subseteq Request
    /\ released \subseteq Nat

\* Two builds for one account never run at the same time.
OneBuildAtATime == \A r, s \in inside : r = s

\* Calls run in the order they were made: a request that gets in has no
\* earlier call left in the chain.
FirstComeFirstServed ==
    [][\A r \in inside' \ inside : \A s \in Request : link[s] # 0 => link[r] <= link[s]]_lockVars

\* The chain of promises is a first-come-first-served mutex: the calls in the chain
\* are the line, in the order of their places.
Waiting == {r \in Request : link[r] # 0}
Ahead == {p \in Waiting \X Waiting : link[p[1]] < link[p[2]]}
Mutex == INSTANCE AccountMutex WITH Caller <- Request, line <- Waiting, ahead <- Ahead,
                                    working <- inside
LockIsMutex == Mutex!Spec

-----------------------------------------------------------------------------
\* The routes.

CONSTANTS
    MaxRetries,   \* maxRetries of retryBuildTx
    Price,        \* salePrice values
    Rate,         \* on-chain rates, basis points; 0 when the simulation fails
    BatchOps,     \* operations of a batch
    MaxSeq        \* bound on submissions

VARIABLES
    kind,       \* the route each request is for
    pc,         \* where its handler is
    attempt,    \* retryBuildTx attempt
    builds,     \* builds that succeeded in this handler
    base,       \* sequence number read by getFreshAccount
    results,    \* batch: one entry per operation prepared so far
    row,        \* transactions rows this request recorded
    audit,      \* audit_log rows it wrote
    refused,    \* audit actions addAuditLog refused
    answer,     \* "none", "xdr", or the error it ended with
    seqs,       \* sequence numbers of the XDRs it answered with
    sale,       \* secondary_sales: one row per identity
    list,       \* payout: the pending sales as they were read
    price,      \* sale: the price in the body
    initialized,\* the contract's own flag
    account     \* the account's sequence number on the ledger

routeVars == <<kind, pc, attempt, builds, base, results, row, audit, refused, answer, seqs, sale,
               list, price, initialized, account>>
vars == <<lockVars, routeVars>>

Kinds == {"initialize", "commit", "reveal", "distribute", "upgrade", "batch", "tokens",
          "sale", "set_rate", "payout"}

\* Handlers that go through buildAndRecordTransaction.
Shared == {"initialize", "commit", "reveal", "distribute"}
Retried == Shared \cup {"upgrade"}
Asking == {"initialize", "commit", "sale"}

AuditAction == [initialize |-> "contract_initialized", commit |-> "initialization_committed",
                reveal |-> "contract_initialized", distribute |-> "distribution_initiated",
                upgrade |-> "upgrade_initiated", batch |-> "distribution_initiated",
                tokens |-> "batch_distribution_initiated", sale |-> "secondary_sale_recorded",
                set_rate |-> "royalty_rate_set", payout |-> "secondary_distribution_initiated"]

RoutesInit ==
    /\ LockInit
    /\ kind \in [Request -> Kinds]
    /\ pc = [r \in Request |-> "new"]
    /\ attempt = [r \in Request |-> 0]
    /\ builds = [r \in Request |-> 0]
    /\ base = [r \in Request |-> 0]
    /\ results = [r \in Request |-> <<>>]
    /\ row = [r \in Request |-> 0]
    /\ audit = [r \in Request |-> 0]
    /\ refused = {}
    /\ answer = [r \in Request |-> "none"]
    /\ seqs = [r \in Request |-> {}]
    /\ sale = {}
    /\ list = [r \in Request |-> {}]
    /\ price = [r \in Request |-> 0]
    /\ initialized = FALSE
    /\ account = 0

-----------------------------------------------------------------------------
\* Building under the lock.

\* The synchronous head of buildTx or of build().
AskForBuild(r, n) ==
    /\ Join(r)
    /\ pc' = [pc EXCEPT ![r] = "queued"]
    /\ attempt' = [attempt EXCEPT ![r] = n]

withAccountBuildLock(r) ==
    /\ pc[r] = "queued"
    /\ Enter(r)
    /\ pc' = [pc EXCEPT ![r] = "account"]
    /\ UNCHANGED <<kind, attempt, builds, base, results, row, audit, refused, answer, seqs, sale,
                   list, price, initialized, account>>

\* The fee that is read next falls back to BASE_FEE, so it never fails a build.
getFreshAccount(r) ==
    /\ pc[r] = "account"
    /\ base' = [base EXCEPT ![r] = account]
    /\ pc' = [pc EXCEPT ![r] = "preparing"]
    /\ UNCHANGED <<lockVars, kind, attempt, builds, results, row, audit, refused, answer, seqs,
                   sale, list, price, initialized, account>>

\* prepareTransaction returned, for a single build.
buildTx(r) ==
    /\ pc[r] = "preparing" /\ kind[r] # "batch"
    /\ Leave(r)
    /\ builds' = [builds EXCEPT ![r] = @ + 1]
    /\ pc' = [pc EXCEPT ![r] = "built"]
    /\ UNCHANGED <<kind, attempt, base, results, row, audit, refused, answer, seqs, sale, list,
                   price, initialized, account>>

\* How retryBuildTx tells errors apart; the first kind that fits decides.
Errors == {"account_not_found", "rate_limit", "timeout", "network", "simulation", "other"}
Transient == {"rate_limit", "timeout", "network", "simulation"}

Again(r, e) == kind[r] \in Retried /\ e \in Transient /\ attempt[r] < MaxRetries
Status(r, e) ==
    CASE e = "timeout"             -> "504"
      [] kind[r] \notin Retried    -> "500"
      [] e = "account_not_found"   -> "400"
      [] e = "rate_limit"          -> "429"
      [] e \in {"network", "simulation"} -> "503"
      [] OTHER                     -> "500"

\* Mutant: the lock is released only when the build succeeds.
BuildFailsHolding(r) == \E e \in Errors :
    /\ pc[r] \in {"account", "preparing"} /\ kind[r] # "batch"
    /\ pc' = [pc EXCEPT ![r] = "done"]
    /\ answer' = [answer EXCEPT ![r] = Status(r, e)]
    /\ UNCHANGED <<lockVars, kind, attempt, builds, base, results, row, audit, refused, seqs,
                   sale, list, price, initialized, account>>

\* getAccount or prepareTransaction threw: the lock is released, and the
\* attempt is repeated after a pause or the handler ends.
BuildFails(r) == \E e \in Errors :
    /\ \/ pc[r] = "account" /\ e # "simulation"
       \/ pc[r] = "preparing" /\ e # "account_not_found" /\ kind[r] # "batch"
    /\ Leave(r)
    /\ IF Again(r, e) THEN pc' = [pc EXCEPT ![r] = "backoff"] /\ UNCHANGED answer
                      ELSE pc' = [pc EXCEPT ![r] = "done"]
                           /\ answer' = [answer EXCEPT ![r] = Status(r, e)]
    /\ UNCHANGED <<kind, attempt, builds, base, results, row, audit, refused, seqs, sale, list,
                   price, initialized, account>>

retryBuildTx(r) ==
    /\ pc[r] = "backoff"
    /\ AskForBuild(r, attempt[r] + 1)
    /\ UNCHANGED <<kind, builds, base, results, row, audit, refused, answer, seqs, sale, list,
                   price, initialized, account>>

\* One operation of the batch: its sequence number is taken before it can fail.
OpSeq(r) == base[r] + Len(results[r]) + 1

BatchTransactionBuilder(r) ==
    /\ pc[r] = "preparing" /\ kind[r] = "batch"
    /\ Len(results[r]) < BatchOps
    /\ \E ok \in BOOLEAN :
          results' = [results EXCEPT ![r] = Append(@, [ok |-> ok, seq |-> OpSeq(r)])]
    /\ UNCHANGED <<lockVars, kind, pc, attempt, builds, base, row, audit, refused, answer, seqs,
                   sale, list, price, initialized, account>>

BatchReady(r) ==
    /\ pc[r] = "preparing" /\ kind[r] = "batch"
    /\ Len(results[r]) = BatchOps
    /\ Leave(r)
    /\ pc' = [pc EXCEPT ![r] = "built"]
    /\ UNCHANGED <<kind, attempt, builds, base, results, row, audit, refused, answer, seqs, sale,
                   list, price, initialized, account>>

-----------------------------------------------------------------------------
\* Handlers.

End(r, a) == pc' = [pc EXCEPT ![r] = "done"] /\ answer' = [answer EXCEPT ![r] = a]

\* addAuditLog throws when the action is not in AUDIT_ACTIONS, and the handler
\* ends there; otherwise the XDRs in S are the answer.
addAuditLog(r, n, S) ==
    IF Audited(AuditAction[kind[r]])
    THEN /\ audit' = [audit EXCEPT ![r] = @ + n]
         /\ seqs' = [seqs EXCEPT ![r] = S]
         /\ End(r, "xdr")
         /\ UNCHANGED refused
    ELSE /\ refused' = refused \cup {AuditAction[kind[r]]}
         /\ End(r, "500")
         /\ UNCHANGED <<audit, seqs>>

recordTransaction(r, n) == row' = [row EXCEPT ![r] = @ + n]

\* distribute, reveal and upgrade build first.
StartBuilding(r) ==
    /\ pc[r] = "new" /\ kind[r] \in {"distribute", "reveal", "upgrade"}
    /\ AskForBuild(r, 1)
    /\ UNCHANGED <<kind, builds, base, results, row, audit, refused, answer, seqs, sale, list,
                   price, initialized, account>>

\* initialize and commit ask the contract whether it is initialized, a sale
\* asks for its rate.
StartAsking(r) ==
    /\ pc[r] = "new" /\ kind[r] \in Asking
    /\ pc' = [pc EXCEPT ![r] = "asking"]
    /\ \E p \in Price : price' = [price EXCEPT ![r] = IF kind[r] = "sale" THEN p ELSE 0]
    /\ UNCHANGED <<lockVars, kind, attempt, builds, base, results, row, audit, refused, answer,
                   seqs, sale, list, initialized, account>>

\* A simulation that ends in an error reads as "not initialized".
isContractInitialized(r) ==
    /\ pc[r] = "asking" /\ kind[r] \in {"initialize", "commit"}
    /\ \E yes \in {initialized, FALSE} :
          IF yes THEN /\ End(r, "409")
                      /\ UNCHANGED <<lockVars, attempt>>
                 ELSE AskForBuild(r, 1) /\ UNCHANGED answer
    /\ UNCHANGED <<kind, builds, base, results, row, audit, refused, seqs, sale, list, price,
                   initialized, account>>

\* The question itself fails: the call rejects, or does not return in time.
AskingFails(r) ==
    /\ pc[r] = "asking"
    /\ \E a \in {"500", "504"} : End(r, a)
    /\ UNCHANGED <<lockVars, kind, attempt, builds, base, results, row, audit, refused, seqs, sale,
                   list, price, initialized, account>>

\* The first build's XDR is dropped, the row recorded, and the build repeated;
\* then the audit row and the answer.
buildAndRecordTransaction(r) ==
    /\ pc[r] = "built" /\ kind[r] \in Shared
    /\ IF builds[r] = 1
       THEN /\ recordTransaction(r, 1)
            /\ AskForBuild(r, 1)
            /\ UNCHANGED <<audit, refused, seqs, answer>>
       ELSE /\ addAuditLog(r, 1, {base[r] + 1})
            /\ UNCHANGED <<lockVars, row, attempt>>
    /\ UNCHANGED <<kind, builds, base, results, sale, list, price, initialized, account>>

Upgrade(r) ==
    /\ pc[r] = "built" /\ kind[r] = "upgrade"
    /\ addAuditLog(r, 1, {base[r] + 1})
    /\ UNCHANGED <<lockVars, kind, attempt, builds, base, results, row, sale, list, price,
                   initialized, account>>

\* Rows for the whole batch, then one build.
StartBatch(r) ==
    /\ pc[r] = "new" /\ kind[r] = "batch"
    /\ recordTransaction(r, BatchOps)
    /\ AskForBuild(r, 1)
    /\ UNCHANGED <<kind, builds, base, results, audit, refused, answer, seqs, sale, list, price,
                   initialized, account>>

\* An audit row and an XDR per operation that was built.
AnswerBatch(r) ==
    /\ pc[r] = "built" /\ kind[r] = "batch"
    /\ LET ok == {i \in 1..BatchOps : results[r][i].ok}
       IN  addAuditLog(r, Cardinality(ok), {results[r][i].seq : i \in ok})
    /\ UNCHANGED <<lockVars, kind, attempt, builds, base, results, row, sale, list, price,
                   initialized, account>>

\* No build at all: the XDR is a placeholder.
BatchTokens(r) ==
    /\ pc[r] = "new" /\ kind[r] = "tokens"
    /\ recordTransaction(r, 1)
    /\ addAuditLog(r, 1, {})
    /\ UNCHANGED <<lockVars, kind, attempt, builds, base, results, sale, list, price,
                   initialized, account>>

SetRate(r) ==
    /\ pc[r] = "new" /\ kind[r] = "set_rate"
    /\ recordTransaction(r, 1)
    /\ AskForBuild(r, 1)
    /\ UNCHANGED <<kind, builds, base, results, audit, refused, answer, seqs, sale, list, price,
                   initialized, account>>

-----------------------------------------------------------------------------
\* Secondary sales.  A row's identity is the unique index's columns, told apart
\* here by the price.

Known(p) == \E s \in sale : s.price = p

recordSecondarySale(p, rate) ==
    sale' = sale \cup {[price |-> p, rate |-> rate, royalty |-> (p * rate) \div 10000,
                        distributed |-> FALSE]}

getSecondarySales == {s \in sale : ~s.distributed}

\* The rate is known: the transaction row is recorded before the insert that
\* may find the sale recorded already.
PostSecondarySale(r) ==
    /\ pc[r] = "asking" /\ kind[r] = "sale"
    /\ \E rate \in Rate :
          \/ /\ (price[r] * rate) \div 10000 <= 0
             /\ End(r, "400")
             /\ UNCHANGED <<lockVars, attempt, row, sale>>
          \/ /\ (price[r] * rate) \div 10000 > 0
             /\ recordTransaction(r, 1)
             /\ IF Known(price[r])
                THEN End(r, "409") /\ UNCHANGED <<lockVars, attempt, sale>>
                ELSE /\ recordSecondarySale(price[r], rate)
                     /\ AskForBuild(r, 1)
                     /\ UNCHANGED answer
    /\ UNCHANGED <<kind, builds, base, results, audit, refused, seqs, list, price, initialized,
                   account>>

\* The list is read before the build.
PostSecondaryDistribute(r) ==
    /\ pc[r] = "new" /\ kind[r] = "payout"
    /\ IF getSecondarySales = {}
       THEN End(r, "400") /\ UNCHANGED <<lockVars, attempt, row, list>>
       ELSE /\ list' = [list EXCEPT ![r] = getSecondarySales]
            /\ recordTransaction(r, 1)
            /\ AskForBuild(r, 1)
            /\ UNCHANGED answer
    /\ UNCHANGED <<kind, builds, base, results, audit, refused, seqs, sale, price, initialized,
                   account>>

Same(s, t) == s.price = t.price

\* Mutant: every pending sale is marked, whatever was listed.
markAllPending(L) == {[s EXCEPT !.distributed = TRUE] : s \in sale}

\* By id: the rows that were listed, whatever has happened to them since.
markSalesDistributed(L) ==
    {IF \E t \in L : Same(s, t) THEN [s EXCEPT !.distributed = TRUE] ELSE s : s \in sale}

FinishSecondary(r) ==
    /\ pc[r] = "built" /\ kind[r] \in {"sale", "set_rate", "payout"}
    /\ sale' = IF kind[r] = "payout" THEN markSalesDistributed(list[r]) ELSE sale
    /\ addAuditLog(r, 1, {base[r] + 1})
    /\ UNCHANGED <<lockVars, kind, attempt, builds, base, results, row, list, price, initialized,
                   account>>

-----------------------------------------------------------------------------
\* The wallet submits an answered XDR: the ledger takes it if it carries the
\* account's next sequence number.
Submit(r) ==
    /\ account < MaxSeq
    /\ account + 1 \in seqs[r]
    /\ account' = account + 1
    /\ initialized' = (initialized \/ kind[r] \in {"initialize", "reveal"})
    /\ UNCHANGED <<lockVars, kind, pc, attempt, builds, base, results, row, audit, refused,
                   answer, seqs, sale, list, price>>

Handle(r) ==
    \/ StartBuilding(r) \/ StartAsking(r) \/ isContractInitialized(r) \/ AskingFails(r)
    \/ withAccountBuildLock(r) \/ getFreshAccount(r) \/ buildTx(r) \/ BuildFails(r)
    \/ retryBuildTx(r) \/ BatchTransactionBuilder(r) \/ BatchReady(r)
    \/ buildAndRecordTransaction(r) \/ Upgrade(r)
    \/ StartBatch(r) \/ AnswerBatch(r) \/ BatchTokens(r) \/ SetRate(r)
    \/ PostSecondarySale(r) \/ PostSecondaryDistribute(r) \/ FinishSecondary(r)

RoutesNext == \E r \in Request : Handle(r) \/ Submit(r)

RoutesSpec == RoutesInit /\ [][RoutesNext]_vars

-----------------------------------------------------------------------------
\* A sale is marked as distributed only by a payout that counted it: one whose
\* recorded total was taken from a list with the sale in it, however many sales
\* were recorded while the payout was being built.
MarkedWasCounted ==
    \A s \in sale : s.distributed =>
        \E r \in Request : /\ kind[r] = "payout" /\ row[r] = 1
                           /\ \E t \in list[r] : Same(s, t)

\* Every request that has been started is answered.
EveryRequestEnds == \A r \in Request : (pc[r] # "new") ~> (pc[r] = "done")

\* What the head of stellar.js says of the lock: "two simultaneous requests never
\* reuse one sequence".
NoSequenceReuse == \A r, s \in Request : r # s => seqs[r] \cap seqs[s] = {}
=============================================================================
