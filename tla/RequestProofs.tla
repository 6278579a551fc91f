--------------------------- MODULE RequestProofs ----------------------------
(***************************************************************************)
(* What the backend guarantees about requests that run side by side, for   *)
(* any number of them: the account lock is a first-come-first-served       *)
(* mutex, the routes that build transactions hold it while they build and  *)
(* never keep it, a payout marks only the sales it counted, and identical  *)
(* requests run twice only when the map of requests in flight has lost     *)
(* one.                                                                    *)
(***************************************************************************)
EXTENDS TxRoutes, RequestGuards, FiniteSetTheorems, TLAPS

-----------------------------------------------------------------------------
\* The inductive invariant: places are given out once and in order, a request in
\* the chain has not released its place, and whoever is inside found every place
\* before its own released.
LockInv ==
    /\ LockTypeOK
    /\ \A r \in Request : link[r] <= links
    /\ \A j \in released : j <= links
    /\ \A r \in Request : link[r] \notin released \/ link[r] = 0
    /\ \A r, s \in Request : link[r] = link[s] => r = s \/ link[r] = 0
    /\ \A r \in inside : link[r] # 0 /\ ChainSettled(link[r])

\* Each call of withAccountBuildLock, in any order of joins, entries and releases,
\* keeps the invariant.
LEMMA LockInvariant == LockSpec => []LockInv
<1>1. LockInit => LockInv
  BY DEF LockInit, LockInv, LockTypeOK, ChainSettled
<1>2. LockInv /\ [LockNext]_lockVars => LockInv'
  <2> SUFFICES ASSUME LockInv, [LockNext]_lockVars
               PROVE  LockInv'
    OBVIOUS
  <2>1. ASSUME NEW r \in Request, Join(r)
        PROVE  LockInv'
    BY <2>1 DEF Join, LockInv, LockTypeOK, ChainSettled
  <2>2. ASSUME NEW r \in Request, Enter(r)
        PROVE  LockInv'
    BY <2>2 DEF Enter, LockInv, LockTypeOK, ChainSettled
  <2>3. ASSUME NEW r \in Request, Leave(r)
        PROVE  LockInv'
    <3>1. /\ link[r] \in Nat \ {0} /\ link[r] <= links
          /\ \A s \in Request \ {r} : link'[s] = link[s]
          /\ link'[r] = 0
      BY <2>3 DEF Leave, LockInv, LockTypeOK
    <3>2. LockTypeOK'
      BY <2>3 DEF Leave, LockInv, LockTypeOK
    <3>3. \A s \in Request : link'[s] <= links' /\ (link'[s] \notin released' \/ link'[s] = 0)
      BY <2>3, <3>1 DEF Leave, LockInv, LockTypeOK
    <3>4. \A j \in released' : j <= links'
      BY <2>3, <3>1 DEF Leave, LockInv
    <3>5. \A s, t \in Request : link'[s] = link'[t] => s = t \/ link'[s] = 0
      BY <3>1 DEF LockInv
    <3>6. \A s \in inside' : link'[s] # 0 /\ ChainSettled(link[s])' /\ link'[s] = link[s]
      BY <2>3, <3>1 DEF Leave, LockInv, LockTypeOK, ChainSettled
    <3> QED
      BY <3>2, <3>3, <3>4, <3>5, <3>6 DEF LockInv, ChainSettled
  <2>4. CASE UNCHANGED lockVars
    BY <2>4 DEF lockVars, LockInv, LockTypeOK, ChainSettled
  <2> QED
    BY <2>1, <2>2, <2>3, <2>4 DEF LockNext
<1> QED
  BY <1>1, <1>2, PTL DEF LockSpec

\* The lock is one: for any number of requests, no two builds of one account run
\* at the same time (stellar.js withAccountBuildLock).
THEOREM LockExcludes == LockSpec => []OneBuildAtATime
<1>1. LockInv => OneBuildAtATime
  <2> SUFFICES ASSUME LockInv, NEW r \in inside, NEW s \in inside
               PROVE  r = s
    BY DEF OneBuildAtATime
  <2>1. r \in Request /\ s \in Request /\ link[r] \in Nat \ {0} /\ link[s] \in Nat \ {0}
    BY DEF LockInv, LockTypeOK
  <2>2. ~(link[r] < link[s]) /\ ~(link[s] < link[r])
    BY <2>1 DEF LockInv, ChainSettled
  <2>3. link[r] = link[s]
    BY <2>1, <2>2
  <2> QED
    BY <2>1, <2>3 DEF LockInv
<1> QED
  BY <1>1, LockInvariant, PTL

\* The lock is fair: a call gets in only when no earlier call of the account is
\* still in the chain, so that builds read the sequence number in call order.
THEOREM LockIsFirstComeFirstServed == LockSpec => FirstComeFirstServed
<1> DEFINE InOrder ==
      \A r \in inside' \ inside : \A s \in Request : link[s] # 0 => link[r] <= link[s]
<1>1. LockInv /\ [LockNext]_lockVars => [InOrder]_lockVars
  <2> SUFFICES ASSUME LockInv, LockNext,
                      NEW r \in inside' \ inside, NEW s \in Request, link[s] # 0
               PROVE  link[r] <= link[s]
    OBVIOUS
  <2>1. r \in Request /\ Enter(r)
    BY DEF LockNext, Join, Enter, Leave, LockInv, LockTypeOK
  <2>2. link[r] \in Nat /\ link[s] \in Nat
    BY <2>1 DEF LockInv, LockTypeOK
  <2>3. CASE link[s] < link[r]
    BY <2>1, <2>2, <2>3 DEF Enter, ChainSettled, LockInv
  <2> QED
    BY <2>2, <2>3
<1> QED
  BY <1>1, LockInvariant, PTL DEF LockSpec, FirstComeFirstServed

\* Joining the chain is arriving at the end of the line.
LEMMA JoinArrives ==
    ASSUME LockInv, NEW r \in Request, Join(r)
    PROVE  Mutex!Arrive(r)
<1>1. /\ link[r] = 0 /\ link'[r] = links + 1 /\ links \in Nat
      /\ \A s \in Request \ {r} : link'[s] = link[s]
      /\ \A s \in Request : link[s] \in Nat /\ link[s] <= links
      /\ inside' = inside
  BY DEF Join, LockInv, LockTypeOK
<1>2. r \notin Waiting /\ Waiting' = Waiting \cup {r}
  BY <1>1 DEF Waiting
<1>3. Ahead' = Ahead \cup (Waiting \X {r})
  <2>1. ASSUME NEW s \in Waiting', NEW t \in Waiting'
        PROVE  link'[s] < link'[t] <=>
                  \/ s \in Waiting /\ t \in Waiting /\ link[s] < link[t]
                  \/ s \in Waiting /\ t = r
    BY <1>1, <1>2 DEF Waiting
  <2>2. Waiting \subseteq Waiting' /\ r \in Waiting'
    BY <1>2
  <2> QED
    BY <2>1, <2>2 DEF Ahead
<1> QED
  BY <1>1, <1>2, <1>3 DEF Mutex!Arrive

\* Getting in is beginning to work with nobody ahead and nobody at work.
LEMMA EnterBegins ==
    ASSUME LockInv, NEW r \in Request, Enter(r)
    PROVE  Mutex!Begin(r)
<1>1. /\ r \in Waiting /\ link' = link /\ inside' = inside \cup {r}
      /\ link[r] \in Nat \ {0}
      /\ \A j \in 1..(link[r] - 1) : j \in released
      /\ r \notin inside
  BY DEF Enter, Waiting, ChainSettled, LockInv, LockTypeOK
<1>2. ASSUME NEW s \in Waiting, link[s] < link[r]
      PROVE  FALSE
  BY <1>1, <1>2 DEF Waiting, LockInv, LockTypeOK
<1>3. inside = {}
  <2> SUFFICES ASSUME NEW s \in inside PROVE FALSE
    OBVIOUS
  <2>1. /\ s \in Request /\ s \in Waiting /\ link[s] \in Nat \ {0} /\ s # r
        /\ \A j \in 1..(link[s] - 1) : j \in released
    BY <1>1 DEF LockInv, LockTypeOK, ChainSettled, Waiting
  <2>2. link[s] # link[r] /\ link[r] \notin released
    BY <1>1, <2>1 DEF LockInv
  <2>3. ~(link[r] < link[s])
    BY <1>1, <2>1, <2>2
  <2> QED
    BY <1>1, <1>2, <2>1, <2>2, <2>3
<1>4. \A s \in Waiting : <<s, r>> \notin Ahead
  BY <1>2 DEF Ahead
<1>5. Waiting' = Waiting /\ Ahead' = Ahead
  BY <1>1 DEF Waiting, Ahead
<1>6. inside' = {r}
  BY <1>1, <1>3
<1> QED
  BY <1>1, <1>3, <1>4, <1>5, <1>6 DEF Mutex!Begin

\* Releasing is finishing and stepping out of the line.
LEMMA LeaveFinishes ==
    ASSUME LockInv, OneBuildAtATime, NEW r \in Request, Leave(r)
    PROVE  Mutex!Finish(r)
<1>1. /\ r \in inside /\ inside' = inside \ {r}
      /\ link'[r] = 0
      /\ \A s \in Request \ {r} : link'[s] = link[s]
  BY DEF Leave, LockInv, LockTypeOK
<1>2. inside = {r} /\ inside' = {}
  BY <1>1 DEF OneBuildAtATime
<1>3. Waiting' = Waiting \ {r}
  BY <1>1 DEF Waiting
<1>4. Ahead' = {p \in Ahead : p[1] # r /\ p[2] # r}
  <2>1. ASSUME NEW s \in Waiting, s # r
        PROVE  link'[s] = link[s]
    BY <1>1, <2>1 DEF Waiting
  <2> QED
    BY <1>3, <2>1 DEF Ahead
<1> QED
  BY <1>2, <1>3, <1>4 DEF Mutex!Finish

\* withAccountBuildLock implements the first-come-first-served mutex, for any number
\* of requests and calls: every step of the chain is a step of the mutex.
THEOREM LockImplementsMutex == LockSpec => LockIsMutex
<1>1. LockInit => Mutex!Init
  BY DEF LockInit, Mutex!Init, Waiting, Ahead
<1>2. LockInv /\ OneBuildAtATime /\ [LockNext]_lockVars => [Mutex!Next]_Mutex!mutexVars
  <2> SUFFICES ASSUME LockInv, OneBuildAtATime, [LockNext]_lockVars
               PROVE  Mutex!Next \/ UNCHANGED Mutex!mutexVars
    OBVIOUS
  <2>1. CASE LockNext
    BY <2>1, JoinArrives, EnterBegins, LeaveFinishes DEF LockNext, Mutex!Next
  <2>2. CASE UNCHANGED lockVars
    BY <2>2 DEF lockVars, Mutex!mutexVars, Waiting, Ahead
  <2> QED
    BY <2>1, <2>2
<1> QED
  BY <1>1, <1>2, LockInvariant, LockExcludes, PTL DEF LockSpec, LockIsMutex, Mutex!Spec

-----------------------------------------------------------------------------
\* Whatever a handler does, it uses the lock through its three operations only.
LEMMA HandlersUseTheLock ==
    ASSUME NEW r, Handle(r) \/ Submit(r)
    PROVE  Join(r) \/ Enter(r) \/ Leave(r) \/ UNCHANGED lockVars
<1>1. CASE StartBuilding(r) \/ StartAsking(r) \/ isContractInitialized(r) \/ AskingFails(r)
  BY <1>1 DEF StartBuilding, StartAsking, isContractInitialized, AskingFails, AskForBuild
<1>2. CASE withAccountBuildLock(r) \/ getFreshAccount(r) \/ buildTx(r) \/ BuildFails(r)
  BY <1>2 DEF withAccountBuildLock, getFreshAccount, buildTx, BuildFails
<1>3. CASE retryBuildTx(r) \/ BatchTransactionBuilder(r) \/ BatchReady(r)
  BY <1>3 DEF retryBuildTx, AskForBuild, BatchTransactionBuilder, BatchReady
<1>4. CASE buildAndRecordTransaction(r) \/ Upgrade(r)
  BY <1>4 DEF buildAndRecordTransaction, AskForBuild, Upgrade
<1>5. CASE StartBatch(r) \/ AnswerBatch(r) \/ BatchTokens(r) \/ SetRate(r)
  BY <1>5 DEF StartBatch, AskForBuild, AnswerBatch, BatchTokens, SetRate
<1>6. CASE PostSecondarySale(r)
  BY <1>6 DEF PostSecondarySale, AskForBuild
<1>7. CASE PostSecondaryDistribute(r) \/ FinishSecondary(r)
  BY <1>7 DEF PostSecondaryDistribute, AskForBuild, FinishSecondary
<1>8. CASE Submit(r)
  BY <1>8 DEF Submit
<1> QED
  BY <1>1, <1>2, <1>3, <1>4, <1>5, <1>6, <1>7, <1>8 DEF Handle

\* The routes implement the lock's specification: no route takes or leaves the lock
\* but by withAccountBuildLock (stellar.js), so what is proved of the lock holds.
THEOREM RoutesUseTheLock == RoutesSpec => LockSpec
<1>1. RoutesInit => LockInit
  BY DEF RoutesInit
<1>2. [RoutesNext]_vars => [LockNext]_lockVars
  BY HandlersUseTheLock DEF RoutesNext, LockNext, vars
<1> QED
  BY <1>1, <1>2, PTL DEF RoutesSpec, LockSpec

-----------------------------------------------------------------------------
\* Where a handler is between its awaits, seen from the lock.
InLock == {"queued", "account", "preparing"}
Building == {"account", "preparing"}

\* A request is in the chain exactly while it waits or builds, and inside the lock
\* exactly while it builds: none ends, fails or backs off with the lock in hand.
LockIsHeldRight ==
    \A r \in Request : /\ link[r] # 0 <=> pc[r] \in InLock
                       /\ r \in inside <=> pc[r] \in Building

\* Two builds for one account never overlap, whichever routes they belong to.
BuildsAreSerial ==
    \A r, s \in Request : pc[r] \in Building /\ pc[s] \in Building => r = s

HeldInv == LockInv /\ DOMAIN pc = Request /\ LockIsHeldRight

\* A handler moves from one await to the next in step with the lock.
Moves(r, p) == pc' = [pc EXCEPT ![r] = p]
MovesInStep(r) ==
    \/ Join(r) /\ Moves(r, "queued")
    \/ Enter(r) /\ Moves(r, "account")
    \/ Leave(r) /\ \E p \in {"built", "backoff", "done"} : Moves(r, p)
    \/ /\ UNCHANGED lockVars
       /\ \/ UNCHANGED pc
          \/ pc[r] \in Building /\ Moves(r, "preparing")
          \/ pc[r] \notin InLock /\ \E p \in {"asking", "done"} : Moves(r, p)

LEMMA HandlersMoveInStep ==
    ASSUME NEW r, Handle(r) \/ Submit(r)
    PROVE  MovesInStep(r)
<1> USE DEF MovesInStep, Moves, InLock, Building
<1>1. CASE StartBuilding(r) \/ StartAsking(r)
  BY <1>1 DEF StartBuilding, StartAsking, AskForBuild
<1>2. CASE isContractInitialized(r) \/ AskingFails(r)
  BY <1>2 DEF isContractInitialized, AskingFails, AskForBuild, End
<1>3. CASE withAccountBuildLock(r) \/ getFreshAccount(r) \/ buildTx(r)
  BY <1>3 DEF withAccountBuildLock, getFreshAccount, buildTx
<1>4. CASE BuildFails(r)
  BY <1>4 DEF BuildFails
<1>5. CASE retryBuildTx(r) \/ BatchTransactionBuilder(r) \/ BatchReady(r)
  BY <1>5 DEF retryBuildTx, AskForBuild, BatchTransactionBuilder, BatchReady
<1>6. CASE buildAndRecordTransaction(r)
  BY <1>6 DEF buildAndRecordTransaction, AskForBuild, addAuditLog, End
<1>7. CASE Upgrade(r) \/ AnswerBatch(r) \/ BatchTokens(r) \/ FinishSecondary(r)
  BY <1>7 DEF Upgrade, AnswerBatch, BatchTokens, FinishSecondary, addAuditLog, End
<1>8. CASE StartBatch(r) \/ SetRate(r)
  BY <1>8 DEF StartBatch, SetRate, AskForBuild
<1>9. CASE PostSecondarySale(r)
  BY <1>9 DEF PostSecondarySale, AskForBuild, End
<1>10. CASE PostSecondaryDistribute(r)
  BY <1>10 DEF PostSecondaryDistribute, AskForBuild, End
<1>11. CASE Submit(r)
  BY <1>11 DEF Submit
<1> QED
  BY <1>1, <1>2, <1>3, <1>4, <1>5, <1>6, <1>7, <1>8, <1>9, <1>10, <1>11 DEF Handle

\* Moving in step keeps the lock held right.
LEMMA HeldStep ==
    ASSUME HeldInv, NEW r \in Request, MovesInStep(r)
    PROVE  DOMAIN pc' = Request /\ LockIsHeldRight'
<1> USE DEF MovesInStep, Moves, InLock, Building
<1>0. /\ DOMAIN pc = Request /\ link \in [Request -> Nat] /\ inside \subseteq Request
      /\ links \in Nat
      /\ \A s \in Request : /\ link[s] # 0 <=> pc[s] \in InLock
                            /\ s \in inside <=> pc[s] \in Building
  BY DEF HeldInv, LockInv, LockTypeOK, LockIsHeldRight
<1>1. DOMAIN pc' = Request
  BY <1>0
<1>2. CASE Join(r) /\ Moves(r, "queued")
  BY <1>0, <1>2 DEF Join, LockIsHeldRight
<1>3. CASE Enter(r) /\ Moves(r, "account")
  BY <1>0, <1>3 DEF Enter, LockIsHeldRight
<1>4. ASSUME NEW p \in {"built", "backoff", "done"}, Leave(r), Moves(r, p)
      PROVE  LockIsHeldRight'
  BY <1>0, <1>4 DEF Leave, LockIsHeldRight
<1>5. CASE UNCHANGED lockVars
  BY <1>0, <1>5 DEF lockVars, LockIsHeldRight, Join, Enter, Leave
<1> QED
  BY <1>1, <1>2, <1>3, <1>4, <1>5

\* The lock is held right through every route, attempt and failure: a build that
\* throws gives the lock back before its handler backs off or answers.
THEOREM LockStaysHeldRight == RoutesSpec => []LockIsHeldRight
<1>1. RoutesInit => DOMAIN pc = Request /\ LockIsHeldRight
  BY DEF RoutesInit, LockInit, LockIsHeldRight, InLock, Building
<1>2. LockInv /\ (DOMAIN pc = Request /\ LockIsHeldRight) /\ [RoutesNext]_vars
        => (DOMAIN pc = Request /\ LockIsHeldRight)'
  <2>1. CASE UNCHANGED vars
    BY <2>1 DEF vars, lockVars, routeVars, LockIsHeldRight
  <2> QED
    BY <2>1, HandlersMoveInStep, HeldStep DEF RoutesNext, HeldInv
<1> QED
  BY <1>1, <1>2, RoutesUseTheLock, LockInvariant, PTL DEF RoutesSpec

\* Handlers of one account read its sequence number and prepare their transactions
\* one at a time, for any number of requests of any kinds and any failures.
THEOREM BuildsStaySerial == RoutesSpec => []BuildsAreSerial
<1>1. LockIsHeldRight /\ OneBuildAtATime => BuildsAreSerial
  BY DEF LockIsHeldRight, OneBuildAtATime, BuildsAreSerial
<1> QED
  BY <1>1, LockStaysHeldRight, RoutesUseTheLock, LockExcludes, PTL

-----------------------------------------------------------------------------
\* A payout that has a list has recorded its transaction, once.
CountedOnce ==
    \A r \in Request : kind[r] = "payout" => /\ pc[r] = "new" => row[r] = 0
                                             /\ list[r] # {} => row[r] = 1

CountInv ==
    /\ DOMAIN kind = Request /\ DOMAIN pc = Request /\ DOMAIN row = Request
    /\ DOMAIN list = Request
    /\ CountedOnce /\ MarkedWasCounted

\* What a step of another kind of request, or between two awaits, may write.
Unrelated(r) ==
    /\ UNCHANGED <<kind, list, sale>>
    /\ \/ UNCHANGED pc
       \/ \E p : p # "new" /\ Moves(r, p)
    /\ \/ UNCHANGED row
       \/ kind[r] # "payout" /\ \E n : recordTransaction(r, n)

LEMMA CountWriters ==
    ASSUME NEW r, Handle(r) \/ Submit(r)
    PROVE  \/ Unrelated(r) \/ PostSecondarySale(r)
           \/ PostSecondaryDistribute(r) \/ FinishSecondary(r)
<1> USE DEF Unrelated, Moves
<1>1. CASE StartBuilding(r) \/ StartAsking(r)
  BY <1>1 DEF StartBuilding, StartAsking, AskForBuild
<1>2. CASE isContractInitialized(r) \/ AskingFails(r)
  BY <1>2 DEF isContractInitialized, AskingFails, AskForBuild, End
<1>3. CASE withAccountBuildLock(r) \/ getFreshAccount(r) \/ buildTx(r)
  BY <1>3 DEF withAccountBuildLock, getFreshAccount, buildTx
<1>4. CASE BuildFails(r)
  BY <1>4 DEF BuildFails
<1>5. CASE retryBuildTx(r) \/ BatchTransactionBuilder(r) \/ BatchReady(r)
  BY <1>5 DEF retryBuildTx, AskForBuild, BatchTransactionBuilder, BatchReady
<1>6. CASE buildAndRecordTransaction(r)
  BY <1>6 DEF buildAndRecordTransaction, AskForBuild, addAuditLog, End, Shared
<1>7. CASE Upgrade(r) \/ AnswerBatch(r) \/ BatchTokens(r)
  BY <1>7 DEF Upgrade, AnswerBatch, BatchTokens, addAuditLog, End
<1>8. CASE StartBatch(r) \/ SetRate(r)
  BY <1>8 DEF StartBatch, SetRate, AskForBuild
<1>9. CASE Submit(r)
  BY <1>9 DEF Submit
<1> QED
  BY <1>1, <1>2, <1>3, <1>4, <1>5, <1>6, <1>7, <1>8, <1>9 DEF Handle

\* A payout is counted before its sales are marked, whatever else happens meanwhile.
LEMMA CountStep ==
    ASSUME CountInv, NEW r \in Request, Handle(r) \/ Submit(r)
    PROVE  CountInv'
<1>0. /\ DOMAIN kind = Request /\ DOMAIN pc = Request /\ DOMAIN row = Request
      /\ DOMAIN list = Request
      /\ CountedOnce /\ MarkedWasCounted
  BY DEF CountInv
<1>1. CASE Unrelated(r)
  <2>1. /\ UNCHANGED <<kind, list, sale>>
        /\ DOMAIN pc' = Request /\ DOMAIN row' = Request
        /\ \A q \in Request : kind[q] = "payout" => row'[q] = row[q]
        /\ \A q \in Request : pc'[q] = "new" => pc[q] = "new"
    <3>1. UNCHANGED <<kind, list, sale>>
      BY <1>1 DEF Unrelated
    <3>2. DOMAIN pc' = Request /\ \A q \in Request : pc'[q] = "new" => pc[q] = "new"
      BY <1>0, <1>1 DEF Unrelated, Moves
    <3>3. DOMAIN row' = Request /\ \A q \in Request : kind[q] = "payout" => row'[q] = row[q]
      BY <1>0, <1>1 DEF Unrelated, recordTransaction
    <3> QED
      BY <3>1, <3>2, <3>3
  <2>2. CountedOnce'
    BY <1>0, <2>1 DEF CountedOnce
  <2>3. MarkedWasCounted'
    BY <1>0, <2>1 DEF MarkedWasCounted
  <2> QED
    BY <1>0, <2>1, <2>2, <2>3 DEF CountInv
<1>2. CASE PostSecondarySale(r)
  <2>1. /\ UNCHANGED <<kind, list>> /\ kind[r] = "sale"
        /\ DOMAIN pc' = Request /\ DOMAIN row' = Request
        /\ \A q \in Request : q # r => row'[q] = row[q] /\ pc'[q] = pc[q]
    BY <1>0, <1>2 DEF PostSecondarySale, AskForBuild, recordTransaction, End
  <2>2. \A s \in sale' : s.distributed => s \in sale
    BY <1>2 DEF PostSecondarySale, recordSecondarySale
  <2>3. CountedOnce'
    BY <1>0, <2>1 DEF CountedOnce
  <2>4. MarkedWasCounted'
    BY <1>0, <2>1, <2>2 DEF MarkedWasCounted
  <2> QED
    BY <1>0, <2>1, <2>3, <2>4 DEF CountInv
<1>3. CASE PostSecondaryDistribute(r)
  <2>1. /\ UNCHANGED <<kind, sale>> /\ kind[r] = "payout" /\ row[r] = 0
        /\ DOMAIN pc' = Request /\ DOMAIN row' = Request /\ DOMAIN list' = Request
        /\ pc'[r] # "new"
        /\ \/ row'[r] = 1
           \/ row'[r] = row[r] /\ list'[r] = list[r]
        /\ \A q \in Request : q # r => row'[q] = row[q] /\ pc'[q] = pc[q] /\ list'[q] = list[q]
    BY <1>0, <1>3 DEF PostSecondaryDistribute, AskForBuild, recordTransaction, End, CountedOnce
  <2>2. list[r] = {}
    BY <1>0, <2>1 DEF CountedOnce
  <2>3. CountedOnce'
    BY <1>0, <2>1, <2>2 DEF CountedOnce
  <2>4. MarkedWasCounted'
    BY <1>0, <2>1, <2>2 DEF MarkedWasCounted
  <2> QED
    BY <1>0, <2>1, <2>3, <2>4 DEF CountInv
<1>4. CASE FinishSecondary(r)
  <2>1. /\ UNCHANGED <<kind, list, row>>
        /\ DOMAIN pc' = Request /\ pc'[r] # "new"
        /\ \A q \in Request : q # r => pc'[q] = pc[q]
        /\ sale' = IF kind[r] = "payout" THEN markSalesDistributed(list[r]) ELSE sale
    BY <1>0, <1>4 DEF FinishSecondary, addAuditLog, End
  <2>2. CountedOnce'
    BY <1>0, <2>1 DEF CountedOnce
  <2>3. ASSUME NEW s \in sale', s.distributed
        PROVE  \E q \in Request : /\ kind[q] = "payout" /\ row[q] = 1
                                  /\ \E t \in list[q] : Same(s, t)
    <3>1. CASE s \in sale
      BY <1>0, <2>3, <3>1 DEF MarkedWasCounted
    <3>2. CASE s \notin sale
      <4>1. kind[r] = "payout" /\ s \in markSalesDistributed(list[r])
        BY <2>1, <3>2
      <4>2. PICK o \in sale : /\ s = [o EXCEPT !.distributed = TRUE]
                              /\ \E t \in list[r] : Same(o, t)
        BY <3>2, <4>1 DEF markSalesDistributed
      <4>3. PICK t \in list[r] : Same(o, t)
        BY <4>2
      <4>4. s.price = o.price
        BY <4>2
      <4>5. Same(s, t)
        BY <4>3, <4>4 DEF Same
      <4>6. row[r] = 1
        BY <1>0, <4>1, <4>3 DEF CountedOnce
      <4> QED
        BY <4>1, <4>3, <4>5, <4>6
    <3> QED
      BY <3>1, <3>2
  <2>4. MarkedWasCounted'
    BY <2>1, <2>3 DEF MarkedWasCounted, Same
  <2> QED
    BY <1>0, <2>1, <2>2, <2>4 DEF CountInv
<1> QED
  BY <1>1, <1>2, <1>3, <1>4, CountWriters

\* A sale is marked as distributed only by a payout whose recorded total counted it,
\* however many sales and payouts are handled at the same time.
THEOREM MarkedSalesWereCounted == RoutesSpec => []MarkedWasCounted
<1>1. RoutesInit => CountInv
  BY DEF RoutesInit, CountInv, CountedOnce, MarkedWasCounted
<1>2. CountInv /\ [RoutesNext]_vars => CountInv'
  <2>1. ASSUME CountInv, UNCHANGED vars
        PROVE  CountInv'
    BY <2>1 DEF vars, routeVars, CountInv, CountedOnce, MarkedWasCounted
  <2> QED
    BY <2>1, CountStep DEF RoutesNext
<1>3. CountInv => MarkedWasCounted
  BY DEF CountInv
<1> QED
  BY <1>1, <1>2, <1>3, PTL DEF RoutesSpec

-----------------------------------------------------------------------------
\* The map of requests in flight holds a request only while its handler runs, and
\* for every further handler that runs it has lost one.
FlightInv ==
    /\ stage \in [Req -> {"new", "following", "running", "over"}]
    /\ inFlight = Nobody \/ inFlight \in Running
    /\ IsFiniteSet(Running) /\ lost \in Nat
    /\ Cardinality(Running) <= lost + (IF inFlight = Nobody THEN 0 ELSE 1)

\* A step that moves r from one stage to another that is not "running".
LEMMA RunningAfter ==
    ASSUME FlightInv, NEW r \in Req, NEW s \in {"new", "following", "over"},
           stage' = [stage EXCEPT ![r] = s]
    PROVE  Running' = Running \ {r}
  BY DEF FlightInv, Running

LEMMA FlightStep == FlightInv /\ [GuardsNext]_guardVars => FlightInv'
<1> SUFFICES ASSUME FlightInv, [GuardsNext]_guardVars
             PROVE  FlightInv'
  OBVIOUS
<1> USE GuardsAssumption
<1>0. ASSUME NEW r \in Req
      PROVE  /\ Cardinality(Running) \in Nat
             /\ IsFiniteSet(Running \ {r}) /\ IsFiniteSet(Running \cup {r})
             /\ Cardinality(Running \ {r}) = IF r \in Running THEN Cardinality(Running) - 1
                                             ELSE Cardinality(Running)
             /\ Cardinality(Running \cup {r}) = IF r \in Running THEN Cardinality(Running)
                                                ELSE Cardinality(Running) + 1
  <2>1. IsFiniteSet(Running)
    BY DEF FlightInv
  <2> QED
    BY <2>1, FS_CardinalityType, FS_RemoveElement, FS_AddElement
<1>1. ASSUME UNCHANGED <<stage, inFlight, lost>>
      PROVE  FlightInv'
  BY <1>1 DEF FlightInv, Running
<1>2. ASSUME NEW r \in Req, TooMany(r) \/ Follow(r) \/ Replay(r)
      PROVE  FlightInv'
  <2>1. PICK s \in {"following", "over"} : stage' = [stage EXCEPT ![r] = s]
    BY <1>2 DEF TooMany, Follow, Replay
  <2>2. stage[r] = "new" /\ UNCHANGED <<inFlight, lost>>
    BY <1>2 DEF TooMany, Follow, Replay, Admit
  <2>3. Running' = Running
    BY <2>1, <2>2 DEF Running, FlightInv
  <2> QED
    BY <2>1, <2>2, <2>3 DEF FlightInv
<1>3. ASSUME NEW r \in Req, Lead(r)
      PROVE  FlightInv'
  <2>1. /\ stage[r] = "new" /\ stage' = [stage EXCEPT ![r] = "running"]
        /\ inFlight = Nobody /\ inFlight' = r /\ lost' = lost
    BY <1>3 DEF Lead, Admit
  <2>2. Running' = Running \cup {r} /\ r \notin Running
    BY <2>1 DEF Running, FlightInv
  <2> QED
    BY <1>0, <2>1, <2>2 DEF FlightInv
<1>4. ASSUME NEW r \in Req, DedupExpires(r)
      PROVE  FlightInv'
  <2>1. /\ stage' = stage
        /\ IF inFlight = r THEN inFlight' = Nobody /\ lost' = lost + 1
           ELSE UNCHANGED <<inFlight, lost>>
    BY <1>4 DEF DedupExpires
  <2>2. Running' = Running
    BY <2>1 DEF Running
  <2> QED
    BY <1>0, <2>1, <2>2 DEF FlightInv
<1>5. ASSUME NEW r \in Req, RequestTimeout(r)
      PROVE  FlightInv'
  <2>1. /\ stage' = stage
        /\ IF stage[r] = "running"
           THEN /\ inFlight' = Nobody
                /\ lost' = lost + Forgotten(r) + (IF inFlight = r THEN 1 ELSE 0)
           ELSE UNCHANGED <<inFlight, lost>>
    BY <1>5 DEF RequestTimeout, TimesOut, interceptedJson
  <2>2. Running' = Running
    BY <2>1 DEF Running
  <2> QED
    BY <1>0, <2>1, <2>2 DEF FlightInv, Forgotten
<1>6. ASSUME NEW r \in Req, NEW s, Answer(r, s)
      PROVE  FlightInv'
  <2>1. /\ stage[r] = "running" /\ stage' = [stage EXCEPT ![r] = "over"]
        /\ inFlight' = Nobody /\ lost' = lost + Forgotten(r)
    BY <1>6 DEF Answer, interceptedJson
  <2>2. Running' = Running \ {r} /\ r \in Running
    BY <2>1, RunningAfter DEF Running
  <2> QED
    BY <1>0, <2>1, <2>2 DEF FlightInv, Forgotten
<1>7. ASSUME NEW r \in Req, FollowerAnswered(r)
      PROVE  FlightInv'
  <2>1. /\ stage[r] = "following" /\ stage' = [stage EXCEPT ![r] = "over"]
        /\ UNCHANGED <<inFlight, lost>>
    BY <1>7 DEF FollowerAnswered
  <2>2. Running' = Running
    BY <2>1 DEF Running, FlightInv
  <2> QED
    BY <2>1, <2>2 DEF FlightInv
<1>8. CASE cleanupExpiredEntries \/ WindowTurns \/ UNCHANGED guardVars
  BY <1>1, <1>8 DEF cleanupExpiredEntries, WindowTurns, guardVars
<1> QED
  BY <1>2, <1>3, <1>4, <1>5, <1>6, <1>7, <1>8 DEF GuardsNext, Arrive

\* Identical requests run twice only as often as the map of requests in flight has
\* lost a running one (dedup.js), for any number of requests, keys and windows.
THEOREM DuplicatesAreExplained == GuardsSpec => []DuplicatesOnlyWhenLost
<1>1. GuardsInit => FlightInv
  <2> SUFFICES ASSUME GuardsInit PROVE FlightInv
    OBVIOUS
  <2>1. Running = {}
    BY DEF GuardsInit, Running
  <2>2. IsFiniteSet(Running) /\ Cardinality(Running) = 0
    BY <2>1, FS_EmptySet
  <2> QED
    BY <2>2 DEF GuardsInit, FlightInv
<1>2. FlightInv => DuplicatesOnlyWhenLost
  <2> SUFFICES ASSUME FlightInv PROVE DuplicatesOnlyWhenLost
    OBVIOUS
  <2>1. Cardinality(Running) \in Nat
    BY FS_CardinalityType DEF FlightInv
  <2> QED
    BY <2>1 DEF FlightInv, DuplicatesOnlyWhenLost
<1> QED
  BY <1>1, <1>2, FlightStep, PTL DEF GuardsSpec
=============================================================================
