-------------------------- MODULE BackstageProofs ---------------------------
(***************************************************************************)
(* What the backend guarantees behind its requests, for any number of      *)
(* sockets, transactions, webhooks, connections and restarts: verdicts     *)
(* agree with the ledger and stay, pushes have something behind them, and  *)
(* the process never half-does its work.                                   *)
(***************************************************************************)
EXTENDS MCBackstage, SumTheorems

-----------------------------------------------------------------------------
(***************************************************************************)
(* The hub.  A socket is listed under a transaction or finality key only   *)
(* while it is not closed and keeps the key itself: that is why the close  *)
(* handler, which goes by the socket's own keys, leaves nothing behind.    *)
(***************************************************************************)

SocketState == [state : {"new", "open", "closed"}, isAlive : BOOLEAN, wallet : Wallet \cup {NoWallet},
                txnKeys : SUBSET Key, finalityKeys : SUBSET Key]

Listed(s) ==
    \A t \in Tx :
        /\ s \in clients[TxnKey(t)] => ws[s].state # "closed" /\ TxnKey(t) \in ws[s].txnKeys
        /\ s \in clients[FinalityKey(t)] => ws[s].state # "closed" /\ FinalityKey(t) \in ws[s].finalityKeys

HubInv ==
    /\ clients \in [Key -> SUBSET Socket]
    /\ ws \in [Socket -> SocketState]
    /\ \A s \in Socket : Listed(s)

\* Keys of different kinds, and of different transactions, are different.
LEMMA KeysDiffer ==
    /\ \A t \in Tx : TxnKey(t) \in Key /\ FinalityKey(t) \in Key
    /\ \A w \in Wallet : WalletKey(w) \in Key
    /\ \A t, u \in Tx : TxnKey(t) # FinalityKey(u)
    /\ \A t, u \in Tx : (TxnKey(t) = TxnKey(u) => t = u) /\ (FinalityKey(t) = FinalityKey(u) => t = u)
    /\ \A w \in Wallet, t \in Tx : WalletKey(w) # TxnKey(t) /\ WalletKey(w) # FinalityKey(t)
BY DEF Key, TxnKey, FinalityKey, WalletKey

\* The hub starts with no socket listed.
LEMMA HubStarts == HubInit => HubInv
<1> SUFFICES ASSUME HubInit PROVE HubInv  OBVIOUS
<1>1. Unconnected \in SocketState  BY DEF Unconnected, SocketState
<1>2. clients \in [Key -> SUBSET Socket] /\ ws \in [Socket -> SocketState]
  BY <1>1 DEF HubInit
<1>3. ASSUME NEW s \in Socket PROVE Listed(s)
  BY KeysDiffer DEF HubInit, Listed
<1> QED  BY <1>2, <1>3 DEF HubInv

\* Subscriptions, pongs, closes and heartbeats keep every listing honest.
LEMMA HubStep == HubInv /\ HubNext => HubInv'
<1> SUFFICES ASSUME HubInv, HubNext PROVE HubInv'  OBVIOUS
<1> USE KeysDiffer
<1>1. ASSUME NEW s \in Socket, Connect(s) PROVE HubInv'
  BY <1>1 DEF Connect, HubInv, Listed, SocketState
<1>2. ASSUME NEW s \in Socket, Pong(s) PROVE HubInv'
  BY <1>2 DEF Pong, HubInv, Listed, SocketState
<1>3. ASSUME NEW s \in Socket, NEW w \in Wallet, SubscribeWallet(s, w) PROVE HubInv'
  BY <1>3 DEF SubscribeWallet, Open, HubInv, Listed, SocketState
<1>4. ASSUME NEW s \in Socket, NEW t \in Tx, SubscribeTxn(s, t) PROVE HubInv'
  BY <1>4 DEF SubscribeTxn, Open, HubInv, Listed, SocketState
<1>5. ASSUME NEW s \in Socket, NEW t \in Tx, SubscribeFinality(s, t) PROVE HubInv'
  BY <1>5 DEF SubscribeFinality, Open, HubInv, Listed, SocketState
<1>6. ASSUME NEW s \in Socket, Close(s) PROVE HubInv'
  BY <1>6 DEF Close, OwnKeys, Open, HubInv, Listed, SocketState
<1>7. CASE Heartbeat
  <2> DEFINE dead == {s \in Socket : Open(s) /\ ~ws[s].isAlive}
  <2>1. /\ clients' = [k \in Key |-> clients[k] \ {s \in dead : k \in OwnKeys(s)}]
        /\ ws' = [s \in Socket |->
                    IF s \in dead THEN [ws[s] EXCEPT !.state = "closed"]
                    ELSE IF Open(s) THEN [ws[s] EXCEPT !.isAlive = FALSE] ELSE ws[s]]
    BY <1>7 DEF Heartbeat
  <2>2. clients' \in [Key -> SUBSET Socket]
    BY <2>1 DEF HubInv
  <2>3. ASSUME NEW s \in Socket
        PROVE  /\ ws'[s] \in SocketState
               /\ ws'[s].txnKeys = ws[s].txnKeys /\ ws'[s].finalityKeys = ws[s].finalityKeys
               /\ ws'[s].state = IF s \in dead THEN "closed" ELSE ws[s].state
    <3>1. ws[s] \in SocketState  BY DEF HubInv
    <3> HIDE DEF dead
    <3> QED  BY <2>1, <3>1 DEF SocketState
  <2> HIDE DEF dead
  <2>4. ASSUME NEW s \in Socket PROVE Listed(s)'
    <3>1. Listed(s) /\ ws[s].txnKeys \cup ws[s].finalityKeys \subseteq OwnKeys(s)
      BY DEF HubInv, OwnKeys
    <3>2. \A k \in Key : s \in clients'[k] => s \in clients[k] /\ (s \in dead => k \notin OwnKeys(s))
      BY <2>1
    <3> QED  BY <2>3, <3>1, <3>2 DEF Listed
  <2>5. ws' \in [Socket -> SocketState]  BY <2>1, <2>3
  <2> QED  BY <2>2, <2>4, <2>5 DEF HubInv
<1> QED  BY <1>1, <1>2, <1>3, <1>4, <1>5, <1>6, <1>7 DEF HubNext

\* Whoever is told something, clients and sockets stay.
LEMMA HubStays == HubInv /\ UNCHANGED <<clients, ws>> => HubInv'
BY DEF HubInv, Listed

\* No closed socket is listed under a transaction or finality key.
LEMMA HubHasNoGhosts == HubInv => NoGhostSubscribers
BY KeysDiffer DEF HubInv, Listed, NoGhostSubscribers

-----------------------------------------------------------------------------
(***************************************************************************)
(* Finality.  A loop runs only beside a pending record that is not past    *)
(* its retention, and the hash it holds is the record's: so the verdict it *)
(* writes is the first, and is about the hash the record carries.          *)
(***************************************************************************)

Verdicts == {"pending", "confirmed", "failed", "timeout"}
Records == [status : Verdicts, hash : TrackedHash \cup {NotSent}]
Loops == [at : {"ended", "head", "wait", "poll"}, hash : TrackedHash \cup {NotSent}, aborted : BOOLEAN]

FinalityTypes ==
    /\ horizon \in [TrackedHash -> {"not_found"} \cup Definitive]
    /\ record \in [Tx -> Records \cup {NoRecord}]
    /\ age \in [Tx -> {"window", "late", "old"}]
    /\ loop \in [Tx -> Loops]

LoopFollowsRecord(t) ==
    /\ Running(t) =>
          /\ record[t] # NoRecord /\ record[t].status = "pending" /\ age[t] # "old"
          /\ loop[t].hash # NotSent => record[t].hash = loop[t].hash
    /\ loop[t].at = "poll" => loop[t].hash # NotSent

FinalityInv ==
    /\ FinalityTypes
    /\ \A t \in Tx : LoopFollowsRecord(t)
    /\ SettledMatchesLedger

LEMMA FinalityStarts == FinalityInit => FinalityInv
<1> SUFFICES ASSUME FinalityInit PROVE FinalityInv  OBVIOUS
<1>1. NoLoop \in Loops /\ NoLoop.at = "ended"  BY DEF NoLoop, Loops
<1>2. FinalityTypes  BY <1>1 DEF FinalityInit, FinalityTypes
<1>3. \A t \in Tx : LoopFollowsRecord(t)  BY <1>1 DEF FinalityInit, LoopFollowsRecord, Running
<1>4. SettledMatchesLedger  BY DEF FinalityInit, SettledMatchesLedger
<1> QED  BY <1>2, <1>3, <1>4 DEF FinalityInv

\* An age or a settlement on the ledger.
LEMMA TimeKeepsFinality ==
    ASSUME FinalityInv, (\E h \in TrackedHash : HorizonSettles(h)) \/ (\E t \in Tx : Age(t))
    PROVE  FinalityInv'
<1> USE FinalityAssumption
<1>1. ASSUME NEW h \in TrackedHash, HorizonSettles(h) PROVE FinalityInv'
  <2>1. PICK outcome \in Definitive : horizon' = [horizon EXCEPT ![h] = outcome]
    BY <1>1 DEF HorizonSettles
  <2>2. \A g \in TrackedHash : horizon[g] \in Definitive => horizon'[g] = horizon[g]
    BY <1>1, <2>1 DEF HorizonSettles, FinalityInv, FinalityTypes, Definitive
  <2>3. UNCHANGED <<record, age, loop>>  BY <1>1 DEF HorizonSettles
  <2>4. FinalityTypes'  BY <2>1, <2>3 DEF FinalityInv, FinalityTypes
  <2>5. SettledMatchesLedger'
    <3> SUFFICES ASSUME NEW t \in Tx, record[t] # NoRecord, record[t].status \in Definitive
                 PROVE  record[t].hash # NotSent /\ record[t].status = horizon'[record[t].hash]
      BY <2>3 DEF SettledMatchesLedger
    <3>1. record[t].hash \in TrackedHash /\ record[t].status = horizon[record[t].hash]
      BY DEF FinalityInv, FinalityTypes, Records, SettledMatchesLedger
    <3> QED  BY <2>2, <3>1 DEF FinalityInv, SettledMatchesLedger
  <2> QED  BY <2>3, <2>4, <2>5 DEF FinalityInv, LoopFollowsRecord, Running
<1>2. ASSUME NEW t \in Tx, Age(t) PROVE FinalityInv'
  BY <1>2 DEF Age, FinalityInv, FinalityTypes, LoopFollowsRecord, Running, SettledMatchesLedger
<1> QED  BY <1>1, <1>2

\* The routes and the cleanup.
LEMMA RoutesKeepFinality ==
    ASSUME FinalityInv, NEW t \in Tx, NEW h \in TrackedHash \cup {NotSent},
           PostNew(t, h) \/ PostHash(t, h) \/ cancelTracking(t)
    PROVE  FinalityInv'
<1> USE FinalityAssumption
<1>1. CASE PostNew(t, h)
  <2> DEFINE new == [status |-> "pending", hash |-> h]
             started == [at |-> "head", hash |-> h, aborted |-> FALSE]
  <2>1. /\ new \in Records /\ new # NoRecord /\ new.status = "pending" /\ new.hash = h
        /\ started \in Loops /\ started.hash = h /\ started.at = "head"
    BY DEF Records, Loops, Verdicts
  <2>2. /\ record' = [record EXCEPT ![t] = new] /\ loop' = [loop EXCEPT ![t] = started]
        /\ age' = [age EXCEPT ![t] = "window"] /\ horizon' = horizon
    BY <1>1 DEF PostNew, startTracking, createFinalityRecord
  <2> HIDE DEF new, started
  <2>3. FinalityTypes'  BY <2>1, <2>2 DEF FinalityInv, FinalityTypes
  <2>4. \A u \in Tx : LoopFollowsRecord(u)'
    BY <2>1, <2>2 DEF FinalityInv, FinalityTypes, LoopFollowsRecord, Running
  <2>5. SettledMatchesLedger'
    BY <2>1, <2>2 DEF FinalityInv, FinalityTypes, SettledMatchesLedger, Definitive
  <2> QED  BY <2>3, <2>4, <2>5 DEF FinalityInv
<1>2. CASE PostHash(t, h)
  <2> DEFINE given == [record[t] EXCEPT !.hash = h]
  <2>1. /\ record[t] # NoRecord /\ h # NotSent /\ record[t].hash = NotSent
        /\ record' = [record EXCEPT ![t] = given] /\ UNCHANGED <<horizon, age, loop>>
    BY <1>2 DEF PostHash, FirstHash, setFinalityTxHash
  <2>2. record[t] \in Records  BY <2>1 DEF FinalityInv, FinalityTypes
  <2>3. given \in Records /\ given # NoRecord /\ given.status = record[t].status /\ given.hash = h
    BY <2>2 DEF Records, Verdicts
  <2> HIDE DEF given
  <2>4. FinalityTypes'  BY <2>1, <2>3 DEF FinalityInv, FinalityTypes
  <2>5. \A u \in Tx : LoopFollowsRecord(u)'
    BY <2>1, <2>3 DEF FinalityInv, FinalityTypes, LoopFollowsRecord, Running
  <2>6. SettledMatchesLedger'
    BY <2>1, <2>3 DEF FinalityInv, FinalityTypes, SettledMatchesLedger
  <2> QED  BY <2>4, <2>5, <2>6 DEF FinalityInv
<1>3. CASE cancelTracking(t)
  <2> DEFINE told == [loop[t] EXCEPT !.aborted = TRUE]
  <2>1. loop' = [loop EXCEPT ![t] = told] /\ UNCHANGED <<horizon, record, age>>
    BY <1>3 DEF cancelTracking
  <2>2. told \in Loops /\ told.at = loop[t].at /\ told.hash = loop[t].hash
    BY DEF FinalityInv, FinalityTypes, Loops
  <2> HIDE DEF told
  <2>3. FinalityTypes'  BY <2>1, <2>2 DEF FinalityInv, FinalityTypes
  <2>4. \A u \in Tx : LoopFollowsRecord(u)'
    BY <2>1, <2>2 DEF FinalityInv, FinalityTypes, LoopFollowsRecord, Running
  <2> QED  BY <2>1, <2>3, <2>4 DEF FinalityInv, SettledMatchesLedger
<1> QED  BY <1>1, <1>2, <1>3

\* A loop that goes on, or ends without a verdict.
LEMMA PollingKeepsFinality ==
    ASSUME FinalityInv, NEW t \in Tx, PollWait(t) \/ PollWake(t) \/ PollAgain(t)
    PROVE  FinalityInv'
<1>0. NoLoop \in Loops /\ NoLoop.at = "ended"  BY DEF NoLoop, Loops
<1>1. UNCHANGED <<horizon, record, age>>  BY DEF PollWait, PollWake, PollAgain
<1>2. loop[t] \in Loops /\ Running(t) /\ loop = [u \in Tx |-> loop[u]] /\ LoopFollowsRecord(t)
  BY DEF FinalityInv, FinalityTypes, PollWait, PollWake, PollAgain, Running
<1>3. record[t] \in Records  BY <1>2 DEF FinalityInv, FinalityTypes, LoopFollowsRecord
<1>4. \E l \in Loops :
         /\ loop' = [loop EXCEPT ![t] = l]
         /\ l.at # "ended" /\ l.hash # NotSent => record[t].hash = l.hash
         /\ l.at = "poll" => l.hash # NotSent
  <2>1. CASE loop' = [loop EXCEPT ![t] = NoLoop]
    BY <1>0, <2>1
  <2>2. CASE PollWait(t) /\ loop' = [loop EXCEPT ![t].at = "wait"]
    <3> DEFINE l == [loop[t] EXCEPT !.at = "wait"]
    <3>1. l \in Loops /\ l.at = "wait" /\ l.hash = loop[t].hash  BY <1>2 DEF Loops
    <3>2. loop' = [loop EXCEPT ![t] = l]  BY <2>2
    <3> HIDE DEF l
    <3> QED  BY <1>2, <3>1, <3>2 DEF LoopFollowsRecord
  <2>3. CASE PollAgain(t)
    <3> DEFINE l == [loop[t] EXCEPT !.at = "head"]
    <3>1. l \in Loops /\ l.at = "head" /\ l.hash = loop[t].hash  BY <1>2 DEF Loops
    <3>2. loop' = [loop EXCEPT ![t] = l]  BY <2>3 DEF PollAgain
    <3> HIDE DEF l
    <3> QED  BY <1>2, <3>1, <3>2 DEF LoopFollowsRecord
  <2>4. CASE PollWake(t) /\ ~loop[t].aborted
    <3> DEFINE h == IF loop[t].hash = NotSent /\ record[t] # NoRecord THEN record[t].hash ELSE loop[t].hash
               l == [loop[t] EXCEPT !.hash = h, !.at = IF h = NotSent THEN "head" ELSE "poll"]
    <3>1. loop' = [loop EXCEPT ![t] = l]  BY <2>4 DEF PollWake
    <3>2. h \in TrackedHash \cup {NotSent} /\ (h # NotSent => record[t].hash = h)
      BY <1>2, <1>3 DEF LoopFollowsRecord, Loops, Records
    <3> HIDE DEF h
    <3>3. l \in Loops /\ l.hash = h /\ (l.at = "poll" => h # NotSent)  BY <1>2, <3>2 DEF Loops
    <3> HIDE DEF l
    <3> QED  BY <3>1, <3>2, <3>3
  <2> QED  BY <2>1, <2>2, <2>3, <2>4 DEF PollWait, PollWake, PollAgain, EndLoop
<1>5. PICK l \in Loops :
         /\ loop' = [loop EXCEPT ![t] = l]
         /\ l.at # "ended" /\ l.hash # NotSent => record[t].hash = l.hash
         /\ l.at = "poll" => l.hash # NotSent
  BY <1>4
<1>6. FinalityTypes'  BY <1>1, <1>5 DEF FinalityInv, FinalityTypes
<1>7. \A u \in Tx : LoopFollowsRecord(u)'
  <2> SUFFICES ASSUME NEW u \in Tx PROVE LoopFollowsRecord(u)'  OBVIOUS
  <2>1. CASE u = t
    <3>1. loop'[t] = l  BY <1>2, <1>5
    <3> QED  BY <1>1, <1>2, <1>5, <2>1, <3>1 DEF LoopFollowsRecord, Running
  <2>2. CASE u # t
    <3>1. loop'[u] = loop[u]  BY <1>2, <1>5, <2>2
    <3> QED  BY <1>1, <3>1 DEF FinalityInv, LoopFollowsRecord, Running
  <2> QED  BY <2>1, <2>2
<1>8. SettledMatchesLedger'  BY <1>1 DEF FinalityInv, SettledMatchesLedger
<1> QED  BY <1>6, <1>7, <1>8 DEF FinalityInv

\* The only two writers of a verdict.
WritesVerdict(t, status) ==
    /\ Running(t) /\ markFinality(t, status) /\ broadcastFinalityUpdate(t, status) /\ EndLoop(t)
    /\ status \in Definitive => loop[t].at = "poll" /\ horizon[loop[t].hash] = status
    /\ UNCHANGED <<horizon, age>>

LEMMA VerdictsAreWritten ==
    ASSUME NEW t \in Tx, PollSettled(t) \/ PollTimeout(t)
    PROVE  \E status \in Verdicts \ {"pending"} : WritesVerdict(t, status)
<1>1. CASE PollSettled(t)
  <2>1. horizon[loop[t].hash] \in Definitive /\ WritesVerdict(t, horizon[loop[t].hash])
    BY <1>1 DEF PollSettled, WritesVerdict, Running
  <2> QED  BY <2>1 DEF Definitive, Verdicts
<1>2. CASE PollTimeout(t)
  <2>1. WritesVerdict(t, "timeout")
    BY <1>2 DEF PollTimeout, WritesVerdict, Running, Definitive
  <2> QED  BY <2>1 DEF Verdicts
<1> QED  BY <1>1, <1>2

\* A verdict is written over "pending", for the hash of the record.
LEMMA VerdictKeepsFinality ==
    ASSUME FinalityInv, NEW t \in Tx, NEW status \in Verdicts \ {"pending"}, WritesVerdict(t, status)
    PROVE  /\ FinalityInv'
           /\ record[t].status = "pending"
           /\ \A u \in Tx \ {t} : record'[u] = record[u]
           /\ record'[t] # NoRecord => record'[t].status = status
<1> USE FinalityAssumption
<1> DEFINE settled == [record[t] EXCEPT !.status = status]
<1>1. /\ record[t] \in Records /\ record[t] # NoRecord /\ record[t].status = "pending"
      /\ status \in Definitive => record[t].hash = loop[t].hash /\ loop[t].hash # NotSent
    BY DEF WritesVerdict, FinalityInv, FinalityTypes, LoopFollowsRecord, Running
<1>2. settled \in Records /\ settled # NoRecord /\ settled.status = status /\ settled.hash = record[t].hash
  BY <1>1 DEF Records, Verdicts
<1>3. /\ record' = [record EXCEPT ![t] = settled] /\ loop' = [loop EXCEPT ![t] = NoLoop]
      /\ UNCHANGED <<horizon, age>>
  BY <1>1 DEF WritesVerdict, markFinality, EndLoop
<1> HIDE DEF settled
<1>4. NoLoop \in Loops /\ NoLoop.at = "ended"  BY DEF NoLoop, Loops
<1>5. FinalityTypes'  BY <1>2, <1>3, <1>4 DEF FinalityInv, FinalityTypes
<1>6. \A u \in Tx : LoopFollowsRecord(u)'
  BY <1>3, <1>4 DEF FinalityInv, FinalityTypes, LoopFollowsRecord, Running
<1>7. SettledMatchesLedger'
  BY <1>1, <1>2, <1>3 DEF WritesVerdict, FinalityInv, FinalityTypes, SettledMatchesLedger
<1> QED  BY <1>1, <1>2, <1>3, <1>5, <1>6, <1>7 DEF FinalityInv, FinalityTypes

\* The retention pass deletes only records that no loop runs beside.
LEMMA CleanupKeepsFinality ==
    ASSUME FinalityInv, FinalityCleanup
    PROVE  FinalityInv' /\ (\A t \in Tx : record'[t] # NoRecord => record'[t] = record[t])
BY DEF FinalityCleanup, deleteOldFinalityRecords, FinalityInv, FinalityTypes, LoopFollowsRecord,
       Running, SettledMatchesLedger

\* A restart ends every loop and keeps the table.
LEMMA RestartKeepsFinality == ASSUME FinalityInv, Restart PROVE FinalityInv'
<1>1. NoLoop \in Loops /\ NoLoop.at = "ended"  BY DEF NoLoop, Loops
<1>2. loop' = [t \in Tx |-> NoLoop] /\ UNCHANGED <<horizon, record, age>>  BY DEF Restart
<1> QED  BY <1>1, <1>2 DEF FinalityInv, FinalityTypes, LoopFollowsRecord, Running, SettledMatchesLedger

LEMMA FinalityStays == FinalityInv /\ UNCHANGED finalityVars => FinalityInv'
BY DEF FinalityInv, FinalityTypes, LoopFollowsRecord, Running, SettledMatchesLedger, finalityVars

\* Every step of the hub, the routes, the loops, the cleanup and the process.
LEMMA FinalityStep == FinalityInv /\ FinalityNext => FinalityInv'
<1> SUFFICES ASSUME FinalityInv, FinalityNext PROVE FinalityInv'  OBVIOUS
<1>1. CASE UNCHANGED finalityVars  BY <1>1, FinalityStays
<1>2. ASSUME NEW t \in Tx, Poll(t) PROVE FinalityInv'
  BY <1>2, PollingKeepsFinality, VerdictsAreWritten, VerdictKeepsFinality DEF Poll
<1>3. ASSUME NEW t \in Tx, cancelTracking(t) PROVE FinalityInv'
  BY <1>3, RoutesKeepFinality
<1> QED
  BY <1>1, <1>2, <1>3, TimeKeepsFinality, RoutesKeepFinality, CleanupKeepsFinality, RestartKeepsFinality
     DEF FinalityNext

\* Only a verdict changes the status of a record that stays.
LEMMA StatusChangesByVerdict ==
    ASSUME FinalityInv, FinalityNext, NEW t \in Tx, record[t] # NoRecord, record'[t] # NoRecord,
           record'[t].status # record[t].status
    PROVE  \E status \in Verdicts \ {"pending"} : WritesVerdict(t, status)
<1>1. ASSUME NEW u \in Tx, PollSettled(u) \/ PollTimeout(u)
      PROVE  \E status \in Verdicts \ {"pending"} : WritesVerdict(t, status)
  <2>1. PICK status \in Verdicts \ {"pending"} : WritesVerdict(u, status)  BY <1>1, VerdictsAreWritten
  <2>2. \A v \in Tx \ {u} : record'[v] = record[v]  BY <2>1, VerdictKeepsFinality
  <2> QED  BY <2>1, <2>2
<1>2. ASSUME NEW u \in Tx, NEW h, PostNew(u, h) \/ PostHash(u, h) PROVE record'[t].status = record[t].status
  <2>1. CASE PostNew(u, h)
    BY <2>1 DEF PostNew, startTracking, createFinalityRecord, FinalityInv, FinalityTypes
  <2>2. CASE PostHash(u, h)
    BY <2>2 DEF PostHash, setFinalityTxHash, FinalityInv, FinalityTypes, Records
  <2> QED  BY <1>2, <2>1, <2>2
<1>3. CASE FinalityCleanup  BY <1>3, CleanupKeepsFinality
<1>4. CASE UNCHANGED record  BY <1>4
<1>5. ASSUME NEW u \in Tx, PollWait(u) \/ PollWake(u) \/ PollAgain(u) \/ Age(u) \/ cancelTracking(u)
      PROVE  UNCHANGED record
  BY <1>5 DEF PollWait, PollWake, PollAgain, Age, cancelTracking
<1>6. CASE Restart \/ (\E h \in TrackedHash : HorizonSettles(h)) \/ UNCHANGED finalityVars
  BY <1>6 DEF Restart, HorizonSettles, finalityVars
<1> QED  BY <1>1, <1>2, <1>3, <1>4, <1>5, <1>6 DEF FinalityNext, Poll

\* A verdict is the first one, and goes to the record's open subscribers with it.
LEMMA VerdictIsFirstAndHeard ==
    ASSUME HubInv, FinalityInv, FinalityNext, NEW t \in Tx, record[t] # NoRecord, record'[t] # NoRecord,
           record'[t].status # record[t].status
    PROVE  /\ record[t].status = "pending"
           /\ \A s \in Socket : Open(s) /\ s \in clients[FinalityKey(t)] => <<t, record'[t].status>> \in inbox'[s]
<1>1. PICK status \in Verdicts \ {"pending"} : WritesVerdict(t, status)
  BY StatusChangesByVerdict
<1>2. record[t].status = "pending" /\ record'[t].status = status
  BY <1>1, VerdictKeepsFinality
<1>3. inbox' = [s \in Socket |-> IF s \in FinalityAudience(t) THEN inbox[s] \cup {<<t, status>>} ELSE inbox[s]]
  BY <1>1 DEF WritesVerdict, broadcastFinalityUpdate, Deliver
<1>4. \A s \in Socket : Open(s) /\ s \in clients[FinalityKey(t)] => s \in FinalityAudience(t)
  BY DEF FinalityAudience
<1> QED  BY <1>2, <1>3, <1>4

\* What finality does to the hub: nothing, or a restart that closes every socket.
LEMMA FinalityKeepsHub == HubInv /\ FinalityNext => HubInv'
<1> SUFFICES ASSUME HubInv, FinalityNext PROVE HubInv'  OBVIOUS
<1>1. CASE HubNext  BY <1>1, HubStep
<1>2. CASE Restart
  <2>1. /\ clients' = [k \in Key |-> {}]
        /\ ws' = [s \in Socket |-> IF Open(s) THEN [ws[s] EXCEPT !.state = "closed"] ELSE ws[s]]
    BY <1>2 DEF Restart
  <2>2. clients' \in [Key -> SUBSET Socket] /\ ws' \in [Socket -> SocketState]
    BY <2>1 DEF HubInv, SocketState
  <2>3. \A s \in Socket : Listed(s)'  BY <2>1, KeysDiffer DEF Listed
  <2> QED  BY <2>2, <2>3 DEF HubInv
<1>3. CASE UNCHANGED <<clients, ws>>  BY <1>3, HubStays
<1>4. ASSUME NEW t \in Tx, NEW h, Age(t) \/ cancelTracking(t) \/ Poll(t) \/ PostNew(t, h) \/ PostHash(t, h)
      PROVE  UNCHANGED <<clients, ws>>
  BY <1>4 DEF Age, cancelTracking, Poll, PollWait, PollWake, PollSettled, PollAgain, PollTimeout, PostNew,
              PostHash, hubVars
<1>5. CASE FinalityCleanup \/ \E h \in TrackedHash : HorizonSettles(h)
  BY <1>3, <1>5 DEF FinalityCleanup, HorizonSettles, hubVars
<1> QED  BY <1>1, <1>2, <1>3, <1>4, <1>5 DEF FinalityNext

-----------------------------------------------------------------------------
(***************************************************************************)
(* Notifications.  A row keeps its wallet for ever, through reads and      *)
(* deletion, and is sent once: so a push is always backed by its row.      *)
(***************************************************************************)

NoticeInv ==
    /\ notices \in [Notice -> [state : {"none", "unread", "read", "deleted"}, wallet : Wallet \cup {NoWallet}]]
    /\ PushedWasStored

LEMMA NoticesStart == HubInit /\ NotificationsInit => NoticeInv
BY DEF HubInit, NotificationsInit, NoticeInv, PushedWasStored, NoNotice

\* A push about a transaction is no notification.
LEMMA TxPushKeepsNotices ==
    ASSUME NoticeInv, NEW t \in Tx, NEW status, NEW audience, Deliver(audience, <<t, status>>),
           UNCHANGED notices
    PROVE  NoticeInv'
<1>1. \A n \in Notice, w \in Wallet : <<n, w>> # <<t, status>>  BY HubAssumption
<1> QED  BY <1>1 DEF NoticeInv, PushedWasStored, Deliver

LEMMA NoticesStay == NoticeInv /\ UNCHANGED <<inbox, notices>> => NoticeInv'
BY DEF NoticeInv, PushedWasStored

LEMMA FinalityKeepsNotices == NoticeInv /\ FinalityNext /\ UNCHANGED notices => NoticeInv'
<1> SUFFICES ASSUME NoticeInv, FinalityNext, UNCHANGED notices PROVE NoticeInv'  OBVIOUS
<1>1. CASE UNCHANGED inbox  BY <1>1, NoticesStay
<1>2. ASSUME NEW t \in Tx, PollSettled(t) \/ PollTimeout(t) PROVE NoticeInv'
  BY <1>2, TxPushKeepsNotices DEF PollSettled, PollTimeout, broadcastFinalityUpdate
<1>3. ASSUME NEW t \in Tx, NEW h,
             \/ Age(t) \/ cancelTracking(t) \/ PollWait(t) \/ PollWake(t) \/ PollAgain(t)
             \/ PostNew(t, h) \/ PostHash(t, h)
      PROVE  UNCHANGED inbox
  BY <1>3 DEF Age, cancelTracking, PollWait, PollWake, PollAgain, PostNew, PostHash, hubVars
<1>4. CASE FinalityCleanup \/ Restart \/ \E h \in TrackedHash : HorizonSettles(h)
  BY <1>1, <1>4 DEF FinalityCleanup, Restart, HorizonSettles, hubVars
<1>5. CASE HubNext
  <2>1. UNCHANGED inbox
    BY <1>5 DEF HubNext, Heartbeat, Connect, Close, Pong, SubscribeWallet, SubscribeTxn, SubscribeFinality
  <2> QED  BY <1>1, <2>1
<1> QED  BY <1>1, <1>2, <1>3, <1>4, <1>5 DEF FinalityNext, Poll

LEMMA AnnounceKeepsPushes ==
    ASSUME HubInv, NoticeInv, NEW t \in Tx, Announce(t), UNCHANGED notices
    PROVE  HubInv' /\ NoticeInv'
<1>1. HubInv'  BY HubStays DEF Announce
<1>2. NoticeInv'
  BY TxPushKeepsNotices DEF Announce, broadcastToContract, broadcastTransactionStatus
<1> QED  BY <1>1, <1>2

LEMMA NotificationsStep == HubInv /\ NoticeInv /\ NotificationsNext => HubInv' /\ NoticeInv'
<1> SUFFICES ASSUME HubInv, NoticeInv, NotificationsNext PROVE HubInv' /\ NoticeInv'  OBVIOUS
<1>1. UNCHANGED <<clients, ws>>
  BY DEF NotificationsNext, PostRead, DeleteNotice, PostSend, PostReadAll, PostPreferences, hubVars
<1>2. ASSUME NEW n \in Notice, NEW w \in Wallet, PostSend(n, w) PROVE NoticeInv'
  <2> DEFINE new == [state |-> "unread", wallet |-> w]
  <2>1. /\ notices[n].wallet = NoWallet /\ notices' = [notices EXCEPT ![n] = new]
        /\ inbox' = [s \in Socket |-> IF s \in {r \in Socket : Open(r) /\ r \in clients[WalletKey(w)]}
                                      THEN inbox[s] \cup {<<n, w>>} ELSE inbox[s]]
    BY <1>2 DEF PostSend, createNotification, NoNotice, sendNotification, Deliver
  <2>2. \A s \in Socket, v \in Wallet : <<n, v>> \notin inbox[s]
    BY <2>1, HubAssumption DEF NoticeInv, PushedWasStored
  <2>3. new.wallet = w /\ new \in [state : {"none", "unread", "read", "deleted"}, wallet : Wallet \cup {NoWallet}]
    OBVIOUS
  <2> HIDE DEF new
  <2> QED  BY <2>1, <2>2, <2>3 DEF NoticeInv, PushedWasStored
<1>3. ASSUME NEW n \in Notice, PostRead(n) \/ DeleteNotice(n) PROVE NoticeInv'
  BY <1>3 DEF PostRead, DeleteNotice, markNotificationRead, hubVars, NoticeInv, PushedWasStored
<1>4. ASSUME NEW w \in Wallet, PostReadAll(w) PROVE NoticeInv'
  BY <1>4 DEF PostReadAll, markAllNotificationsRead, hubVars, NoticeInv, PushedWasStored
<1>5. ASSUME NEW w \in Wallet, NEW on, NEW off, PostPreferences(w, on, off) PROVE NoticeInv'
  BY <1>5, NoticesStay DEF PostPreferences, hubVars
<1>6. NoticeInv'  BY <1>2, <1>3, <1>4, <1>5 DEF NotificationsNext
<1> QED  BY <1>1, <1>6, HubStays

-----------------------------------------------------------------------------
\* Everything that pushes, together.
PushInv == HubInv /\ FinalityInv /\ NoticeInv

\* The hub, the trackers and the notifications keep their invariants whatever their
\* interleaving (websocket.js, transaction-finality.js, routes/notifications.js).
THEOREM PushInvariant == PushSpec => []PushInv
<1>1. FinalityInit /\ NotificationsInit => PushInv
  BY HubStarts, FinalityStarts, NoticesStart DEF FinalityInit, PushInv
<1>2. PushInv /\ [PushNext]_<<pushVars, noticeVars>> => PushInv'
  <2> SUFFICES ASSUME PushInv, [PushNext]_<<pushVars, noticeVars>> PROVE PushInv'  OBVIOUS
  <2> USE DEF PushInv
  <2>1. CASE FinalityNext /\ UNCHANGED noticeVars
    BY <2>1, FinalityStep, FinalityKeepsHub, FinalityKeepsNotices DEF noticeVars
  <2>2. CASE NotificationsNext /\ UNCHANGED finalityVars
    BY <2>2, NotificationsStep, FinalityStays
  <2>3. ASSUME NEW t \in Tx, Announce(t), UNCHANGED <<finalityVars, noticeVars>> PROVE PushInv'
    BY <2>3, AnnounceKeepsPushes, FinalityStays DEF noticeVars
  <2>4. CASE UNCHANGED <<pushVars, noticeVars>>
    BY <2>4, HubStays, FinalityStays, NoticesStay DEF pushVars, hubVars, noticeVars
  <2> QED  BY <2>1, <2>2, <2>3, <2>4 DEF PushNext
<1> QED  BY <1>1, <1>2, PTL DEF PushSpec

\* No step of the trackers, the notifications or the announcements replaces a verdict.
THEOREM VerdictsAreFinal == PushSpec => OneVerdict
<1> DEFINE Stays == \A t \in Tx : record[t] # NoRecord /\ record'[t] # NoRecord /\ record[t].status # "pending"
                                     => record'[t].status = record[t].status
<1>1. PushInv /\ [PushNext]_<<pushVars, noticeVars>> => [Stays]_pushVars
  <2> SUFFICES ASSUME PushInv, PushNext PROVE [Stays]_pushVars
    BY DEF pushVars
  <2>1. CASE FinalityNext  BY <2>1, VerdictIsFirstAndHeard DEF PushInv
  <2>2. CASE UNCHANGED finalityVars  BY <2>2 DEF finalityVars
  <2> QED  BY <2>1, <2>2 DEF PushNext
<1> QED  BY <1>1, PushInvariant, PTL DEF PushSpec, OneVerdict

\* Whoever is subscribed to a record when its verdict is written is told in the same
\* step (broadcastFinalityUpdate follows the UPDATE without an await).
THEOREM VerdictsAreHeard == PushSpec => SubscribersHearTheVerdict
<1> DEFINE Heard == \A t \in Tx, s \in Socket :
          /\ record[t] # NoRecord /\ record'[t] # NoRecord
          /\ record[t].status # record'[t].status
          /\ Open(s) /\ s \in clients[FinalityKey(t)]
          => <<t, record'[t].status>> \in inbox'[s]
<1>1. PushInv /\ [PushNext]_<<pushVars, noticeVars>> => [Heard]_pushVars
  <2> SUFFICES ASSUME PushInv, PushNext PROVE [Heard]_pushVars
    BY DEF pushVars
  <2>1. CASE FinalityNext  BY <2>1, VerdictIsFirstAndHeard DEF PushInv
  <2>2. CASE UNCHANGED finalityVars  BY <2>2 DEF finalityVars
  <2> QED  BY <2>1, <2>2 DEF PushNext
<1> QED  BY <1>1, PushInvariant, PTL DEF PushSpec, SubscribersHearTheVerdict

-----------------------------------------------------------------------------
(***************************************************************************)
(* Webhooks.  A post in flight and a row read by a pass carry a            *)
(* notification, so whatever overlaps, what a failure writes back with a   *)
(* new schedule is never empty.                                            *)
(***************************************************************************)

HookRow == [known : BOOLEAN, enabled : BOOLEAN, retry : Nat, next : {"none", "later", "due"},
            payload : Hash \cup {NoNote}]
PassItem == [hook : Hook, row : HookRow]

HookInv ==
    /\ hook \in [Hook -> HookRow]
    /\ \A post \in posts : post.hook \in Hook /\ post.note \in Hash /\ post.retry \in Nat
    /\ passes \in [Pass -> Seq(PassItem)]
    /\ ScheduledHasPayload

LEMMA HooksStart == WebhooksInit => HookInv
<1> SUFFICES ASSUME WebhooksInit PROVE HookInv  OBVIOUS
<1>1. Absent \in HookRow /\ Absent.next = "none"  BY DEF Absent, HookRow
<1>2. hook \in [Hook -> HookRow] /\ \A h \in Hook : hook[h].next = "none"
  BY <1>1 DEF WebhooksInit
<1>3. passes \in [Pass -> Seq(PassItem)] /\ \A p \in Pass : passes[p] = << >>
  BY DEF WebhooksInit
<1>4. posts = {}  BY DEF WebhooksInit
<1> QED  BY <1>2, <1>3, <1>4 DEF HookInv, ScheduledHasPayload

\* A row that is replaced by one that is unscheduled or holds a notification.
LEMMA RowReplaced ==
    ASSUME HookInv, NEW h \in Hook, NEW row \in HookRow, row.next # "none" => row.payload # NoNote,
           hook' = [hook EXCEPT ![h] = row]
    PROVE  hook' \in [Hook -> HookRow] /\ \A g \in Hook : hook'[g].next # "none" => hook'[g].payload # NoNote
BY DEF HookInv, ScheduledHasPayload

\* A failure writes a row with the attempt counted and the notification kept.
LEMMA FailureKeepsPayload ==
    ASSUME NEW w \in HookRow, NEW retry \in Nat, NEW next \in {"none", "later", "due"},
           NEW note \in Hash \cup {NoNote}
    PROVE  LET row == updateWebhookRetryStateWithPayload(w, retry, next, note)
           IN  row \in HookRow /\ row.payload = note
<1> DEFINE counted == [w EXCEPT !.retry = retry]
           dated == [counted EXCEPT !.next = next]
           row == [dated EXCEPT !.payload = note]
<1>1. counted \in HookRow  BY DEF HookRow
<1> HIDE DEF counted
<1>2. dated \in HookRow  BY <1>1 DEF HookRow
<1> HIDE DEF dated
<1>3. row \in HookRow /\ row.payload = note  BY <1>2 DEF HookRow
<1>4. row = updateWebhookRetryStateWithPayload(w, retry, next, note)
  BY DEF dated, counted, updateWebhookRetryStateWithPayload
<1> HIDE DEF row
<1> QED  BY <1>3, <1>4

\* A pass that goes on to its next row.
LEMMA PassGoesOn ==
    ASSUME HookInv, NEW p \in Pass, passes[p] # << >>, passes' = [passes EXCEPT ![p] = Tail(@)]
    PROVE  /\ passes' \in [Pass -> Seq(PassItem)]
           /\ \A q \in Pass : \A i \in DOMAIN passes'[q] : passes'[q][i].row.payload # NoNote
           /\ Head(passes[p]) \in PassItem /\ Head(passes[p]).row.payload # NoNote
<1>1. passes[p] \in Seq(PassItem)  BY DEF HookInv
<1>2. Head(passes[p]) = passes[p][1] /\ 1 \in DOMAIN passes[p] /\ Tail(passes[p]) \in Seq(PassItem)
  BY <1>1
<1>3. \A i \in DOMAIN Tail(passes[p]) : i + 1 \in DOMAIN passes[p] /\ Tail(passes[p])[i] = passes[p][i + 1]
  BY <1>1
<1>4. \A q \in Pass : passes'[q] = IF q = p THEN Tail(passes[p]) ELSE passes[q]
  BY DEF HookInv
<1>5. passes' \in [Pass -> Seq(PassItem)]  BY <1>2, <1>4 DEF HookInv
<1>6. ASSUME NEW q \in Pass, NEW i \in DOMAIN passes'[q] PROVE passes'[q][i].row.payload # NoNote
  <2>1. CASE q = p  BY <1>3, <1>4, <1>6, <2>1 DEF HookInv, ScheduledHasPayload
  <2>2. CASE q # p  BY <1>4, <1>6, <2>2 DEF HookInv, ScheduledHasPayload
  <2> QED  BY <2>1, <2>2
<1>7. Head(passes[p]) \in PassItem  BY <1>1, <1>2
<1> QED  BY <1>2, <1>5, <1>6, <1>7 DEF HookInv, ScheduledHasPayload

\* A first delivery ends.
LEMMA FirstDeliveryKeepsHooks == HookInv /\ FirstDelivery => HookInv'
<1> SUFFICES ASSUME HookInv, NEW post \in posts, FirstDelivered(post) \/ FirstFailed(post) PROVE HookInv'
  BY DEF FirstDelivery
<1>1. post.hook \in Hook /\ post.note \in Hash /\ post.retry \in Nat /\ hook[post.hook] \in HookRow
  BY DEF HookInv
<1>2. posts' \subseteq posts /\ passes' = passes  BY DEF FirstDelivered, FirstFailed
<1>3. \E row \in HookRow : (row.next # "none" => row.payload # NoNote) /\ hook' = [hook EXCEPT ![post.hook] = row]
  <2>1. CASE FirstDelivered(post)
    <3> DEFINE row == resetWebhookRetryCount(hook[post.hook])
    <3>1. row \in HookRow /\ row.next = "none"  BY <1>1 DEF resetWebhookRetryCount, HookRow
    <3>2. hook' = [hook EXCEPT ![post.hook] = row]  BY <2>1 DEF FirstDelivered
    <3> HIDE DEF row
    <3> QED  BY <3>1, <3>2
  <2>2. CASE FirstFailed(post)
    <3> DEFINE row == updateWebhookRetryStateWithPayload(hook[post.hook], RetryCount(post), "later", post.note)
    <3>1. row \in HookRow /\ row.payload # NoNote
      <4>1. RetryCount(post) \in Nat /\ post.note # NoNote  BY <1>1, TransactionsAssumption DEF RetryCount
      <4> QED  BY <1>1, <4>1, FailureKeepsPayload
    <3>2. hook' = [hook EXCEPT ![post.hook] = row]  BY <2>2 DEF FirstFailed
    <3> HIDE DEF row
    <3> QED  BY <3>1, <3>2
  <2> QED  BY <2>1, <2>2
<1>4. hook' \in [Hook -> HookRow] /\ \A g \in Hook : hook'[g].next # "none" => hook'[g].payload # NoNote
  BY <1>1, <1>3, RowReplaced
<1> QED  BY <1>2, <1>4 DEF HookInv, ScheduledHasPayload

\* A pass delivers, or fails to.
LEMMA RetryKeepsHooks ==
    ASSUME HookInv, NEW p \in Pass, RetryPass(p)
    PROVE  HookInv'
<1> DEFINE item == Head(passes[p])
<1>1. passes[p] # << >> /\ passes' = [passes EXCEPT ![p] = Tail(@)] /\ posts' = posts
  BY DEF RetryPass, RetryDelivered, RetryFailed
<1>2. /\ passes' \in [Pass -> Seq(PassItem)] /\ item \in PassItem /\ item.row.payload # NoNote
      /\ \A q \in Pass : \A i \in DOMAIN passes'[q] : passes'[q][i].row.payload # NoNote
  BY <1>1, PassGoesOn
<1>3. item.hook \in Hook /\ item.row \in HookRow  BY <1>2 DEF PassItem
<1>4. hook[item.hook] \in HookRow  BY <1>3 DEF HookInv
<1>5. \E row \in HookRow : (row.next # "none" => row.payload # NoNote) /\ hook' = [hook EXCEPT ![item.hook] = row]
  <2>1. CASE RetryDelivered(p)
    <3> DEFINE row == resetWebhookRetryCount(hook[item.hook])
    <3>1. row \in HookRow /\ row.next = "none"  BY <1>4 DEF resetWebhookRetryCount, HookRow
    <3>2. hook' = [hook EXCEPT ![item.hook] = row]  BY <2>1 DEF RetryDelivered
    <3> HIDE DEF row
    <3> QED  BY <3>1, <3>2
  <2>2. CASE RetryFailed(p)
    <3> DEFINE next == IF RetryCount(item.row) >= MAX_WEBHOOK_RETRIES THEN "none" ELSE "later"
               row == updateWebhookRetryStateWithPayload(hook[item.hook], RetryCount(item.row), next, item.row.payload)
    <3>1. next \in {"none", "later", "due"}  OBVIOUS
    <3>2. hook' = [hook EXCEPT ![item.hook] = row]  BY <2>2 DEF RetryFailed
    <3> HIDE DEF next, item
    <3>3. row \in HookRow /\ row.payload # NoNote
      <4>1. RetryCount(item.row) \in Nat /\ item.row.payload \in Hash \cup {NoNote}
        BY <1>3 DEF RetryCount, HookRow
      <4> QED  BY <1>2, <1>4, <3>1, <4>1, FailureKeepsPayload
    <3> HIDE DEF row
    <3> QED  BY <3>2, <3>3
  <2> QED  BY <2>1, <2>2 DEF RetryPass
<1> HIDE DEF item
<1>6. hook' \in [Hook -> HookRow] /\ \A g \in Hook : hook'[g].next # "none" => hook'[g].payload # NoNote
  BY <1>3, <1>5, RowReplaced
<1> QED  BY <1>1, <1>2, <1>6 DEF HookInv, ScheduledHasPayload

\* A pass reads the rows that are due.
LEMMA PassReadsRows ==
    ASSUME HookInv, NEW p \in Pass, StartPass(p)
    PROVE  HookInv'
<1> DEFINE due == getWebhooksDueForRetry
<1>1. PICK order \in SetToSeqs(due) :
         passes' = [passes EXCEPT ![p] = [i \in DOMAIN order |-> [hook |-> order[i], row |-> hook[order[i]]]]]
  BY DEF StartPass
<1>2. UNCHANGED <<hook, posts>>  BY DEF StartPass
<1>3. \A h \in due : h \in Hook /\ hook[h] \in HookRow /\ hook[h].payload # NoNote
  BY DEF getWebhooksDueForRetry, HookInv, ScheduledHasPayload
<1>4. Cardinality(due) \in Nat
  <2>1. due \subseteq Hook  BY <1>3
  <2> QED  BY <2>1, HooksAssumption, FS_Subset, FS_CardinalityType
<1>5. order \in [1..Cardinality(due) -> due]  BY DEF SetToSeqs
<1> HIDE DEF due
<1> DEFINE list == [i \in DOMAIN order |-> [hook |-> order[i], row |-> hook[order[i]]]]
<1>6. DOMAIN list = 1..Cardinality(due)  BY <1>5
<1>7. \A i \in DOMAIN list : list[i] \in PassItem /\ list[i].row.payload # NoNote
  BY <1>3, <1>5 DEF PassItem
<1>8. passes' = [passes EXCEPT ![p] = list]  BY <1>1
<1> HIDE DEF list
<1>9. \E n \in Nat : DOMAIN list = 1..n  BY <1>4, <1>6
<1>10. list = [i \in DOMAIN list |-> list[i]]  BY DEF list
<1>11. list \in Seq(PassItem)  BY <1>7, <1>9, <1>10
<1>12. passes' \in [Pass -> Seq(PassItem)]  BY <1>8, <1>11 DEF HookInv
<1>13. \A q \in Pass : \A i \in DOMAIN passes'[q] : passes'[q][i].row.payload # NoNote
  BY <1>7, <1>8 DEF HookInv, ScheduledHasPayload
<1> QED  BY <1>2, <1>12, <1>13 DEF HookInv, ScheduledHasPayload

LEMMA WebhooksStep == HookInv /\ WebhooksNext => HookInv'
<1> SUFFICES ASSUME HookInv, WebhooksNext PROVE HookInv'  OBVIOUS
<1>1. ASSUME NEW h \in Hook, PostWebhooks(h) \/ DeleteWebhooks(h) \/ BackoffPasses(h) PROVE HookInv'
  <2>1. hook[h] \in HookRow /\ (hook[h].next # "none" => hook[h].payload # NoNote)
    BY DEF HookInv, ScheduledHasPayload
  <2>2. \E row \in HookRow : (row.next # "none" => row.payload # NoNote) /\ hook' = [hook EXCEPT ![h] = row]
    <3>1. CASE PostWebhooks(h)
      <4> DEFINE row == registerWebhook(hook[h])
      <4>1. row \in HookRow /\ row.next = "none"  BY <2>1 DEF registerWebhook, HookRow
      <4>2. hook' = [hook EXCEPT ![h] = row]  BY <3>1 DEF PostWebhooks
      <4> HIDE DEF row
      <4> QED  BY <4>1, <4>2
    <3>2. CASE DeleteWebhooks(h)
      <4> DEFINE row == deleteWebhook(hook[h])
      <4>1. row \in HookRow /\ row.next = hook[h].next /\ row.payload = hook[h].payload
        BY <2>1 DEF deleteWebhook, HookRow
      <4>2. hook' = [hook EXCEPT ![h] = row]  BY <3>2 DEF DeleteWebhooks
      <4> HIDE DEF row
      <4> QED  BY <2>1, <4>1, <4>2
    <3>3. CASE BackoffPasses(h)
      <4> DEFINE row == [hook[h] EXCEPT !.next = "due"]
      <4>1. row \in HookRow /\ row.payload = hook[h].payload  BY <2>1 DEF HookRow
      <4>2. hook' = [hook EXCEPT ![h] = row] /\ hook[h].next = "later"  BY <3>3 DEF BackoffPasses
      <4> HIDE DEF row
      <4> QED  BY <2>1, <4>1, <4>2
    <3> QED  BY <1>1, <3>1, <3>2, <3>3
  <2>3. UNCHANGED <<posts, passes>>  BY <1>1 DEF PostWebhooks, DeleteWebhooks, BackoffPasses
  <2> QED  BY <2>2, <2>3, RowReplaced DEF HookInv, ScheduledHasPayload
<1> QED  BY <1>1, FirstDeliveryKeepsHooks, RetryKeepsHooks, PassReadsRows DEF WebhooksNext

-----------------------------------------------------------------------------
(***************************************************************************)
(* The transactions table, its archive and a reader of the history.        *)
(***************************************************************************)

Row == [type : {"distribute", "initialize"}, status : {"pending"} \cup Settled, hash : Hash \cup {NoHash},
        timestamp : Nat, blockTime : Nat, by : Call \cup {"record"}]

TxTypes ==
    /\ rows \in [DOMAIN rows -> Row] /\ archive \in [DOMAIN archive -> Row]
    /\ calls \in [Call -> [at : {"idle", "polling", "done"}, hash : Hash \cup {NoHash}]]
    /\ \A c \in Call : calls[c].at = "polling" => calls[c].hash \in Hash
    /\ chain \in [Hash -> {"not_found"} \cup Settled]
    /\ clock \in Nat

\* Ids are given out in order and never again.
TablesAreWhole == Cardinality(Ids) \in Nat /\ NothingVanishes

SeenIds == {walk.seen[n][2] : n \in DOMAIN walk.seen}
TimeOf(i) == IF i \in DOMAIN rows THEN rows[i].timestamp ELSE archive[i].timestamp

InOrder(s) == \A m, n \in DOMAIN s : m < n => Before(s[m], s[n])

\* What a reader has been shown: keys of recorded rows, in order.
SeenInOrder ==
    /\ walk.seen \in Seq(Nat \X Nat)
    /\ \A n \in DOMAIN walk.seen : walk.seen[n][2] \in Ids /\ walk.seen[n][1] = TimeOf(walk.seen[n][2])
    /\ InOrder(walk.seen)

\* Where it goes on: behind the last row it saw.
CursorIsLast ==
    /\ walk.on \in BOOLEAN
    /\ walk.on => walk.seen # << >> /\ walk.cursor = walk.seen[Len(walk.seen)]
    /\ ~walk.on => walk.cursor = << >>

\* What it has still to see: rows behind its cursor.
RestIsAhead ==
    /\ walk.from \subseteq Ids
    /\ \A i \in walk.from \cap DOMAIN rows :
          /\ Matches(rows[i], walk.filters)
          /\ walk.on => i \in SeenIds \/ Before(walk.cursor, SortKey(i))
          /\ ~walk.on => i \in SeenIds \/ walk.seen = << >>

WalkInv == SeenInOrder /\ CursorIsLast /\ RestIsAhead
TxInv == TxTypes /\ TablesAreWhole /\ RowsMatchLedger /\ WalkInv

LEMMA TransactionsStart == TransactionsInit => TxInv
<1> SUFFICES ASSUME TransactionsInit PROVE TxInv  OBVIOUS
<1>1. DOMAIN rows = {} /\ DOMAIN archive = {} /\ Ids = {}  BY DEF TransactionsInit, Ids
<1>2. TxTypes
  <2>1. Idle \in [at : {"idle", "polling", "done"}, hash : Hash \cup {NoHash}] /\ Idle.at = "idle"  BY DEF Idle
  <2>2. rows \in [DOMAIN rows -> Row] /\ archive \in [DOMAIN archive -> Row]  BY DEF TransactionsInit
  <2> QED  BY <2>1, <2>2 DEF TransactionsInit, TxTypes
<1>3. TablesAreWhole
  <2>1. Cardinality(Ids) = 0  BY <1>1, FS_EmptySet
  <2> QED  BY <1>1, <2>1 DEF TablesAreWhole, NothingVanishes
<1>4. RowsMatchLedger  BY <1>1 DEF RowsMatchLedger
<1>5. WalkInv
  <2>1. walk.on = FALSE /\ walk.cursor = << >> /\ walk.seen = << >> /\ walk.from = {}
    BY DEF TransactionsInit, NoWalk
  <2>2. SeenInOrder  BY <2>1 DEF SeenInOrder, InOrder
  <2>3. CursorIsLast  BY <2>1 DEF CursorIsLast
  <2>4. RestIsAhead  BY <2>1 DEF RestIsAhead
  <2> QED  BY <2>2, <2>3, <2>4 DEF WalkInv
<1> QED  BY <1>2, <1>3, <1>4, <1>5 DEF TxInv

\* An UPDATE: the rows stay, with their type and time.
RowsEdited ==
    /\ DOMAIN rows' = DOMAIN rows /\ rows' \in [DOMAIN rows -> Row] /\ archive' = archive
    /\ \A i \in DOMAIN rows : rows'[i].timestamp = rows[i].timestamp /\ rows'[i].type = rows[i].type

LEMMA EditKeepsTables ==
    ASSUME TxInv, RowsEdited, UNCHANGED walk
    PROVE  TablesAreWhole' /\ WalkInv'
<1>1. Ids' = Ids  BY DEF RowsEdited, Ids
<1>2. TablesAreWhole'  BY <1>1 DEF RowsEdited, TxInv, TablesAreWhole, NothingVanishes
<1>3. \A i : TimeOf(i)' = TimeOf(i)  BY DEF RowsEdited, TimeOf
<1>4. \A i \in DOMAIN rows : SortKey(i)' = SortKey(i)  BY DEF RowsEdited, SortKey
<1>5. \A i \in DOMAIN rows : Matches(rows[i], walk.filters)' <=> Matches(rows[i], walk.filters)
  BY DEF RowsEdited, Matches
<1>6. SeenIds' = SeenIds  BY DEF SeenIds
<1>7. SeenInOrder'  BY <1>1, <1>3 DEF TxInv, WalkInv, SeenInOrder, InOrder
<1>8. RestIsAhead'  BY <1>1, <1>4, <1>5, <1>6 DEF RowsEdited, TxInv, WalkInv, RestIsAhead
<1> QED  BY <1>2, <1>7, <1>8 DEF TxInv, WalkInv, CursorIsLast

\* A recorded row has an id nobody had before.
LEMMA RecordKeepsTables ==
    ASSUME TxInv, NEW type \in {"distribute", "initialize"}, rows' = recordTransaction(type),
           UNCHANGED <<archive, calls, chain, clock, walk>>
    PROVE  TxInv'
<1> DEFINE new == Cardinality(Ids) + 1
           row == [type |-> type, status |-> "pending", hash |-> NoHash,
                   timestamp |-> clock, blockTime |-> NoBlockTime, by |-> "record"]
<1>1. rows' = With(rows, new, row)  BY DEF recordTransaction
<1>2. row \in Row /\ row.status = "pending" /\ row.hash = NoHash
  BY TransactionsAssumption DEF Row, TxInv, TxTypes, NoBlockTime
<1>3. new \notin Ids /\ new \in Nat \ {0} /\ Ids = 1..(new - 1) /\ DOMAIN rows \cap DOMAIN archive = {}
  BY DEF TxInv, TablesAreWhole, NothingVanishes
<1> HIDE DEF new, row
<1>4. /\ DOMAIN rows' = DOMAIN rows \cup {new} /\ rows'[new] = row
      /\ \A i \in DOMAIN rows : rows'[i] = rows[i]
  BY <1>1, <1>3 DEF With, Ids
<1>5. Ids' = Ids \cup {new} /\ Ids' = 1..new
  <2>1. Ids' = Ids \cup {new}  BY <1>4 DEF Ids
  <2> QED  BY <1>3, <2>1
<1>6. TxTypes'
  <2>1. rows' \in [DOMAIN rows' -> Row]  BY <1>1, <1>2, <1>4 DEF With, TxInv, TxTypes
  <2> QED  BY <2>1 DEF TxInv, TxTypes
<1>7. TablesAreWhole'
  <2>1. Cardinality(1..new) = new  BY <1>3, FS_Interval
  <2>2. DOMAIN rows' \cap DOMAIN archive' = {}  BY <1>3, <1>4 DEF Ids
  <2> QED  BY <1>3, <1>5, <2>1, <2>2 DEF TablesAreWhole, NothingVanishes
<1>8. RowsMatchLedger'
  BY <1>2, <1>4 DEF TxInv, RowsMatchLedger, Settled
<1>9. WalkInv'
  <2>1. \A i \in Ids : TimeOf(i)' = TimeOf(i)  BY <1>3, <1>4 DEF TimeOf, Ids
  <2>2. \A i \in DOMAIN rows : SortKey(i)' = SortKey(i)  BY <1>4 DEF SortKey
  <2>3. SeenIds' = SeenIds  BY DEF SeenIds
  <2>4. SeenInOrder'  BY <1>5, <2>1 DEF TxInv, WalkInv, SeenInOrder, InOrder
  <2>5. walk.from \cap DOMAIN rows' = walk.from \cap DOMAIN rows
    BY <1>3, <1>4 DEF TxInv, WalkInv, RestIsAhead
  <2>6. RestIsAhead'  BY <1>4, <1>5, <2>2, <2>3, <2>5 DEF TxInv, WalkInv, RestIsAhead
  <2> QED  BY <2>4, <2>6 DEF TxInv, WalkInv, CursorIsLast
<1> QED  BY <1>6, <1>7, <1>8, <1>9 DEF TxInv

\* Archived rows change tables and nothing else.
LEMMA ArchiveKeepsTables ==
    ASSUME TxInv, archiveContractEvents(BatchSize), UNCHANGED <<calls, chain, clock, walk>>
    PROVE  TxInv'
<1>1. PICK ids \in ArchiveCandidates(BatchSize) :
         /\ archive' = [i \in DOMAIN archive \cup ids |-> IF i \in DOMAIN archive THEN archive[i] ELSE rows[i]]
         /\ rows' = Without(rows, ids)
  BY DEF archiveContractEvents
<1>2. ids \subseteq DOMAIN rows
  <2> DEFINE expired == {i \in DOMAIN rows : EventTime(rows[i]) + Retention < clock}
  <2>1. PICK read \in Query(expired, Older, BatchSize) : ids = Range(read)  BY DEF ArchiveCandidates
  <2>2. PICK k \in 0..BatchSize : read \in [1..k -> expired]  BY DEF Query
  <2> QED  BY <2>1, <2>2 DEF Range
<1>3. DOMAIN rows \cap DOMAIN archive = {}  BY DEF TxInv, TablesAreWhole, NothingVanishes
<1>4. /\ DOMAIN rows' = DOMAIN rows \ ids /\ (\A i \in DOMAIN rows' : rows'[i] = rows[i])
      /\ DOMAIN archive' = DOMAIN archive \cup ids /\ (\A i \in DOMAIN archive : archive'[i] = archive[i])
      /\ \A i \in ids : archive'[i] = rows[i]
  BY <1>1, <1>2, <1>3 DEF Without
<1>5. Ids' = Ids  BY <1>2, <1>4 DEF Ids
<1>6. TxTypes'
  <2>1. rows' \in [DOMAIN rows' -> Row]  BY <1>1, <1>4 DEF Without, TxInv, TxTypes
  <2>2. archive' \in [DOMAIN archive' -> Row]  BY <1>1, <1>2, <1>4 DEF TxInv, TxTypes
  <2> QED  BY <2>1, <2>2 DEF TxInv, TxTypes
<1>7. TablesAreWhole'  BY <1>2, <1>3, <1>4, <1>5 DEF TxInv, TablesAreWhole, NothingVanishes
<1>8. RowsMatchLedger'  BY <1>4 DEF TxInv, RowsMatchLedger
<1>9. WalkInv'
  <2>1. \A i \in Ids : TimeOf(i)' = TimeOf(i)  BY <1>2, <1>3, <1>4 DEF TimeOf, Ids
  <2>2. \A i \in DOMAIN rows' : SortKey(i)' = SortKey(i)  BY <1>4 DEF SortKey
  <2>3. SeenIds' = SeenIds  BY DEF SeenIds
  <2>4. SeenInOrder'  BY <1>5, <2>1 DEF TxInv, WalkInv, SeenInOrder, InOrder
  <2>5. RestIsAhead'  BY <1>4, <1>5, <2>2, <2>3 DEF TxInv, WalkInv, RestIsAhead
  <2> QED  BY <2>4, <2>5 DEF TxInv, WalkInv, CursorIsLast
<1> QED  BY <1>6, <1>7, <1>8, <1>9 DEF TxInv

\* The confirmation route before its await: a row takes a hash that no live row has,
\* if it is pending and has no other.
LEMMA ConfirmStartKeepsTables ==
    ASSUME TxInv, NEW c \in Call, NEW h \in Hash, NEW i, ConfirmStart(c, h, i)
    PROVE  TxInv' /\ RowsEdited /\ \A j \in DOMAIN rows : rows[j].hash # NoHash => rows'[j].hash = rows[j].hash
<1> USE TransactionsAssumption
<1>1. UNCHANGED <<archive, chain, clock, walk>>  BY DEF ConfirmStart
<1>2. /\ calls' \in [Call -> [at : {"idle", "polling", "done"}, hash : Hash \cup {NoHash}]]
      /\ \A d \in Call : calls'[d].at = "polling" => calls'[d].hash \in Hash
  BY DEF ConfirmStart, TxInv, TxTypes
<1>3. CASE rows' = rows
  <2>1. RowsEdited  BY <1>1, <1>3 DEF RowsEdited, TxInv, TxTypes
  <2>2. TablesAreWhole' /\ WalkInv'  BY <1>1, <2>1, EditKeepsTables
  <2>3. TxTypes' /\ RowsMatchLedger'  BY <1>1, <1>2, <1>3 DEF TxInv, TxTypes, RowsMatchLedger
  <2> QED  BY <1>3, <2>1, <2>2, <2>3 DEF TxInv
<1>4. CASE getTransactionDetails(rows, h) = {} /\ Linkable(i, h) /\ rows' = updateTransactionHash(i, h)
  <2> DEFINE linked == [rows[i] EXCEPT !.hash = h]
  <2>1. i \in DOMAIN rows /\ rows[i].status = "pending" /\ rows[i].hash \in {NoHash, h}
    BY <1>4 DEF Linkable, getTransactionById
  <2>2. rows[i] \in Row  BY <2>1 DEF TxInv, TxTypes
  <2>3. \A j \in DOMAIN rows : rows[j].hash # h
    <3> DEFINE live == {rows[k] : k \in {j \in DOMAIN rows : rows[j].hash = h}}
    <3>1. live = {}  BY <1>4 DEF getTransactionDetails
    <3> QED  BY <3>1
  <2>4. /\ linked \in Row /\ linked.hash = h /\ linked.status = "pending"
        /\ linked.timestamp = rows[i].timestamp /\ linked.type = rows[i].type
    BY <2>1, <2>2 DEF Row
  <2>5. rows' = [rows EXCEPT ![i] = linked]  BY <1>4 DEF updateTransactionHash
  <2> HIDE DEF linked
  <2>6. RowsEdited  BY <1>1, <2>1, <2>4, <2>5 DEF RowsEdited, TxInv, TxTypes
  <2>7. TablesAreWhole' /\ WalkInv'  BY <1>1, <2>6, EditKeepsTables
  <2>8. TxTypes'  BY <1>1, <1>2, <2>6 DEF TxInv, TxTypes, RowsEdited
  <2>9. \A j \in DOMAIN rows : rows'[j] = IF j = i THEN linked ELSE rows[j]
    BY <2>5
  <2>10. RowsMatchLedger'
    BY <1>1, <2>1, <2>3, <2>4, <2>6, <2>9 DEF TxInv, RowsMatchLedger, RowsEdited, Settled
  <2> QED  BY <2>1, <2>3, <2>4, <2>6, <2>7, <2>8, <2>9, <2>10 DEF TxInv
<1> QED  BY <1>3, <1>4 DEF ConfirmStart

\* After its await: what Horizon said of the hash is written to the row that has it.
LEMMA ConfirmSettleKeepsTables ==
    ASSUME TxInv, NEW c \in Call, ConfirmSettle(c)
    PROVE  /\ TxInv' /\ RowsEdited /\ calls[c].hash \in Hash
           /\ \A j \in DOMAIN rows : rows'[j].hash = rows[j].hash
<1> DEFINE h == calls[c].hash
<1>1. h \in Hash /\ UNCHANGED <<archive, chain, clock, walk>>
  BY DEF ConfirmSettle, TxInv, TxTypes
<1>2. PICK outcome \in Settled, blockTime \in 0..clock :
         chain[h] = outcome /\ rows' = updateTransactionStatus(h, outcome, blockTime, c)
  BY DEF ConfirmSettle, PollOutcome
<1>3. calls' = [calls EXCEPT ![c].at = "done"]  BY DEF ConfirmSettle
<1>4. /\ calls' \in [Call -> [at : {"idle", "polling", "done"}, hash : Hash \cup {NoHash}]]
      /\ \A d \in Call : calls'[d].at = "polling" => calls'[d].hash \in Hash
  BY <1>3 DEF TxInv, TxTypes
<1>5. blockTime \in Nat  BY DEF TxInv, TxTypes
<1> HIDE DEF h
<1>6. /\ DOMAIN rows' = DOMAIN rows
      /\ \A j \in DOMAIN rows :
            rows'[j] = IF rows[j].hash = h
                       THEN [rows[j] EXCEPT !.status = outcome, !.blockTime = blockTime, !.by = c]
                       ELSE rows[j]
  BY <1>2 DEF updateTransactionStatus
<1>7. ASSUME NEW j \in DOMAIN rows
      PROVE  /\ rows'[j] \in Row /\ rows'[j].hash = rows[j].hash /\ rows'[j].type = rows[j].type
             /\ rows'[j].timestamp = rows[j].timestamp
             /\ rows'[j].status = IF rows[j].hash = h THEN outcome ELSE rows[j].status
  <2>1. rows[j] \in Row  BY DEF TxInv, TxTypes
  <2> DEFINE a == [rows[j] EXCEPT !.status = outcome]
             b == [a EXCEPT !.blockTime = blockTime]
             d == [b EXCEPT !.by = c]
  <2>2. a \in Row /\ a.hash = rows[j].hash /\ a.type = rows[j].type /\ a.timestamp = rows[j].timestamp
        /\ a.status = outcome
    BY <2>1 DEF Row
  <2>3. rows'[j] = IF rows[j].hash = h THEN d ELSE rows[j]  BY <1>6
  <2> HIDE DEF a
  <2>4. b \in Row /\ b.hash = rows[j].hash /\ b.type = rows[j].type /\ b.timestamp = rows[j].timestamp
        /\ b.status = outcome
    BY <1>5, <2>2 DEF Row
  <2> HIDE DEF b
  <2>5. d \in Row /\ d.hash = rows[j].hash /\ d.type = rows[j].type /\ d.timestamp = rows[j].timestamp
        /\ d.status = outcome
    BY <2>4 DEF Row
  <2> HIDE DEF d
  <2> QED  BY <2>1, <2>3, <2>5
<1>8. RowsEdited
  <2>1. rows' = [j \in DOMAIN rows |-> rows'[j]]  BY <1>2 DEF updateTransactionStatus
  <2> QED  BY <1>1, <1>6, <1>7, <2>1 DEF RowsEdited
<1>9. TablesAreWhole' /\ WalkInv'  BY <1>1, <1>8, EditKeepsTables
<1>10. TxTypes'  BY <1>1, <1>4, <1>8 DEF TxInv, TxTypes, RowsEdited
<1>11. RowsMatchLedger'
  <2>1. DOMAIN rows' = DOMAIN rows /\ chain' = chain  BY <1>1, <1>6
  <2>2. \A j \in DOMAIN rows : /\ rows'[j].hash = rows[j].hash
                               /\ rows'[j].status = IF rows[j].hash = h THEN outcome ELSE rows[j].status
    BY <1>7
  <2>3. h # NoHash /\ chain[h] = outcome  BY <1>1, <1>2, TransactionsAssumption
  <2> QED  BY <2>1, <2>2, <2>3 DEF TxInv, RowsMatchLedger
<1> QED  BY <1>1, <1>7, <1>8, <1>9, <1>10, <1>11 DEF TxInv, h

\* The ledger, the clock, the policy and a confirmation that gives up.
LEMMA OthersKeepTables ==
    ASSUME TxInv,
           \/ \E h \in Hash : LedgerSettles(h)
           \/ Tick \/ (\E enabled \in BOOLEAN : PostArchivePolicy(enabled))
           \/ \E c \in Call : ConfirmTimeout(c)
           \/ UNCHANGED txVars
    PROVE  TxInv' /\ UNCHANGED rows
<1>1. UNCHANGED <<rows, archive, walk>>
  BY DEF LedgerSettles, Tick, PostArchivePolicy, ConfirmTimeout, txVars
<1>2. RowsEdited  BY <1>1 DEF RowsEdited, TxInv, TxTypes
<1>3. TablesAreWhole' /\ WalkInv'  BY <1>1, <1>2, EditKeepsTables
<1>4. TxTypes'
  BY <1>1 DEF LedgerSettles, Tick, PostArchivePolicy, ConfirmTimeout, txVars, TxInv, TxTypes, Idle
<1>5. \A h \in Hash : chain[h] \in Settled => chain'[h] = chain[h]
  BY DEF LedgerSettles, Tick, PostArchivePolicy, ConfirmTimeout, txVars, TxInv, TxTypes, Settled
<1>6. RowsMatchLedger'
  <2>1. \A i \in DOMAIN rows : rows[i].hash \in Hash \cup {NoHash}  BY DEF TxInv, TxTypes, Row
  <2> QED  BY <1>1, <1>5, <2>1 DEF TxInv, RowsMatchLedger
<1> QED  BY <1>1, <1>3, <1>4, <1>6 DEF TxInv

-----------------------------------------------------------------------------
\* The order of the history is an order.
LEMMA BeforeIsOrder ==
    /\ \A k \in Nat \X Nat : ~Before(k, k)
    /\ \A k, l, m \in Nat \X Nat : Before(k, l) /\ Before(l, m) => Before(k, m)
    /\ \A k, l \in Nat \X Nat : Before(k, l) => ~Before(l, k)
BY DEF Before

\* What a query by the history's order returns: keys in order, and whatever it left
\* out comes behind n others.
LEMMA QueryIsOrdered ==
    ASSUME NEW keys, NEW n \in Nat, NEW read \in Query(keys, Before, n)
    PROVE  /\ read \in Seq(keys) /\ Len(read) <= n
           /\ InOrder(read)
           /\ \A x \in keys : \/ \E a \in DOMAIN read : read[a] = x
                              \/ Len(read) = n /\ \A a \in DOMAIN read : Before(read[a], x)
<1>1. PICK k \in 0..n : read \in [1..k -> keys]  BY DEF Query
<1>2. read \in Seq(keys) /\ Len(read) = k  BY <1>1
<1>3. InOrder(read)  BY DEF Query, InOrder
<1>4. \A x \in keys \ Range(read) : Len(read) = n /\ \A a \in DOMAIN read : Before(read[a], x)
  BY DEF Query
<1> QED  BY <1>1, <1>2, <1>3, <1>4 DEF Range

\* The first rows of what was read.
LEMMA TakeIsPrefix ==
    ASSUME NEW S, NEW read \in Seq(S), NEW n \in Nat
    PROVE  /\ Take(read, n) \in Seq(S)
           /\ Len(Take(read, n)) = IF n < Len(read) THEN n ELSE Len(read)
           /\ \A a \in DOMAIN Take(read, n) : a \in DOMAIN read /\ Take(read, n)[a] = read[a]
BY DEF Take

\* Two lists, one behind the other.
LEMMA ConcatLists ==
    ASSUME NEW s \in Seq(Nat \X Nat), NEW t \in Seq(Nat \X Nat)
    PROVE  /\ s \o t \in Seq(Nat \X Nat) /\ Len(s \o t) = Len(s) + Len(t)
           /\ \A n \in DOMAIN (s \o t) :
                 \/ n \in DOMAIN s /\ (s \o t)[n] = s[n]
                 \/ n > Len(s) /\ n - Len(s) \in DOMAIN t /\ (s \o t)[n] = t[n - Len(s)]
           /\ \A n \in DOMAIN s : n \in DOMAIN (s \o t) /\ (s \o t)[n] = s[n]
           /\ \A a \in DOMAIN t : Len(s) + a \in DOMAIN (s \o t) /\ (s \o t)[Len(s) + a] = t[a]
<1>1. s \o t \in Seq(Nat \X Nat) /\ Len(s \o t) = Len(s) + Len(t)  OBVIOUS
<1>2. DOMAIN (s \o t) = 1..(Len(s) + Len(t)) /\ DOMAIN s = 1..Len(s) /\ DOMAIN t = 1..Len(t)
      /\ Len(s) \in Nat /\ Len(t) \in Nat
  OBVIOUS
<1>3. \A n \in 1..(Len(s) + Len(t)) : (s \o t)[n] = IF n <= Len(s) THEN s[n] ELSE t[n - Len(s)]
  OBVIOUS
<1>4. ASSUME NEW n \in 1..(Len(s) + Len(t))
      PROVE  \/ n \in 1..Len(s) /\ (s \o t)[n] = s[n]
             \/ n > Len(s) /\ n - Len(s) \in 1..Len(t) /\ (s \o t)[n] = t[n - Len(s)]
  BY <1>2, <1>3
<1>5. ASSUME NEW n \in 1..Len(s) PROVE n \in 1..(Len(s) + Len(t)) /\ (s \o t)[n] = s[n]
  BY <1>2, <1>3
<1>6. ASSUME NEW a \in 1..Len(t)
      PROVE  Len(s) + a \in 1..(Len(s) + Len(t)) /\ (s \o t)[Len(s) + a] = t[a]
  <2>1. Len(s) + a \in 1..(Len(s) + Len(t)) /\ ~(Len(s) + a <= Len(s)) /\ (Len(s) + a) - Len(s) = a
    BY <1>2
  <2> QED  BY <1>3, <2>1
<1> QED  BY <1>1, <1>2, <1>4, <1>5, <1>6

\* A list in order with a list in order behind its last key.
LEMMA ConcatInOrder ==
    ASSUME NEW s \in Seq(Nat \X Nat), NEW t \in Seq(Nat \X Nat), InOrder(s), InOrder(t),
           \A a \in DOMAIN t : s # << >> => Before(s[Len(s)], t[a])
    PROVE  InOrder(s \o t)
<1> DEFINE u == s \o t
           len == Len(s)
<1>1. /\ \A n \in DOMAIN u : \/ n \in DOMAIN s /\ u[n] = s[n]
                             \/ n > len /\ n - len \in DOMAIN t /\ u[n] = t[n - len]
      /\ u \in Seq(Nat \X Nat)
  BY ConcatLists
<1> SUFFICES ASSUME NEW m \in DOMAIN u, NEW n \in DOMAIN u, m < n PROVE Before(u[m], u[n])
  BY DEF InOrder
<1>2. len \in Nat /\ DOMAIN s = 1..len  OBVIOUS
<1>3. m \in Nat /\ n \in Nat  BY <1>1
<1> HIDE DEF u, len
<1>4. CASE m \in DOMAIN s /\ u[m] = s[m] /\ n \in DOMAIN s /\ u[n] = s[n]
  BY <1>4 DEF InOrder
<1>5. CASE m - len \in DOMAIN t /\ u[m] = t[m - len] /\ n - len \in DOMAIN t /\ u[n] = t[n - len]
  <2>1. m - len < n - len  BY <1>2, <1>3
  <2> QED  BY <1>5, <2>1 DEF InOrder
<1>6. CASE m \in DOMAIN s /\ u[m] = s[m] /\ n - len \in DOMAIN t /\ u[n] = t[n - len]
  <2>1. len \in DOMAIN s /\ s # << >>  BY <1>2, <1>6
  <2>2. Before(s[len], u[n])  BY <1>6, <2>1 DEF len
  <2>3. m = len \/ m < len  BY <1>2, <1>6
  <2>4. m = len \/ Before(u[m], s[len])  BY <1>6, <2>1, <2>3 DEF InOrder
  <2>5. s[len] \in Nat \X Nat /\ u[m] \in Nat \X Nat /\ u[n] \in Nat \X Nat  BY <1>1, <2>1
  <2> QED  BY <1>6, <2>2, <2>4, <2>5, BeforeIsOrder
<1>7. CASE m > len /\ n \in DOMAIN s  BY <1>2, <1>3, <1>7
<1> QED  BY <1>1, <1>4, <1>5, <1>6, <1>7

\* One page of the history, for a reader at any place.
LEMMA PageKeepsWalk ==
    ASSUME TxInv, GetHistoryPage
    PROVE  WalkInv'
<1>0. Limit \in Nat \ {0}  BY TransactionsAssumption
<1>1. PICK filters \in IF walk.on THEN {walk.filters} ELSE {{}, {"distribute"}} :
      \E page \in IF walk.on THEN getTransactionHistoryCursor(Limit, walk.cursor, filters)
                               ELSE getTransactionHistory(Limit, filters) :
          walk' = [on |-> page.nextCursor # <<>>, cursor |-> page.nextCursor, filters |-> filters,
                   seen |-> walk.seen \o page.data,
                   from |-> IF walk.on THEN walk.from
                            ELSE {i \in DOMAIN rows : Matches(rows[i], filters)}]
  BY DEF GetHistoryPage
<1> DEFINE match == {i \in AfterCursor(walk.cursor) : Matches(rows[i], filters)}
           keys == {SortKey(i) : i \in match}
<1>2. PICK page \in getTransactionHistoryCursor(Limit, walk.cursor, filters) :
          walk' = [on |-> page.nextCursor # <<>>, cursor |-> page.nextCursor, filters |-> filters,
                   seen |-> walk.seen \o page.data,
                   from |-> IF walk.on THEN walk.from
                            ELSE {i \in DOMAIN rows : Matches(rows[i], filters)}]
  <2>1. CASE walk.on  BY <1>1, <2>1
  <2>2. CASE ~walk.on
    <3>1. walk.cursor = << >>  BY <2>2 DEF TxInv, WalkInv, CursorIsLast
    <3> QED  BY <1>1, <2>2, <3>1 DEF getTransactionHistory
  <2> QED  BY <2>1, <2>2
<1>21. PICK read \in Query(keys, Before, Limit + 1) :
          page = [data |-> Take(read, Limit),
                  nextCursor |-> IF Len(read) > Limit THEN read[Limit] ELSE << >>]
  BY DEF getTransactionHistoryCursor
<1>3. UNCHANGED <<rows, archive>>  BY DEF GetHistoryPage
<1> DEFINE data == Take(read, Limit)
           last == IF Len(read) > Limit THEN read[Limit] ELSE << >>
<1>22. page.data = data /\ page.nextCursor = last  BY <1>21
<1> HIDE DEF data, last
<1>4. /\ walk'.on = (last # << >>) /\ walk'.cursor = last /\ walk'.filters = filters
      /\ walk'.seen = walk.seen \o data
      /\ walk'.from = IF walk.on THEN walk.from ELSE {i \in DOMAIN rows : Matches(rows[i], filters)}
  BY <1>2, <1>22
<1>5. /\ SeenInOrder /\ CursorIsLast /\ RestIsAhead /\ DOMAIN rows \subseteq Ids
      /\ (~walk.on => walk.seen = << >>)
  BY DEF TxInv, WalkInv, GetHistoryPage, Ids
<1>6. \A i \in DOMAIN rows : SortKey(i) \in Nat \X Nat /\ SortKey(i)[1] = TimeOf(i) /\ SortKey(i)[2] = i
  <2>1. \A i \in DOMAIN rows : i \in Nat /\ rows[i].timestamp \in Nat
    BY DEF TxInv, TxTypes, Row, TablesAreWhole, NothingVanishes, Ids
  <2> QED  BY <2>1 DEF SortKey, TimeOf
<1>7. match \subseteq DOMAIN rows  BY DEF AfterCursor
<1>8. /\ keys \subseteq Nat \X Nat
      /\ \A k \in keys : k[2] \in DOMAIN rows /\ k[1] = TimeOf(k[2]) /\ k[2] \in match /\ k = SortKey(k[2])
  BY <1>6, <1>7
<1>9. \A k \in keys : walk.on => Before(walk.cursor, k)
  <2>1. walk.on => walk.cursor # << >>  BY <1>5 DEF CursorIsLast, SeenInOrder
  <2> QED  BY <1>8, <2>1 DEF AfterCursor
<1>10. \A i \in DOMAIN rows : Matches(rows[i], filters) /\ (walk.on => Before(walk.cursor, SortKey(i)))
                                => SortKey(i) \in keys
  <2>1. ~walk.on => walk.cursor = << >>  BY <1>5 DEF CursorIsLast
  <2> QED  BY <2>1 DEF AfterCursor
<1> HIDE DEF match, keys
<1>11. /\ read \in Seq(keys) /\ Len(read) <= Limit + 1
       /\ InOrder(read)
       /\ \A x \in keys : \/ \E a \in DOMAIN read : read[a] = x
                          \/ Len(read) = Limit + 1 /\ \A a \in DOMAIN read : Before(read[a], x)
  <2>1. Limit + 1 \in Nat  BY <1>0
  <2> QED  BY <2>1, QueryIsOrdered
<1>12. /\ data \in Seq(keys) /\ Len(data) = (IF Limit < Len(read) THEN Limit ELSE Len(read))
       /\ \A a \in DOMAIN data : a \in DOMAIN read /\ data[a] = read[a]
  BY <1>0, <1>11, TakeIsPrefix DEF data
<1>13. \A a \in DOMAIN data : data[a] \in keys  BY <1>12
<1> DEFINE shown == walk.seen \o data
<1>14. /\ shown \in Seq(Nat \X Nat) /\ Len(shown) = Len(walk.seen) + Len(data)
       /\ \A n \in DOMAIN shown :
             \/ n \in DOMAIN walk.seen /\ shown[n] = walk.seen[n]
             \/ n > Len(walk.seen) /\ n - Len(walk.seen) \in DOMAIN data /\ shown[n] = data[n - Len(walk.seen)]
       /\ \A n \in DOMAIN walk.seen : n \in DOMAIN shown /\ shown[n] = walk.seen[n]
       /\ \A a \in DOMAIN data : Len(walk.seen) + a \in DOMAIN shown /\ shown[Len(walk.seen) + a] = data[a]
  <2>1. walk.seen \in Seq(Nat \X Nat) /\ data \in Seq(Nat \X Nat)
    BY <1>5, <1>8, <1>12 DEF SeenInOrder
  <2> QED  BY <2>1, ConcatLists
<1>15. walk'.seen = shown  BY <1>4
<1> HIDE DEF shown
<1>16. SeenInOrder'
  <2>1. ASSUME NEW n \in DOMAIN shown PROVE shown[n][2] \in Ids /\ shown[n][1] = TimeOf(shown[n][2])
    <3>1. CASE n \in DOMAIN walk.seen /\ shown[n] = walk.seen[n]  BY <1>5, <3>1 DEF SeenInOrder
    <3>2. CASE n - Len(walk.seen) \in DOMAIN data /\ shown[n] = data[n - Len(walk.seen)]
      <4>1. shown[n] \in keys  BY <1>13, <3>2
      <4> QED  BY <1>5, <1>8, <4>1
    <3> QED  BY <1>14, <2>1, <3>1, <3>2
  <2>2. InOrder(shown)
    <3>1. walk.seen \in Seq(Nat \X Nat) /\ data \in Seq(Nat \X Nat) /\ InOrder(walk.seen)
      BY <1>5, <1>8, <1>12 DEF SeenInOrder
    <3>2. InOrder(data)  BY <1>11, <1>12 DEF InOrder
    <3>3. \A a \in DOMAIN data : walk.seen # << >> => Before(walk.seen[Len(walk.seen)], data[a])
      BY <1>5, <1>9, <1>13 DEF CursorIsLast
    <3> QED  BY <3>1, <3>2, <3>3, ConcatInOrder DEF shown
  <2>3. Ids' = Ids /\ \A i : TimeOf(i)' = TimeOf(i)  BY <1>3 DEF Ids, TimeOf
  <2> QED  BY <1>14, <1>15, <2>1, <2>2, <2>3 DEF SeenInOrder, InOrder
<1>17. ASSUME NEW i \in DOMAIN rows, \E a \in DOMAIN data : data[a] = SortKey(i) PROVE i \in SeenIds'
  <2>1. PICK a \in DOMAIN data : data[a] = SortKey(i)  BY <1>17
  <2>2. shown[Len(walk.seen) + a][2] = i /\ Len(walk.seen) + a \in DOMAIN shown  BY <1>6, <1>14, <2>1
  <2> QED  BY <1>15, <2>2 DEF SeenIds
<1>18. SeenIds \subseteq SeenIds'
  <2> SUFFICES ASSUME NEW n \in DOMAIN walk.seen PROVE walk.seen[n][2] \in SeenIds'  BY DEF SeenIds
  <2>1. n \in DOMAIN shown /\ shown[n] = walk.seen[n]  BY <1>14
  <2> QED  BY <1>15, <2>1 DEF SeenIds
<1>19. ASSUME NEW i \in walk'.from \cap DOMAIN rows
       PROVE  Matches(rows[i], filters) /\ (i \in SeenIds' \/ SortKey(i) \in keys)
  <2>1. CASE walk.on
    <3>1. i \in walk.from /\ filters = walk.filters  BY <1>4, <2>1
    <3> QED  BY <1>5, <1>10, <1>18, <2>1, <3>1 DEF RestIsAhead
  <2>2. CASE ~walk.on
    BY <1>4, <1>10, <2>2
  <2> QED  BY <2>1, <2>2
<1>20. ASSUME NEW i \in DOMAIN rows, SortKey(i) \in keys
       PROVE  \/ \E a \in DOMAIN data : data[a] = SortKey(i)
              \/ last # << >> /\ Before(last, SortKey(i))
  <2>1. CASE Len(read) > Limit
    <3>1. Limit \in DOMAIN read /\ last = read[Limit] /\ DOMAIN data = 1..Limit
      BY <1>0, <1>11, <1>12, <2>1 DEF last
    <3>2. last # << >>  BY <1>8, <1>11, <3>1
    <3>3. ASSUME NEW a \in DOMAIN read, read[a] = SortKey(i), a > Limit PROVE Before(last, SortKey(i))
      BY <1>11, <3>1, <3>3 DEF InOrder
    <3>4. ASSUME NEW a \in DOMAIN read, read[a] = SortKey(i), ~(a > Limit)
          PROVE  \E b \in DOMAIN data : data[b] = SortKey(i)
      <4>1. a \in DOMAIN data  BY <1>0, <1>11, <3>1, <3>4
      <4> QED  BY <1>12, <3>4, <4>1
    <3>5. CASE \A a \in DOMAIN read : Before(read[a], SortKey(i))  BY <3>1, <3>2, <3>5
    <3> QED  BY <1>11, <1>20, <3>2, <3>3, <3>4, <3>5
  <2>2. CASE ~(Len(read) > Limit)
    <3>1. Len(read) # Limit + 1 /\ DOMAIN data = DOMAIN read  BY <1>0, <1>11, <1>12, <2>2
    <3>2. PICK a \in DOMAIN read : read[a] = SortKey(i)  BY <1>11, <1>20, <3>1
    <3> QED  BY <1>12, <3>1, <3>2
  <2> QED  BY <2>1, <2>2
<1>23. RestIsAhead'
  <2>1. Ids' = Ids /\ \A i \in DOMAIN rows : SortKey(i)' = SortKey(i)  BY <1>3 DEF Ids, SortKey
  <2>2. walk'.from \subseteq Ids  BY <1>4, <1>5 DEF RestIsAhead
  <2>3. ASSUME NEW i \in walk'.from \cap DOMAIN rows
        PROVE  /\ Matches(rows[i], filters)
               /\ i \in SeenIds' \/ (last # << >> /\ Before(last, SortKey(i)))
    BY <1>17, <1>19, <1>20
  <2> QED  BY <1>3, <1>4, <2>1, <2>2, <2>3 DEF RestIsAhead
<1>24. CursorIsLast'
  <2>1. CASE Len(read) > Limit
    <3>1. Limit \in DOMAIN read /\ last = read[Limit] /\ Len(data) = Limit /\ Limit \in DOMAIN data
      BY <1>0, <1>11, <1>12, <2>1 DEF last
    <3>2. last = data[Limit] /\ last # << >>  BY <1>8, <1>12, <1>13, <3>1
    <3>3. Len(walk.seen) + Limit = Len(shown) /\ Len(shown) # 0 /\ shown[Len(shown)] = last
      <4>1. Len(walk.seen) \in Nat  BY <1>5 DEF SeenInOrder
      <4>2. Len(walk.seen) + Limit \in DOMAIN shown /\ shown[Len(walk.seen) + Limit] = data[Limit]
        BY <1>14, <3>1
      <4>3. Len(shown) = Len(walk.seen) + Limit  BY <1>14, <3>1
      <4> QED  BY <1>0, <3>2, <4>1, <4>2, <4>3
    <3>4. shown # << >>  BY <3>3
    <3> QED  BY <1>4, <1>15, <3>2, <3>3, <3>4 DEF CursorIsLast
  <2>2. CASE ~(Len(read) > Limit)
    <3>1. last = << >>  BY <2>2 DEF last
    <3> QED  BY <1>4, <3>1 DEF CursorIsLast
  <2> QED  BY <2>1, <2>2
<1> QED  BY <1>16, <1>23, <1>24 DEF WalkInv

\* A page changes what the reader holds and nothing else.
LEMMA PageKeepsTables ==
    ASSUME TxInv, GetHistoryPage
    PROVE  TxInv' /\ UNCHANGED rows
<1>1. UNCHANGED <<rows, archive, calls, chain, clock>>  BY DEF GetHistoryPage
<1>2. TxTypes' /\ RowsMatchLedger'  BY <1>1 DEF TxInv, TxTypes, RowsMatchLedger
<1>3. TablesAreWhole'  BY <1>1 DEF TxInv, TablesAreWhole, NothingVanishes, Ids
<1> QED  BY <1>1, <1>2, <1>3, PageKeepsWalk DEF TxInv

\* Keys in order are different keys, and a key has its row's time in it, so no row
\* is shown twice.
LEMMA WalkInvGivesExact == TxInv => WalkIsExact
<1> SUFFICES ASSUME TxInv PROVE WalkIsExact  OBVIOUS
<1> DEFINE seen == walk.seen
           len == Len(seen)
           f == [n \in 1..len |-> seen[n][2]]
<1>1. /\ seen \in Seq(Nat \X Nat) /\ len \in Nat /\ DOMAIN seen = 1..len
      /\ InOrder(seen)
      /\ \A n \in 1..len : seen[n] \in Nat \X Nat /\ seen[n][1] = TimeOf(seen[n][2])
  BY DEF TxInv, WalkInv, SeenInOrder
<1>2. SeenIds = {seen[n][2] : n \in 1..len}  BY <1>1 DEF SeenIds
<1> HIDE DEF seen, len
<1>3. ASSUME NEW m \in 1..len, NEW n \in 1..len, seen[m][2] = seen[n][2], m < n PROVE FALSE
  <2>1. Before(seen[m], seen[n])  BY <1>1, <1>3 DEF InOrder
  <2>2. seen[m][1] = seen[n][1] /\ seen[n][1] \in Nat /\ seen[n][2] \in Nat  BY <1>1, <1>3
  <2> QED  BY <1>3, <2>1, <2>2 DEF Before
<1>4. \A m, n \in 1..len : seen[m][2] = seen[n][2] => m = n
  <2>1. \A m, n \in 1..len : m < n \/ n < m \/ m = n  BY <1>1
  <2> QED  BY <1>3, <2>1
<1>5. f \in Bijection(1..len, SeenIds)
  <2>1. f \in [1..len -> SeenIds]  BY <1>2
  <2>2. \A m, n \in 1..len : f[m] = f[n] => m = n  BY <1>4
  <2>3. \A i \in SeenIds : \E n \in 1..len : f[n] = i  BY <1>2
  <2>4. DOMAIN f = 1..len  OBVIOUS
  <2> HIDE DEF f
  <2> QED  BY <2>1, <2>2, <2>3, <2>4 DEF Bijection, Injection, Surjection, IsInjective
<1>6. Cardinality(SeenIds) = len
  <2>1. ExistsBijection(1..len, SeenIds)  BY <1>5 DEF ExistsBijection
  <2> QED  BY <1>1, <2>1, FS_CountingElements
<1>7. walk.on \/ seen = << >> \/ walk.from \cap DOMAIN rows \subseteq SeenIds
  BY DEF TxInv, WalkInv, RestIsAhead, CursorIsLast, seen
<1> QED  BY <1>6, <1>7 DEF WalkIsExact, SeenIds, seen, len

-----------------------------------------------------------------------------
\* What the two parts of the history do to the webhooks.
LEMMA HooksStay == HookInv /\ UNCHANGED <<hook, posts, passes>> => HookInv'
BY DEF HookInv, ScheduledHasPayload

\* A first delivery carries the hash that was confirmed.
LEMMA SettleKeepsHooks ==
    ASSUME TxInv, HookInv, NEW c \in Call, ConfirmSettle(c)
    PROVE  HookInv'
<1>1. calls[c].hash \in Hash  BY ConfirmSettleKeepsTables
<1>2. UNCHANGED <<hook, passes>>  BY DEF ConfirmSettle
<1>3. UNCHANGED posts \/ deliverDistributeWebhooks(calls[c].hash, c)  BY DEF ConfirmSettle
<1>4. CASE UNCHANGED posts  BY <1>2, <1>4, HooksStay
<1>5. CASE deliverDistributeWebhooks(calls[c].hash, c)
  <2>1. \A h \in Hook : hook[h].retry \in Nat  BY DEF HookInv, HookRow
  <2>2. \A post \in posts' \ posts : post.hook \in Hook /\ post.note \in Hash /\ post.retry \in Nat
    BY <1>1, <1>5, <2>1 DEF deliverDistributeWebhooks, listWebhooks
  <2> QED  BY <1>2, <2>2 DEF HookInv, ScheduledHasPayload
<1> QED  BY <1>3, <1>4, <1>5

KeepsHashes == \A i \in DOMAIN rows \cap DOMAIN rows' : rows[i].hash # NoHash => rows'[i].hash = rows[i].hash

LEMMA ConfirmStep == TxInv /\ HookInv /\ ConfirmNext => TxInv' /\ HookInv' /\ KeepsHashes
<1> SUFFICES ASSUME TxInv, HookInv, ConfirmNext PROVE TxInv' /\ HookInv' /\ KeepsHashes  OBVIOUS
<1>1. ASSUME NEW c \in Call, ConfirmSettle(c) PROVE TxInv' /\ HookInv' /\ KeepsHashes
  BY <1>1, ConfirmSettleKeepsTables, SettleKeepsHooks DEF KeepsHashes
<1>2. ASSUME NEW c \in Call, NEW h \in Hash, NEW i \in 1..MaxTx, ConfirmStart(c, h, i)
      PROVE  TxInv' /\ HookInv' /\ KeepsHashes
  <2>1. TxInv' /\ KeepsHashes  BY <1>2, ConfirmStartKeepsTables DEF KeepsHashes
  <2>2. HookInv'  BY <1>2, HooksStay DEF ConfirmStart, webhookVars
  <2> QED  BY <2>1, <2>2
<1>3. ASSUME \/ \E h \in Hash : LedgerSettles(h)
             \/ \E c \in Call : ConfirmTimeout(c)
      PROVE  TxInv' /\ HookInv' /\ KeepsHashes
  <2>1. TxInv' /\ UNCHANGED rows  BY <1>3, OthersKeepTables
  <2>2. HookInv'  BY <1>3, HooksStay DEF LedgerSettles, ConfirmTimeout, webhookVars
  <2> QED  BY <2>1, <2>2 DEF KeepsHashes
<1> QED  BY <1>1, <1>2, <1>3 DEF ConfirmNext

\* A record, a run of the archive, a tick, a policy, a page.
LEMMA RecordStep ==
    ASSUME TxInv, HookInv, NEW type \in {"distribute", "initialize"}, Record(type)
    PROVE  TxInv' /\ HookInv' /\ KeepsHashes
<1>1. TxInv'  BY RecordKeepsTables DEF Record
<1>2. HookInv'  BY HooksStay DEF Record, webhookVars
<1>3. KeepsHashes
  <2>1. Cardinality(Ids) + 1 \notin Ids  BY DEF TxInv, TablesAreWhole, NothingVanishes
  <2> QED  BY <2>1 DEF KeepsHashes, Record, recordTransaction, With, Ids
<1> QED  BY <1>1, <1>2, <1>3

LEMMA ArchiveStep == TxInv /\ HookInv /\ PostArchiveRun => TxInv' /\ HookInv' /\ KeepsHashes
<1> SUFFICES ASSUME TxInv, HookInv, PostArchiveRun PROVE TxInv' /\ HookInv' /\ KeepsHashes  OBVIOUS
<1>1. TxInv'  BY ArchiveKeepsTables DEF PostArchiveRun
<1>2. HookInv'  BY HooksStay DEF PostArchiveRun, webhookVars
<1>3. KeepsHashes  BY DEF KeepsHashes, PostArchiveRun, archiveContractEvents, Without
<1> QED  BY <1>1, <1>2, <1>3

LEMMA HistoryStep == TxInv /\ HookInv /\ HistoryNext => TxInv' /\ HookInv' /\ KeepsHashes
<1> SUFFICES ASSUME TxInv, HookInv, HistoryNext PROVE TxInv' /\ HookInv' /\ KeepsHashes  OBVIOUS
<1>1. CASE GetHistoryPage
  <2>1. HookInv'  BY <1>1, HooksStay DEF GetHistoryPage, webhookVars
  <2> QED  BY <1>1, <2>1, PageKeepsTables DEF KeepsHashes
<1>2. CASE Tick \/ \E enabled \in BOOLEAN : PostArchivePolicy(enabled)
  <2>1. HookInv'  BY <1>2, HooksStay DEF Tick, PostArchivePolicy, webhookVars
  <2>2. TxInv' /\ UNCHANGED rows  BY <1>2, OthersKeepTables
  <2> QED  BY <2>1, <2>2 DEF KeepsHashes
<1> QED  BY <1>1, <1>2, RecordStep, ArchiveStep DEF HistoryNext

LEMMA DeliveryStep == TxInv /\ HookInv /\ WebhooksNext /\ UNCHANGED txVars => TxInv' /\ HookInv' /\ KeepsHashes
BY WebhooksStep, OthersKeepTables DEF KeepsHashes

LEMMA HistoryStays == TxInv /\ HookInv /\ UNCHANGED vars => TxInv' /\ HookInv' /\ KeepsHashes
BY HooksStay, OthersKeepTables DEF KeepsHashes, vars, webhookVars

\* The history's tables and the webhooks keep their invariants however confirmations,
\* archive runs, readers, deliveries and the retry job interleave.
THEOREM TransactionsInvariant == TransactionsSpec => [](TxInv /\ HookInv)
<1>1. TransactionsInit => TxInv /\ HookInv
  BY TransactionsStart, HooksStart DEF TransactionsInit
<1>2. TxInv /\ HookInv /\ [ConfirmNext \/ HistoryNext \/ (WebhooksNext /\ UNCHANGED txVars)]_vars
         => (TxInv /\ HookInv)'
  BY ConfirmStep, HistoryStep, DeliveryStep, HistoryStays
<1> QED  BY <1>1, <1>2, PTL DEF TransactionsSpec

\* A row keeps its hash through confirmations, archive runs and deliveries.
THEOREM HashesStick == TransactionsSpec => HashSticks
<1>1. TxInv /\ HookInv /\ [ConfirmNext \/ HistoryNext \/ (WebhooksNext /\ UNCHANGED txVars)]_vars
         => [KeepsHashes]_vars
  BY ConfirmStep, HistoryStep, DeliveryStep, HistoryStays
<1> QED  BY <1>1, TransactionsInvariant, PTL DEF TransactionsSpec, HashSticks, KeepsHashes

-----------------------------------------------------------------------------
(***************************************************************************)
(* The backend's scenes together, as the run checks them.  A step of one   *)
(* component leaves the variables of the others, so each keeps its own     *)
(* invariant.                                                              *)
(***************************************************************************)

EventInv == PushInv /\ TxInv /\ HookInv

\* The step of a record, and the step of the history with the others at rest.
LEMMA EventStep ==
    ASSUME EventInv, EventsNext
    PROVE  /\ EventInv' /\ KeepsHashes
           /\ FinalityNext \/ UNCHANGED finalityVars
<1> USE DEF EventInv
<1>1. CASE FinalityNext /\ UNCHANGED <<noticeVars, vars>>
  <2>1. PushInv'
    BY <1>1, FinalityStep, FinalityKeepsHub, FinalityKeepsNotices DEF PushInv, noticeVars
  <2> QED  BY <1>1, <2>1, HistoryStays
<1>2. CASE NotificationsNext /\ UNCHANGED <<finalityVars, vars>>
  <2>1. PushInv'  BY <1>2, NotificationsStep, FinalityStays DEF PushInv
  <2> QED  BY <1>2, <2>1, HistoryStays
<1>3. CASE HubOrAnnounce /\ UNCHANGED <<finalityVars, noticeVars, vars>>
  <2>1. PushInv'
    <3>1. UNCHANGED <<finalityVars, noticeVars>>  BY <1>3
    <3>2. CASE HubNext
      <4>1. FinalityNext  BY <3>1, <3>2 DEF FinalityNext
      <4> QED  BY <3>1, <4>1, FinalityStep, FinalityKeepsHub, FinalityKeepsNotices DEF PushInv, noticeVars
    <3>3. ASSUME NEW t \in Tx, Announce(t) PROVE PushInv'
      BY <3>1, <3>3, AnnounceKeepsPushes, FinalityStays DEF PushInv, noticeVars
    <3> QED  BY <1>3, <3>2, <3>3 DEF HubOrAnnounce
  <2> QED  BY <1>3, <2>1, HistoryStays
<1>4. ASSUME UNCHANGED <<pushVars, noticeVars>> PROVE PushInv' /\ UNCHANGED finalityVars
  BY <1>4, HubStays, FinalityStays, NoticesStay DEF PushInv, pushVars, hubVars, noticeVars
<1>5. CASE HistoryNext /\ UNCHANGED <<pushVars, noticeVars>>
  BY <1>4, <1>5, HistoryStep
<1>6. CASE (ConfirmNext \/ RecordOne \/ Webhook \/ Tick \/ PostArchiveRun) /\ UNCHANGED <<pushVars, noticeVars>>
  <2>1. TxInv' /\ HookInv' /\ KeepsHashes
    <3>1. RecordOne => TxInv' /\ HookInv' /\ KeepsHashes  BY RecordStep DEF RecordOne
    <3>2. Webhook => TxInv' /\ HookInv' /\ KeepsHashes  BY DeliveryStep DEF Webhook
    <3>3. Tick \/ PostArchiveRun => HistoryNext  BY DEF HistoryNext
    <3> QED  BY <1>6, <3>1, <3>2, <3>3, ConfirmStep, HistoryStep
  <2> QED  BY <1>4, <1>6, <2>1
<1> QED  BY <1>1, <1>2, <1>3, <1>5, <1>6 DEF EventsNext

LEMMA EventsStay ==
    ASSUME EventInv, UNCHANGED eventVars
    PROVE  EventInv' /\ KeepsHashes /\ UNCHANGED finalityVars
<1>1. PushInv' /\ UNCHANGED finalityVars
  BY HubStays, FinalityStays, NoticesStay DEF EventInv, PushInv, eventVars, pushVars, hubVars, noticeVars
<1> QED  BY <1>1, HistoryStays DEF EventInv, eventVars

LEMMA BackstageStep ==
    ASSUME EventInv, [BackstageNext]_mcVars
    PROVE  EventInv' /\ KeepsHashes /\ (FinalityNext \/ UNCHANGED finalityVars)
BY EventStep, EventsStay DEF BackstageNext, mcVars

\* Whatever the backend does behind its requests, the hub, the trackers, the
\* notifications, the tables and the webhooks keep their invariants.
THEOREM EventInvariant == BackstageSpec => []EventInv
<1>1. BackstageInit => EventInv
  BY HubStarts, FinalityStarts, NoticesStart, TransactionsStart, HooksStart
     DEF BackstageInit, FinalityInit, TransactionsInit, EventInv, PushInv
<1>2. EventInv /\ [BackstageNext]_mcVars => EventInv'  BY BackstageStep
<1> QED  BY <1>1, <1>2, PTL DEF BackstageSpec

\* A verdict in either table is the ledger's, for any number of transactions, hashes
\* and requests: a hash that is attached late, a late answer of Horizon and a crash of
\* the process included (transaction-finality.js, routes/history.js).
THEOREM VerdictsAreTheLedgers == BackstageSpec => []VerdictsFollowTheLedger
<1>1. EventInv => VerdictsFollowTheLedger
  BY DEF EventInv, PushInv, FinalityInv, TxInv, VerdictsFollowTheLedger
<1> QED  BY <1>1, EventInvariant, PTL

\* What is pushed has something behind it (websocket.js, notifications.js,
\* retry-failed-webhooks.js).
THEOREM PushesStayBacked == BackstageSpec => []PushesAreBacked
<1>1. EventInv => PushesAreBacked
  BY HubHasNoGhosts DEF EventInv, PushInv, NoticeInv, HookInv, PushesAreBacked
<1> QED  BY <1>1, EventInvariant, PTL

\* No row is lost between the tables, and a reader with a cursor misses and repeats
\* none, for every page size and however many rows arrive between two pages.
THEOREM HistoryStaysComplete == BackstageSpec => []HistoryIsComplete
<1>1. EventInv => HistoryIsComplete
  BY WalkInvGivesExact DEF EventInv, TxInv, TablesAreWhole, HistoryIsComplete
<1> QED  BY <1>1, EventInvariant, PTL

\* A verdict is written once, told to its subscribers in the same step, and a row
\* keeps its hash.
THEOREM VerdictsStayStuck == BackstageSpec => VerdictsStick
<1> DEFINE Stays == \A t \in Tx : record[t] # NoRecord /\ record'[t] # NoRecord /\ record[t].status # "pending"
                                     => record'[t].status = record[t].status
           Heard == \A t \in Tx, s \in Socket :
                       /\ record[t] # NoRecord /\ record'[t] # NoRecord
                       /\ record[t].status # record'[t].status
                       /\ Open(s) /\ s \in clients[FinalityKey(t)]
                       => <<t, record'[t].status>> \in inbox'[s]
<1>1. EventInv /\ [BackstageNext]_mcVars => [Stays]_pushVars /\ [Heard]_pushVars /\ [KeepsHashes]_vars
  <2> SUFFICES ASSUME EventInv, [BackstageNext]_mcVars PROVE Stays /\ Heard /\ KeepsHashes
    OBVIOUS
  <2>1. KeepsHashes /\ (FinalityNext \/ UNCHANGED finalityVars)  BY BackstageStep
  <2>2. CASE FinalityNext
    BY <2>1, <2>2, VerdictIsFirstAndHeard DEF EventInv, PushInv
  <2>3. CASE UNCHANGED finalityVars
    BY <2>1, <2>3 DEF finalityVars
  <2> QED  BY <2>1, <2>2, <2>3
<1> QED
  BY <1>1, EventInvariant, PTL
     DEF BackstageSpec, VerdictsStick, OneVerdict, SubscribersHearTheVerdict, HashSticks, KeepsHashes

-----------------------------------------------------------------------------
(***************************************************************************)
(* The life of the process.                                                *)
(***************************************************************************)

Applied(n) == {migrations[i] : i \in 1..n}

\* The loop of a start stands right behind what it found or made.
LoopIsBehind(n) ==
    /\ recorded = Applied(n) /\ schema = Applied(n)
    /\ process = "migrating" => /\ at \in 1..14 /\ at - 1 <= n
                                /\ staged => at <= 13 /\ migrations[at] \notin recorded
StartIsOrderly == \E n \in 0..13 : LoopIsBehind(n)

RequestsAreHeld ==
    /\ link \in [Client -> {"closed", "idle", "asking"}]
    /\ response \in [Client -> {"none", "pending", "answered", "timeout", "refused"}]
    /\ handler \in [Client -> BOOLEAN]
    /\ process \in {"migrating", "serving", "stopping"} =>
          \A c \in Client : response[c] = "pending" => link[c] = "asking"

LifeInv ==
    /\ StartIsOrderly
    /\ RequestsAreHeld
    /\ staged => process = "migrating"
    /\ process \in {"serving", "stopping"} => recorded = Versions
    /\ process \in {"migrating", "serving", "stopping"} => dbOpen = TRUE
    /\ exitCode = 0 => process = "exited" /\ \A c \in Client : response[c] # "pending"

\* The list of migrations names the versions 1 to 13, each once.
LEMMA MigrationList ==
    /\ Len(migrations) = 13
    /\ \A i, j \in 1..13 : migrations[i] = migrations[j] => i = j
    /\ Versions = 1..13 /\ Applied(13) = Versions
<1>1. FirstMigrations \in Seq(Nat) /\ Len(FirstMigrations) = 6  BY DEF FirstMigrations
<1>2. LaterMigrations \in Seq(Nat) /\ Len(LaterMigrations) = 7  BY DEF LaterMigrations
<1>11. \A s, t \in Seq(Nat) : /\ Len(s \o t) = Len(s) + Len(t) /\ DOMAIN (s \o t) = 1..(Len(s) + Len(t))
                               /\ \A i \in 1..(Len(s) + Len(t)) :
                                     (s \o t)[i] = IF i <= Len(s) THEN s[i] ELSE t[i - Len(s)]
  OBVIOUS
<1> DEFINE f == FirstMigrations
           l == LaterMigrations
<1>12. migrations = f \o l  BY DEF migrations
<1> HIDE DEF f, l
<1>13. f \in Seq(Nat) /\ l \in Seq(Nat) /\ Len(f) = 6 /\ Len(l) = 7  BY <1>1, <1>2 DEF f, l
<1>14. /\ Len(f \o l) = Len(f) + Len(l) /\ DOMAIN (f \o l) = 1..(Len(f) + Len(l))
       /\ \A i \in 1..(Len(f) + Len(l)) : (f \o l)[i] = IF i <= Len(f) THEN f[i] ELSE l[i - Len(f)]
  BY <1>11, <1>13
<1>3. Len(migrations) = 13 /\ DOMAIN migrations = 1..13  BY <1>12, <1>13, <1>14
<1>15. \A i \in 1..13 : migrations[i] = IF i <= 6 THEN f[i] ELSE l[i - 6]
  <2>1. 1..(Len(f) + Len(l)) = 1..13  BY <1>13
  <2>2. \A i \in 1..13 : (f \o l)[i] = IF i <= Len(f) THEN f[i] ELSE l[i - Len(f)]  BY <1>14, <2>1
  <2> QED  BY <1>12, <1>13, <2>2
<1>4. \A i \in 1..13 : migrations[i] = IF i <= 6 THEN FirstMigrations[i] ELSE LaterMigrations[i - 6]
  BY <1>15 DEF f, l
<1>5. /\ migrations[1] = 1 /\ migrations[2] = 3 /\ migrations[3] = 4 /\ migrations[4] = 2
      /\ migrations[5] = 5 /\ migrations[6] = 6
  BY <1>4 DEF FirstMigrations
<1>6. \A i \in 7..13 : migrations[i] = i
  <2>1. \A i \in 1..7 : LaterMigrations[i] = i + 6  BY DEF LaterMigrations
  <2>2. \A i \in 7..13 : i - 6 \in 1..7 /\ migrations[i] = LaterMigrations[i - 6]  BY <1>4
  <2> QED  BY <2>1, <2>2
<1>7. \A i \in 1..13 : \/ i = 1 /\ migrations[i] = 1
                       \/ i = 2 /\ migrations[i] = 3
                       \/ i = 3 /\ migrations[i] = 4
                       \/ i = 4 /\ migrations[i] = 2
                       \/ i \in 5..13 /\ migrations[i] = i
  BY <1>5, <1>6
<1>8. \A i, j \in 1..13 : migrations[i] = migrations[j] => i = j  BY <1>7
<1>9. \A v \in 1..13 : \E i \in 1..13 : migrations[i] = v
  <2> SUFFICES ASSUME NEW v \in 1..13 PROVE \E i \in 1..13 : migrations[i] = v  OBVIOUS
  <2>1. v = 1 \/ v = 2 \/ v = 3 \/ v = 4 \/ v \in 5..13  OBVIOUS
  <2> QED  BY <1>5, <1>7, <2>1
<1>10. \A i \in 1..13 : migrations[i] \in 1..13  BY <1>7
<1> QED  BY <1>3, <1>8, <1>9, <1>10 DEF Versions, Applied

LEMMA LifeStarts == LifeInit => LifeInv
<1> SUFFICES ASSUME LifeInit PROVE LifeInv  OBVIOUS
<1>1. Applied(0) = {}  BY DEF Applied
<1>2. StartIsOrderly
  <2>1. LoopIsBehind(0)  BY <1>1 DEF LifeInit, LoopIsBehind
  <2> QED  BY <2>1 DEF StartIsOrderly
<1>3. RequestsAreHeld  BY DEF LifeInit, RequestsAreHeld
<1> QED  BY <1>2, <1>3 DEF LifeInit, LifeInv

\* Start-up: the recorded versions stay the ones before some place of the list.
LEMMA StartKeepsLife ==
    ASSUME LifeInv, StartProcess \/ initializeDatabase \/ startServer
    PROVE  LifeInv'
<1> USE MigrationList
<1>0. PICK n \in 0..13 : LoopIsBehind(n)  BY DEF LifeInv, StartIsOrderly
<1>1. /\ recorded = Applied(n) /\ schema = Applied(n)
      /\ process = "migrating" => /\ at \in 1..14 /\ at - 1 <= n
                                  /\ staged => at <= 13 /\ migrations[at] \notin recorded
  BY <1>0 DEF LoopIsBehind
<1>2. \A i \in 1..13 : migrations[i] \in Applied(n) <=> i <= n  BY DEF Applied
<1>3. CASE StartProcess
  <2>1. StartIsOrderly'
    <3>1. LoopIsBehind(n)'  BY <1>1, <1>3 DEF StartProcess, stored, LoopIsBehind
    <3> QED  BY <3>1 DEF StartIsOrderly
  <2>2. RequestsAreHeld'  BY <1>3 DEF StartProcess, LifeInv, RequestsAreHeld
  <2> QED  BY <1>3, <2>1, <2>2 DEF StartProcess, LifeInv
<1>4. CASE SkipMigration
  <2>1. at <= n  BY <1>1, <1>2, <1>4 DEF SkipMigration
  <2>2. StartIsOrderly'
    <3>1. LoopIsBehind(n)'  BY <1>1, <1>4, <2>1 DEF SkipMigration, stored, LoopIsBehind
    <3> QED  BY <3>1 DEF StartIsOrderly
  <2>3. RequestsAreHeld'  BY <1>4 DEF SkipMigration, traffic, LifeInv, RequestsAreHeld
  <2> QED  BY <1>4, <2>2, <2>3 DEF SkipMigration, stored, traffic, LifeInv
<1>5. CASE ExecMigration
  <2>1. StartIsOrderly'
    <3>1. LoopIsBehind(n)'  BY <1>1, <1>5 DEF ExecMigration, stored, LoopIsBehind
    <3> QED  BY <3>1 DEF StartIsOrderly
  <2>2. RequestsAreHeld'  BY <1>5 DEF ExecMigration, traffic, LifeInv, RequestsAreHeld
  <2> QED  BY <1>5, <2>1, <2>2 DEF ExecMigration, stored, traffic, LifeInv
<1>6. CASE CommitMigration
  <2>1. at \in 1..13 /\ at - 1 = n  BY <1>1, <1>2, <1>6 DEF CommitMigration
  <2>2. Applied(n) \cup {migrations[at]} = Applied(at)
    <3>1. 1..at = (1..n) \cup {at}  BY <2>1
    <3> QED  BY <3>1 DEF Applied
  <2>3. recorded' = Applied(at) /\ schema' = Applied(at) /\ at' = at + 1 /\ staged' = FALSE
    BY <1>1, <1>6, <2>2 DEF CommitMigration
  <2>4. StartIsOrderly'
    <3>1. at = n + 1 /\ n + 1 \in 0..13 /\ n \in Nat  BY <2>1
    <3>2. LoopIsBehind(n + 1)'  BY <2>3, <3>1 DEF LoopIsBehind
    <3> QED  BY <3>1, <3>2 DEF StartIsOrderly
  <2>5. RequestsAreHeld'  BY <1>6 DEF CommitMigration, traffic, LifeInv, RequestsAreHeld
  <2> QED  BY <1>6, <2>4, <2>5 DEF CommitMigration, traffic, LifeInv
<1>7. CASE MigrationThrows
  <2>1. StartIsOrderly'
    <3>1. LoopIsBehind(n)'  BY <1>1, <1>7 DEF MigrationThrows, stored, LoopIsBehind
    <3> QED  BY <3>1 DEF StartIsOrderly
  <2>2. RequestsAreHeld'  BY <1>7 DEF MigrationThrows, traffic, LifeInv, RequestsAreHeld
  <2> QED  BY <1>7, <2>1, <2>2 DEF MigrationThrows, LifeInv
<1>8. CASE startServer
  <2>1. n = 13  BY <1>1, <1>8 DEF startServer
  <2>2. StartIsOrderly'
    <3>1. LoopIsBehind(n)'  BY <1>1, <1>8 DEF startServer, stored, LoopIsBehind
    <3> QED  BY <3>1 DEF StartIsOrderly
  <2>3. RequestsAreHeld'  BY <1>8 DEF startServer, traffic, LifeInv, RequestsAreHeld
  <2>4. ~staged  BY <1>1, <1>8 DEF startServer
  <2> QED  BY <1>1, <1>8, <2>1, <2>2, <2>3, <2>4 DEF startServer, stored, traffic, LifeInv, Versions
<1> QED  BY <1>3, <1>4, <1>5, <1>6, <1>7, <1>8 DEF initializeDatabase

\* Serving: an admitted request keeps its connection until it is answered.
LEMMA ServeKeepsLife == LifeInv /\ Serve => LifeInv'
<1> SUFFICES ASSUME LifeInv, Serve PROVE LifeInv'  OBVIOUS
<1>1. UNCHANGED <<recorded, schema, process, at, staged, dbOpen, exitCode>>  BY DEF Serve, stored
<1>2. StartIsOrderly'  BY <1>1 DEF LifeInv, StartIsOrderly, LoopIsBehind
<1>3. /\ RequestsAreHeld'
      /\ process \notin {"serving", "stopping"} => response' = response
  <2>1. ASSUME NEW c \in Client, LinkOpens(c)
        PROVE  RequestsAreHeld' /\ response' = response
    BY <1>1, <2>1 DEF LinkOpens, LifeInv, RequestsAreHeld
  <2>2. ASSUME NEW c \in Client, shutdownMiddleware(c)
        PROVE  RequestsAreHeld' /\ process \in {"serving", "stopping"}
    BY <1>1, <2>2 DEF shutdownMiddleware, LifeInv, RequestsAreHeld
  <2>3. ASSUME NEW c \in Client, HandlerEnds(c)
        PROVE  RequestsAreHeld' /\ process \in {"serving", "stopping"}
    BY <1>1, <2>3 DEF HandlerEnds, LifeInv, RequestsAreHeld
  <2>4. ASSUME NEW c \in Client, RequestTimesOut(c)
        PROVE  RequestsAreHeld' /\ process \in {"serving", "stopping"}
    BY <1>1, <2>4 DEF RequestTimesOut, LifeInv, RequestsAreHeld
  <2>5. ASSUME NEW c \in Client, IdleLinkCloses(c)
        PROVE  RequestsAreHeld' /\ response' = response
    BY <1>1, <2>5 DEF IdleLinkCloses, LifeInv, RequestsAreHeld
  <2>6. ASSUME NEW s \in SocketClient, SocketOpens(s) \/ SocketEnds(s)
        PROVE  RequestsAreHeld' /\ response' = response
    BY <1>1, <2>6 DEF SocketOpens, SocketEnds, LifeInv, RequestsAreHeld
  <2> QED  BY <2>1, <2>2, <2>3, <2>4, <2>5, <2>6 DEF Serve
<1>4. exitCode = 0 => response' = response  BY <1>3 DEF LifeInv
<1> QED  BY <1>1, <1>2, <1>3, <1>4 DEF LifeInv

\* The end: what is stored stays, and a clean exit waits for every connection.
LEMMA EndKeepsLife ==
    ASSUME LifeInv, (\E sig \in Signal : handleShutdown(sig)) \/ ServerCloses \/ forceTimeout \/ Killed
    PROVE  LifeInv'
<1>1. UNCHANGED <<recorded, schema, at, response>> /\ process' # "migrating"
  BY DEF handleShutdown, ServerCloses, forceTimeout, Killed, stored, traffic
<1>2. StartIsOrderly'  BY <1>1 DEF LifeInv, StartIsOrderly, LoopIsBehind
<1>3. CASE \E sig \in Signal : handleShutdown(sig)
  <2>1. UNCHANGED <<link, response, handler, dbOpen, staged, exitCode>> /\ process \in {"serving", "stopping"}
        /\ process' = "stopping"
    BY <1>3 DEF handleShutdown, traffic
  <2>2. RequestsAreHeld'  BY <2>1 DEF LifeInv, RequestsAreHeld
  <2> QED  BY <1>1, <1>2, <2>1, <2>2 DEF LifeInv
<1>4. CASE ServerCloses
  <2>1. \A c \in Client : response[c] # "pending"
    BY <1>4 DEF ServerCloses, LifeInv, RequestsAreHeld
  <2>2. RequestsAreHeld'  BY <1>4 DEF ServerCloses, Gone, LifeInv, RequestsAreHeld
  <2> QED  BY <1>1, <1>2, <1>4, <2>1, <2>2 DEF ServerCloses, LifeInv
<1>5. CASE forceTimeout
  <2>1. RequestsAreHeld'  BY <1>5 DEF forceTimeout, Gone, LifeInv, RequestsAreHeld
  <2> QED  BY <1>1, <1>2, <1>5, <2>1 DEF forceTimeout, LifeInv
<1>6. CASE Killed
  <2>1. RequestsAreHeld'  BY <1>6 DEF Killed, Gone, LifeInv, RequestsAreHeld
  <2> QED  BY <1>1, <1>2, <1>6, <2>1 DEF Killed, LifeInv
<1> QED  BY <1>3, <1>4, <1>5, <1>6

LEMMA LifeStays == LifeInv /\ UNCHANGED lifeVars => LifeInv'
<1> SUFFICES ASSUME LifeInv, UNCHANGED lifeVars PROVE LifeInv'  OBVIOUS
<1> USE DEF lifeVars
<1>1. StartIsOrderly'  BY DEF LifeInv, StartIsOrderly, LoopIsBehind
<1>2. RequestsAreHeld'  BY DEF LifeInv, RequestsAreHeld
<1> QED  BY <1>1, <1>2 DEF LifeInv

LEMMA LifeStep == LifeInv /\ LifeNext => LifeInv'
BY StartKeepsLife, ServeKeepsLife, EndKeepsLife DEF LifeNext

LEMMA LifeIsWhole == LifeInv => SchemaIsWhole /\ CleanExitAnswersAll
<1> SUFFICES ASSUME LifeInv PROVE SchemaIsWhole /\ CleanExitAnswersAll  OBVIOUS
<1>1. \E n \in 0..Len(migrations) : recorded = {migrations[i] : i \in 1..n}
  BY MigrationList DEF LifeInv, StartIsOrderly, LoopIsBehind, Applied
<1>2. ASSUME process \in {"serving", "stopping"}
      PROVE  recorded = Versions /\ checkDatabase = [connected |-> TRUE, version |-> 13]
  <2>1. recorded = 1..13 /\ dbOpen = TRUE /\ recorded = Versions  BY <1>2, MigrationList DEF LifeInv
  <2>2. getMigrationVersion = CHOOSE v \in 1..13 : \A w \in 1..13 : w <= v
    <3>1. 1 \in 1..13  OBVIOUS
    <3> QED  BY <2>1, <3>1 DEF getMigrationVersion
  <2>3. \E v \in 1..13 : \A w \in 1..13 : w <= v
    <3>1. 13 \in 1..13 /\ \A w \in 1..13 : w <= 13  OBVIOUS
    <3> QED  BY <3>1
  <2>4. getMigrationVersion \in 1..13 /\ \A w \in 1..13 : w <= getMigrationVersion
    BY <2>2, <2>3
  <2>5. getMigrationVersion = 13  BY <2>4
  <2> QED  BY <2>1, <2>5 DEF checkDatabase
<1> QED  BY <1>1, <1>2 DEF SchemaIsWhole, CleanExitAnswersAll, LifeInv, StartIsOrderly, LoopIsBehind

-----------------------------------------------------------------------------
(***************************************************************************)
(* The connection pool.  A connection is on the stack or with one caller.  *)
(* A waiter that still waits is its caller's only one, so the connection   *)
(* it is handed goes to a caller that holds none.                          *)
(***************************************************************************)

StackIsSound ==
    /\ available \in Seq(Conn)
    /\ \A i, j \in DOMAIN available : available[i] = available[j] => i = j
    /\ active = Cardinality(Conn) - Len(available)

HoldersAreSound ==
    /\ use \in [Caller -> Conn \cup {Idling, Waiting}]
    /\ \A c, d \in Caller : use[c] \in Conn /\ use[c] = use[d] => c = d
    /\ \A c \in Caller, i \in DOMAIN available : use[c] # available[i]

Waiter == [caller : Caller, waits : BOOLEAN]

WaitersAreSound ==
    /\ waiters \in Seq(Waiter)
    /\ \A i \in DOMAIN waiters : waiters[i].waits => use[waiters[i].caller] = Waiting
    /\ \A i, j \in DOMAIN waiters :
          waiters[i].waits /\ waiters[j].waits /\ waiters[i].caller = waiters[j].caller => i = j

ClosedIsEmpty ==
    /\ draining \in BOOLEAN /\ closed \in BOOLEAN
    /\ closed => draining /\ \A c \in Caller : use[c] \notin Conn

PoolInv == StackIsSound /\ HoldersAreSound /\ WaitersAreSound /\ ClosedIsEmpty

LEMMA PoolStarts == PoolInit => PoolInv
<1> SUFFICES ASSUME PoolInit PROVE PoolInv  OBVIOUS
<1> DEFINE n == Cardinality(Conn)
<1>1. n \in Nat /\ ExistsBijection(1..n, Conn)  BY PoolAssumption, FS_CardinalityType
<1>2. \E f \in [1..n -> Conn] : IsInjective(f)
  BY <1>1 DEF ExistsBijection, Bijection, Injection
<1>3. available \in [1..n -> Conn] /\ IsInjective(available)
  BY <1>2 DEF PoolInit, SetToSeq
<1> HIDE DEF n
<1>4. available \in Seq(Conn) /\ Len(available) = n  BY <1>1, <1>3
<1>5. StackIsSound
  <2>1. active = 0  BY DEF PoolInit
  <2>2. Cardinality(Conn) = n  BY DEF n
  <2>3. active = Cardinality(Conn) - Len(available)  BY <1>1, <1>4, <2>1, <2>2
  <2> QED  BY <1>3, <1>4, <2>3 DEF StackIsSound, IsInjective
<1>6. \A i \in DOMAIN available : available[i] \in Conn  BY <1>3
<1>7. HoldersAreSound  BY <1>6, PoolAssumption DEF PoolInit, HoldersAreSound
<1>8. WaitersAreSound  BY DEF PoolInit, WaitersAreSound
<1>9. ClosedIsEmpty  BY DEF PoolInit, ClosedIsEmpty
<1> QED  BY <1>5, <1>7, <1>8, <1>9 DEF PoolInv

\* The ends of a sequence.
LEMMA PopFromStack ==
    ASSUME NEW s \in Seq(Conn), s # << >>
    PROVE  /\ Front(s) \in Seq(Conn) /\ Len(Front(s)) = Len(s) - 1
           /\ Len(s) \in DOMAIN s /\ Last(s) = s[Len(s)] /\ Last(s) \in Conn
           /\ \A i \in DOMAIN Front(s) : i \in DOMAIN s /\ i # Len(s) /\ Front(s)[i] = s[i]
<1>1. Len(s) \in Nat /\ Len(s) # 0 /\ DOMAIN s = 1..Len(s)  OBVIOUS
<1>2. /\ SubSeq(s, 1, Len(s) - 1) \in Seq(Conn) /\ Len(SubSeq(s, 1, Len(s) - 1)) = Len(s) - 1
      /\ \A i \in 1..(Len(s) - 1) : SubSeq(s, 1, Len(s) - 1)[i] = s[i]
  BY <1>1
<1> QED  BY <1>1, <1>2 DEF Front, Last

LEMMA PushOnStack ==
    ASSUME NEW s \in Seq(Conn), NEW k \in Conn
    PROVE  /\ Append(s, k) \in Seq(Conn) /\ Len(Append(s, k)) = Len(s) + 1
           /\ \A i \in DOMAIN Append(s, k) : \/ i \in DOMAIN s /\ Append(s, k)[i] = s[i]
                                             \/ i = Len(s) + 1 /\ Append(s, k)[i] = k
OBVIOUS

LEMMA QueueMoves ==
    ASSUME NEW q \in Seq(Waiter)
    PROVE  /\ \A w \in Waiter :
                 /\ Append(q, w) \in Seq(Waiter)
                 /\ \A i \in DOMAIN Append(q, w) : \/ i \in DOMAIN q /\ Append(q, w)[i] = q[i]
                                                   \/ i = Len(q) + 1 /\ Append(q, w)[i] = w
           /\ q # << >> => /\ Tail(q) \in Seq(Waiter)
                           /\ 1 \in DOMAIN q /\ Head(q) = q[1]
                           /\ \A i \in DOMAIN Tail(q) : i \in Nat /\ i # 0 /\ i + 1 \in DOMAIN q
                                                        /\ Tail(q)[i] = q[i + 1]
<1>1. \A w \in Waiter :
         /\ Append(q, w) \in Seq(Waiter)
         /\ \A i \in DOMAIN Append(q, w) : \/ i \in DOMAIN q /\ Append(q, w)[i] = q[i]
                                           \/ i = Len(q) + 1 /\ Append(q, w)[i] = w
  OBVIOUS
<1>2. q # << >> => /\ Tail(q) \in Seq(Waiter)
                   /\ 1 \in DOMAIN q /\ Head(q) = q[1]
                   /\ \A i \in DOMAIN Tail(q) : i \in Nat /\ i # 0 /\ i + 1 \in DOMAIN q
                                                /\ Tail(q)[i] = q[i + 1]
  OBVIOUS
<1> QED  BY <1>1, <1>2

LEMMA WaitersAreCallers ==
    ASSUME WaitersAreSound
    PROVE  /\ \A i \in DOMAIN waiters : waiters[i] \in Waiter /\ waiters[i].caller \in Caller
           /\ DOMAIN waiters = 1..Len(waiters) /\ Len(waiters) \in Nat
<1>1. \A i \in DOMAIN waiters : waiters[i] \in Waiter  BY DEF WaitersAreSound
<1>2. DOMAIN waiters = 1..Len(waiters) /\ Len(waiters) \in Nat  BY DEF WaitersAreSound
<1> QED  BY <1>1, <1>2 DEF Waiter

LEMMA AcquireKeepsPool ==
    ASSUME PoolInv, NEW c \in Caller, acquire(c)
    PROVE  PoolInv'
<1> USE DEF PoolInv
<1>1. use[c] = Idling /\ ~draining /\ UNCHANGED <<draining, closed>>  BY DEF acquire, Drainage
<1>2. ~closed  BY <1>1 DEF ClosedIsEmpty
<1>3. ClosedIsEmpty'  BY <1>1, <1>2 DEF ClosedIsEmpty
<1>4. CASE available # << >>
  <2> DEFINE k == Last(available)
  <2>1. /\ use' = [use EXCEPT ![c] = k] /\ available' = Front(available) /\ active' = active + 1
        /\ UNCHANGED waiters
    BY <1>4 DEF acquire
  <2>2. /\ Front(available) \in Seq(Conn) /\ Len(Front(available)) = Len(available) - 1
        /\ Len(available) \in DOMAIN available /\ k = available[Len(available)] /\ k \in Conn
        /\ \A i \in DOMAIN Front(available) :
              i \in DOMAIN available /\ i # Len(available) /\ Front(available)[i] = available[i]
    BY <1>4, PopFromStack DEF StackIsSound
  <2> HIDE DEF k
  <2>3. StackIsSound'
    <3>1. Cardinality(Conn) \in Nat /\ Len(available) \in Nat
      BY PoolAssumption, FS_CardinalityType DEF StackIsSound
    <3>2. active' = Cardinality(Conn) - Len(available')  BY <2>1, <2>2, <3>1 DEF StackIsSound
    <3> QED  BY <2>1, <2>2, <3>2 DEF StackIsSound
  <2>4. HoldersAreSound'
    <3>1. \A d \in Caller : use[d] # k  BY <2>2 DEF HoldersAreSound
    <3>2. \A i \in DOMAIN available' : available'[i] # k  BY <2>1, <2>2 DEF StackIsSound
    <3>3. \A d \in Caller : use'[d] = IF d = c THEN k ELSE use[d]  BY <2>1 DEF HoldersAreSound
    <3>4. use' \in [Caller -> Conn \cup {Idling, Waiting}]  BY <2>1, <2>2 DEF HoldersAreSound
    <3>5. \A d, e \in Caller : use'[d] \in Conn /\ use'[d] = use'[e] => d = e
      BY <3>1, <3>3 DEF HoldersAreSound
    <3>6. \A d \in Caller, i \in DOMAIN available' : use'[d] # available'[i]
      BY <2>1, <2>2, <3>2, <3>3 DEF HoldersAreSound
    <3> QED  BY <3>4, <3>5, <3>6 DEF HoldersAreSound
  <2>5. WaitersAreSound'
    <3>1. Waiting # Idling  BY DEF Waiting, Idling
    <3>2. \A i \in DOMAIN waiters : waiters[i].waits => waiters[i].caller # c /\ waiters[i].caller \in Caller
      BY <1>1, <3>1, WaitersAreCallers DEF WaitersAreSound
    <3> QED  BY <2>1, <3>2 DEF WaitersAreSound, HoldersAreSound
  <2> QED  BY <1>3, <2>3, <2>4, <2>5
<1>5. CASE available = << >>
  <2> DEFINE w == [caller |-> c, waits |-> TRUE]
  <2>1. /\ use' = [use EXCEPT ![c] = Waiting] /\ waiters' = Append(waiters, w)
        /\ UNCHANGED <<available, active>>
    BY <1>5 DEF acquire
  <2>2. w \in Waiter /\ w.caller = c  BY DEF Waiter
  <2> HIDE DEF w
  <2>3. /\ waiters' \in Seq(Waiter)
        /\ \A i \in DOMAIN waiters' : \/ i \in DOMAIN waiters /\ waiters'[i] = waiters[i]
                                      \/ i = Len(waiters) + 1 /\ waiters'[i] = w
    BY <2>1, <2>2, QueueMoves DEF WaitersAreSound
  <2>4. Waiting # Idling /\ Waiting \notin Conn /\ Idling \notin Conn  BY PoolAssumption DEF Waiting, Idling
  <2>5. \A i \in DOMAIN waiters : waiters[i].waits => waiters[i].caller # c /\ waiters[i].caller \in Caller
    BY <1>1, <2>4, WaitersAreCallers DEF WaitersAreSound
  <2>6. \A d \in Caller : use'[d] = IF d = c THEN Waiting ELSE use[d]  BY <2>1 DEF HoldersAreSound
  <2>7. WaitersAreSound'
    <3>1. \A i \in DOMAIN waiters' : waiters'[i].waits => use'[waiters'[i].caller] = Waiting
      BY <2>2, <2>3, <2>5, <2>6 DEF WaitersAreSound
    <3>2. \A i, j \in DOMAIN waiters' :
             waiters'[i].waits /\ waiters'[j].waits /\ waiters'[i].caller = waiters'[j].caller => i = j
      BY <2>2, <2>3, <2>5 DEF WaitersAreSound
    <3> QED  BY <2>3, <3>1, <3>2 DEF WaitersAreSound
  <2>8. HoldersAreSound'
    <3>1. use' \in [Caller -> Conn \cup {Idling, Waiting}]  BY <2>1 DEF HoldersAreSound
    <3>2. \A i \in DOMAIN available : available[i] \in Conn  BY DEF StackIsSound
    <3> QED  BY <2>1, <2>4, <2>6, <3>1, <3>2 DEF HoldersAreSound
  <2>9. StackIsSound'  BY <2>1 DEF StackIsSound
  <2> QED  BY <1>3, <2>7, <2>8, <2>9
<1> QED  BY <1>4, <1>5

LEMMA TimeoutKeepsPool ==
    ASSUME PoolInv, NEW c \in Caller, AcquireTimesOut(c)
    PROVE  PoolInv'
<1> USE DEF PoolInv
<1>1. /\ use[c] = Waiting /\ use' = [use EXCEPT ![c] = Idling]
      /\ waiters' = [i \in DOMAIN waiters |->
                       IF waiters[i].caller = c THEN [waiters[i] EXCEPT !.waits = FALSE] ELSE waiters[i]]
      /\ UNCHANGED <<available, active, draining, closed>>
  BY DEF AcquireTimesOut, Drainage
<1>2. Waiting # Idling /\ Waiting \notin Conn /\ Idling \notin Conn  BY PoolAssumption DEF Waiting, Idling
<1>3. \A d \in Caller : use'[d] = IF d = c THEN Idling ELSE use[d]  BY <1>1 DEF HoldersAreSound
<1>4. ASSUME NEW i \in DOMAIN waiters
      PROVE  /\ waiters'[i] \in Waiter /\ waiters'[i].caller = waiters[i].caller
             /\ waiters'[i].waits => waiters[i].waits /\ waiters[i].caller # c
  <2>1. waiters[i] \in Waiter  BY WaitersAreCallers
  <2>2. waiters'[i] = IF waiters[i].caller = c THEN [waiters[i] EXCEPT !.waits = FALSE] ELSE waiters[i]
    BY <1>1
  <2> QED  BY <2>1, <2>2 DEF Waiter
<1>5. waiters' \in Seq(Waiter) /\ DOMAIN waiters' = DOMAIN waiters
  <2>1. DOMAIN waiters = 1..Len(waiters) /\ Len(waiters) \in Nat  BY WaitersAreCallers
  <2>2. waiters' \in [1..Len(waiters) -> Waiter]  BY <1>1, <1>4, <2>1
  <2> QED  BY <2>1, <2>2
<1>6. WaitersAreSound'
  <2>1. \A i \in DOMAIN waiters : waiters[i].caller \in Caller  BY WaitersAreCallers
  <2>2. \A i \in DOMAIN waiters' : waiters'[i].waits => use'[waiters'[i].caller] = Waiting
    BY <1>3, <1>4, <1>5, <2>1 DEF WaitersAreSound
  <2>3. \A i, j \in DOMAIN waiters' :
           waiters'[i].waits /\ waiters'[j].waits /\ waiters'[i].caller = waiters'[j].caller => i = j
    BY <1>4, <1>5 DEF WaitersAreSound
  <2> QED  BY <1>5, <2>2, <2>3 DEF WaitersAreSound
<1>7. HoldersAreSound'
  <2>1. use' \in [Caller -> Conn \cup {Idling, Waiting}]  BY <1>1 DEF HoldersAreSound
  <2>2. \A i \in DOMAIN available : available[i] \in Conn  BY DEF StackIsSound
  <2> QED  BY <1>1, <1>2, <1>3, <2>1, <2>2 DEF HoldersAreSound
<1>8. StackIsSound'  BY <1>1 DEF StackIsSound
<1>9. ClosedIsEmpty'  BY <1>1, <1>2, <1>3 DEF ClosedIsEmpty
<1> QED  BY <1>6, <1>7, <1>8, <1>9

LEMMA ReleaseKeepsPool ==
    ASSUME PoolInv, NEW c \in Caller, release(c)
    PROVE  PoolInv'
<1> USE DEF PoolInv
<1> DEFINE k == use[c]
<1>1. k \in Conn /\ UNCHANGED <<draining, closed>>  BY DEF release, Drainage
<1>2. ~closed  BY <1>1 DEF ClosedIsEmpty
<1>3. ClosedIsEmpty'  BY <1>1, <1>2 DEF ClosedIsEmpty
<1>4. Waiting # Idling /\ Waiting \notin Conn /\ Idling \notin Conn  BY PoolAssumption DEF Waiting, Idling
<1>5. CASE waiters # << >>
  <2> DEFINE h == Head(waiters)
  <2>1. /\ waiters' = Tail(waiters) /\ UNCHANGED <<available, active>>
        /\ use' = [d \in Caller |-> IF h.waits /\ d = h.caller THEN k ELSE IF d = c THEN Idling ELSE use[d]]
    BY <1>5 DEF release
  <2>2. /\ Tail(waiters) \in Seq(Waiter)
        /\ 1 \in DOMAIN waiters /\ h = waiters[1]
        /\ \A i \in DOMAIN Tail(waiters) : /\ i \in Nat /\ i # 0 /\ i + 1 \in DOMAIN waiters
                                           /\ Tail(waiters)[i] = waiters[i + 1]
    BY <1>5, QueueMoves DEF WaitersAreSound
  <2>3. h.caller \in Caller /\ (h.waits => use[h.caller] = Waiting)
    <3>1. h = waiters[1] /\ 1 \in DOMAIN waiters  BY <2>2
    <3> HIDE DEF h
    <3> QED  BY <3>1, WaitersAreCallers DEF WaitersAreSound
  <2> HIDE DEF h, k
  <2>6. \A d \in Caller : use'[d] = IF h.waits /\ d = h.caller THEN k ELSE IF d = c THEN Idling ELSE use[d]
    BY <2>1
  <2>7. use' \in [Caller -> Conn \cup {Idling, Waiting}]  BY <1>1, <2>1 DEF HoldersAreSound
  <2>8. use[c] = k /\ (h.waits => h.caller # c)  BY <1>1, <1>4, <2>3 DEF k
  <2>9. HoldersAreSound'
    <3>1. \A d \in Caller : use[d] = k => d = c  BY <1>1, <2>8 DEF HoldersAreSound
    <3>2. \A d, e \in Caller : use'[d] \in Conn /\ use'[d] = use'[e] => d = e
      BY <1>1, <1>4, <2>6, <2>8, <3>1 DEF HoldersAreSound
    <3>3. \A i \in DOMAIN available : available[i] \in Conn  BY DEF StackIsSound
    <3>4. \A d \in Caller, i \in DOMAIN available : use'[d] # available[i]
      BY <1>4, <2>6, <2>8, <3>3 DEF HoldersAreSound
    <3> QED  BY <2>1, <2>7, <3>2, <3>4 DEF HoldersAreSound
  <2>10. WaitersAreSound'
    <3>1. ASSUME NEW i \in DOMAIN waiters' PROVE waiters'[i].waits => use'[waiters'[i].caller] = Waiting
      <4>1. i + 1 \in DOMAIN waiters /\ waiters'[i] = waiters[i + 1] /\ i + 1 # 1  BY <2>1, <2>2
      <4>2. waiters[i + 1].caller \in Caller  BY <4>1, WaitersAreCallers
      <4>3. waiters[i + 1].waits => /\ use[waiters[i + 1].caller] = Waiting
                                    /\ (h.waits => waiters[i + 1].caller # h.caller)
        BY <2>2, <4>1 DEF WaitersAreSound
      <4>4. waiters[i + 1].waits => waiters[i + 1].caller # c  BY <1>1, <1>4, <2>8, <4>3
      <4> QED  BY <2>6, <4>1, <4>2, <4>3, <4>4
    <3>2. ASSUME NEW i \in DOMAIN waiters', NEW j \in DOMAIN waiters',
                 waiters'[i].waits, waiters'[j].waits, waiters'[i].caller = waiters'[j].caller
          PROVE  i = j
      <4>1. i + 1 \in DOMAIN waiters /\ waiters'[i] = waiters[i + 1] /\ i \in Nat  BY <2>1, <2>2
      <4>2. j + 1 \in DOMAIN waiters /\ waiters'[j] = waiters[j + 1] /\ j \in Nat  BY <2>1, <2>2
      <4>3. i + 1 = j + 1  BY <3>2, <4>1, <4>2 DEF WaitersAreSound
      <4> QED  BY <4>1, <4>2, <4>3
    <3> QED  BY <2>1, <2>2, <3>1, <3>2 DEF WaitersAreSound
  <2>11. StackIsSound'  BY <2>1 DEF StackIsSound
  <2> QED  BY <1>3, <2>9, <2>10, <2>11
<1>6. CASE waiters = << >>
  <2>1. /\ use' = [use EXCEPT ![c] = Idling] /\ available' = Append(available, k) /\ active' = active - 1
        /\ UNCHANGED waiters
    BY <1>6 DEF release
  <2>2. \A d \in Caller : use'[d] = IF d = c THEN Idling ELSE use[d]  BY <2>1 DEF HoldersAreSound
  <2>3. use' \in [Caller -> Conn \cup {Idling, Waiting}]  BY <2>1 DEF HoldersAreSound
  <2>4. \A i \in DOMAIN available : available[i] # k  BY DEF HoldersAreSound
  <2>5. \A d \in Caller : use'[d] # k
    BY <1>1, <1>4, <2>2 DEF HoldersAreSound
  <2> HIDE DEF k
  <2>6. /\ available' \in Seq(Conn) /\ Len(available') = Len(available) + 1
        /\ \A i \in DOMAIN available' : \/ i \in DOMAIN available /\ available'[i] = available[i]
                                        \/ i = Len(available) + 1 /\ available'[i] = k
    BY <1>1, <2>1, PushOnStack DEF StackIsSound
  <2>7. StackIsSound'
    <3>1. Cardinality(Conn) \in Nat /\ Len(available) \in Nat
      BY PoolAssumption, FS_CardinalityType DEF StackIsSound
    <3>2. active' = Cardinality(Conn) - Len(available')  BY <2>1, <2>6, <3>1 DEF StackIsSound
    <3>3. \A i, j \in DOMAIN available' : available'[i] = available'[j] => i = j
      BY <2>4, <2>6 DEF StackIsSound
    <3> QED  BY <2>6, <3>2, <3>3 DEF StackIsSound
  <2>8. HoldersAreSound'
    <3>1. \A d, e \in Caller : use'[d] \in Conn /\ use'[d] = use'[e] => d = e
      BY <1>4, <2>2 DEF HoldersAreSound
    <3>2. \A i \in DOMAIN available : available[i] \in Conn  BY DEF StackIsSound
    <3>3. \A d \in Caller, i \in DOMAIN available' : use'[d] # available'[i]
      BY <1>4, <2>2, <2>5, <2>6, <3>2 DEF HoldersAreSound
    <3> QED  BY <2>3, <3>1, <3>3 DEF HoldersAreSound
  <2>9. WaitersAreSound'  BY <1>6, <2>1 DEF WaitersAreSound
  <2> QED  BY <1>3, <2>7, <2>8, <2>9
<1> QED  BY <1>5, <1>6

\* With nobody counted as active every connection is on the stack.
LEMMA DrainedIsIdle ==
    ASSUME PoolInv, active = 0
    PROVE  \A c \in Caller : use[c] \notin Conn
<1> DEFINE n == Cardinality(Conn)
<1>1. n \in Nat  BY PoolAssumption, FS_CardinalityType
<1>2. available \in Seq(Conn) /\ Len(available) \in Nat /\ active = n - Len(available)
  BY DEF PoolInv, StackIsSound
<1>3. Len(available) = n  BY <1>1, <1>2
<1> HIDE DEF n
<1>4. available \in [1..n -> Conn]  BY <1>2, <1>3
<1>5. available \in Injection(1..n, Conn)
  BY <1>4 DEF PoolInv, StackIsSound, Injection, IsInjective
<1>6. Cardinality(1..n) = n /\ IsFiniteSet(1..n)
  <2>1. 1 \in Int /\ n \in Int  BY <1>1
  <2>2. IsFiniteSet(1..n) /\ Cardinality(1..n) = IF 1 > n THEN 0 ELSE n - 1 + 1  BY <2>1, FS_Interval
  <2> QED  BY <1>1, <2>2
<1>7. available \in Surjection(1..n, Conn)
  <2>1. Cardinality(1..n) = Cardinality(Conn) <=> available \in Surjection(1..n, Conn)
    BY <1>5, PoolAssumption, FS_Injection
  <2> QED  BY <1>6, <2>1 DEF n
<1>8. \A k \in Conn : \E i \in DOMAIN available : available[i] = k
  BY <1>4, <1>7 DEF Surjection
<1> QED  BY <1>8 DEF PoolInv, HoldersAreSound

LEMMA PoolStays ==
    PoolInv /\ UNCHANGED <<available, waiters, use, active, draining, closed>> => PoolInv'
BY DEF PoolInv, StackIsSound, HoldersAreSound, WaitersAreSound, ClosedIsEmpty

LEMMA PoolStep == PoolInv /\ PoolNext => PoolInv'
<1> SUFFICES ASSUME PoolInv, PoolNext PROVE PoolInv'  OBVIOUS
<1> USE ProbeCalls
<1>1. ASSUME NEW c \in Caller, run(c) PROVE PoolInv'
  BY <1>1, AcquireKeepsPool, ReleaseKeepsPool, TimeoutKeepsPool DEF run
<1>2. CASE checkConnectionHealthAsync  BY <1>2, AcquireKeepsPool DEF checkConnectionHealthAsync
<1>3. CASE CheckAnswers  BY <1>3, ReleaseKeepsPool DEF CheckAnswers
<1>4. CASE CheckTimesOut  BY <1>4, TimeoutKeepsPool DEF CheckTimesOut
<1>5. CASE CheckFailsAtOnce \/ _runCheck
  BY <1>5, PoolStays DEF CheckFailsAtOnce, _runCheck, Drainage
<1>6. CASE attemptReconnection
  BY <1>6 DEF attemptReconnection, PoolInv, StackIsSound, HoldersAreSound, WaitersAreSound, ClosedIsEmpty
<1>7. CASE ReconnectionEnds
  <2>1. /\ draining /\ active = 0 /\ closed' = TRUE
        /\ UNCHANGED <<available, waiters, use, active, draining>>
    BY <1>7 DEF ReconnectionEnds, drain
  <2>2. ClosedIsEmpty'  BY <2>1, DrainedIsIdle DEF PoolInv, ClosedIsEmpty
  <2> QED  BY <2>1, <2>2 DEF PoolInv, StackIsSound, HoldersAreSound, WaitersAreSound
<1> QED  BY <1>1, <1>2, <1>3, <1>4, <1>5, <1>6, <1>7 DEF PoolNext

LEMMA PoolIsExclusive == PoolInv => ConnectionsAreExclusive
<1> SUFFICES ASSUME PoolInv PROVE ConnectionsAreExclusive  OBVIOUS
<1>1. ASSUME NEW k \in Conn
      PROVE  Cardinality(Holders(k)) + Cardinality({i \in DOMAIN available : available[i] = k}) <= 1
  <2> DEFINE H == Holders(k)
             A == {i \in DOMAIN available : available[i] = k}
  <2>1. /\ \A c, d \in H : c = d
        /\ \A i, j \in A : i = j
        /\ H = {} \/ A = {}
    BY DEF PoolInv, HoldersAreSound, StackIsSound, Holders
  <2> HIDE DEF H, A
  <2>2. ASSUME NEW S, \A x, y \in S : x = y PROVE S = {} \/ \E x : S = {x}
    <3>1. CASE S # {}
      <4>1. PICK x \in S : TRUE  BY <3>1
      <4>2. S = {x}  BY <2>2, <4>1
      <4> QED  BY <4>2
    <3> QED  BY <3>1
  <2>3. \A S : S = {} \/ (\E x : S = {x}) => Cardinality(S) \in {0, 1} /\ (S = {} => Cardinality(S) = 0)
    BY FS_EmptySet, FS_Singleton
  <2>4. Cardinality(H) \in {0, 1} /\ (H = {} => Cardinality(H) = 0)  BY <2>1, <2>2, <2>3
  <2>5. Cardinality(A) \in {0, 1} /\ (A = {} => Cardinality(A) = 0)  BY <2>1, <2>2, <2>3
  <2>6. Cardinality(H) + Cardinality(A) <= 1  BY <2>1, <2>4, <2>5
  <2> QED  BY <2>6 DEF H, A
<1> QED  BY <1>1 DEF ConnectionsAreExclusive, PoolInv, StackIsSound, ClosedIsEmpty

-----------------------------------------------------------------------------
PlatformInv == PoolInv /\ LifeInv

LEMMA PlatformStep ==
    ASSUME PlatformInv, [BackstageNext]_mcVars
    PROVE  PlatformInv'
<1> USE DEF PlatformInv
<1>1. PoolNext \/ UNCHANGED poolVars
  BY DEF BackstageNext, PlatformNext, mcVars, platformVars
<1>2. LifeNext \/ UNCHANGED lifeVars
  BY DEF BackstageNext, PlatformNext, mcVars, platformVars
<1>3. PoolInv'  BY <1>1, PoolStep, PoolStays DEF poolVars
<1>4. LifeInv'  BY <1>2, LifeStep, LifeStays
<1> QED  BY <1>3, <1>4

\* For any size of the pool, any callers, waits that time out and reconnections, a
\* connection has one user and a drain closes none in use; whatever kills the process,
\* the migrations recorded are those whose SQL took effect, in order, and an exit with
\* 0 has answered every request it admitted (pool.js, core.js, shutdown.js).
THEOREM WorkStaysWhole == BackstageSpec => []WorkIsWhole
<1>1. BackstageInit => PlatformInv
  BY PoolStarts, LifeStarts DEF BackstageInit, PlatformInv
<1>2. PlatformInv /\ [BackstageNext]_mcVars => PlatformInv'  BY PlatformStep
<1>3. PlatformInv => WorkIsWhole
  BY PoolIsExclusive, LifeIsWhole DEF PlatformInv, WorkIsWhole
<1> QED  BY <1>1, <1>2, <1>3, PTL DEF BackstageSpec

-----------------------------------------------------------------------------
(***************************************************************************)
(* Signed requests.  A request whose nonce was accepted, and not pushed    *)
(* out, is either remembered beyond the instant its signature becomes too  *)
(* old, or too old already.  The cache is in order of expiry, so that      *)
(* dropping its first entries drops the expired ones and no other.         *)
(***************************************************************************)

CacheEntry == [nonce : Nonce, expires : Int]

CacheInOrder ==
    /\ nonceCache \in Seq(CacheEntry)
    /\ \A i, j \in DOMAIN nonceCache : i < j => nonceCache[i].expires <= nonceCache[j].expires
    /\ \A i \in DOMAIN nonceCache : nonceCache[i].expires <= instant + NONCE_TTL

TooOldAt(l) == l.timestamp + SIGNATURE_MAX_AGE
Remembered(l, cache) == \E i \in DOMAIN cache : cache[i].nonce = l.nonce /\ cache[i].expires > TooOldAt(l)
Guarded(l) == l.nonce \in pushedOut \/ Remembered(l, nonceCache) \/ instant > TooOldAt(l)

NonceInv ==
    /\ instant \in Int /\ CacheInOrder
    /\ letters \subseteq [nonce : Nonce, timestamp : Int]
    /\ accepted \in [Nonce -> Nat]
    /\ \A l \in letters : l.timestamp <= instant
    /\ \A n \in Nonce : accepted[n] # 0 => \E l \in letters : l.nonce = n
    /\ \A l \in letters : accepted[l.nonce] # 0 => Guarded(l)
    /\ NonceIsUsedOnce

LEMMA NonceStarts == AccessInit => NonceInv
<1> SUFFICES ASSUME AccessInit PROVE NonceInv  OBVIOUS
<1>1. nonceCache = <<>> /\ DOMAIN nonceCache = {} /\ instant = 1 /\ letters = {} /\ pushedOut = {}
      /\ accepted = [n \in Nonce |-> 0]
  BY DEF AccessInit
<1>2. CacheInOrder  BY <1>1 DEF CacheInOrder
<1> QED  BY <1>1, <1>2 DEF NonceInv, NonceIsUsedOnce

LEMMA CacheType ==
    ASSUME NonceInv
    PROVE  /\ nonceCache \in Seq(CacheEntry) /\ instant \in Int
           /\ Len(nonceCache) \in Nat /\ DOMAIN nonceCache = 1..Len(nonceCache)
           /\ \A i \in DOMAIN nonceCache : nonceCache[i] \in CacheEntry /\ nonceCache[i].expires \in Int
<1>1. nonceCache \in Seq(CacheEntry) /\ instant \in Int  BY DEF NonceInv, CacheInOrder
<1>2. \A i \in DOMAIN nonceCache : nonceCache[i] \in CacheEntry  BY <1>1
<1>3. \A x \in CacheEntry : x.expires \in Int  BY DEF CacheEntry
<1> QED  BY <1>1, <1>2, <1>3

\* What is dropped has expired, and what is left keeps its order.
LEMMA EvictionDropsTheExpired ==
    ASSUME NonceInv
    PROVE  /\ evictExpired \in Seq(CacheEntry)
           /\ \A i \in DOMAIN nonceCache : nonceCache[i].expires > instant =>
                 \E j \in DOMAIN evictExpired : evictExpired[j] = nonceCache[i]
           /\ \A j \in DOMAIN evictExpired :
                 /\ evictExpired[j].expires > instant
                 /\ \E i \in DOMAIN nonceCache : evictExpired[j] = nonceCache[i]
           /\ \A i, j \in DOMAIN evictExpired : i < j => evictExpired[i].expires <= evictExpired[j].expires
           /\ \A i \in DOMAIN evictExpired : evictExpired[i].expires <= instant + NONCE_TTL
<1> DEFINE n == Len(nonceCache)
           s == evictExpired
<1>1. /\ nonceCache \in Seq(CacheEntry) /\ n \in Nat /\ DOMAIN nonceCache = 1..n /\ instant \in Int
      /\ \A i \in 1..n : nonceCache[i] \in CacheEntry /\ nonceCache[i].expires \in Int
      /\ \A i, j \in 1..n : i < j => nonceCache[i].expires <= nonceCache[j].expires
      /\ \A i \in 1..n : nonceCache[i].expires <= instant + NONCE_TTL
  BY CacheType DEF NonceInv, CacheInOrder
<1>2. CASE Live = {}
  <2>1. s = <<>> /\ DOMAIN s = {}  BY <1>2 DEF evictExpired
  <2>2. \A i \in DOMAIN nonceCache : ~(nonceCache[i].expires > instant)  BY <1>2 DEF Live
  <2> QED  BY <2>1, <2>2
<1>3. CASE Live # {}
  <2> DEFINE m == Min(Live)
  <2>1. Live \in SUBSET Nat  BY <1>1 DEF Live
  <2>2. m \in Live /\ \A x \in Live : m <= x  BY <1>3, <2>1, LeastNumber DEF Min
  <2>3. s = SubSeq(nonceCache, m, n)  BY <1>3 DEF evictExpired
  <2> HIDE DEF m, s, n
  <2>4. m \in 1..n /\ nonceCache[m].expires > instant  BY <1>1, <2>2 DEF Live
  <2>5. /\ s \in Seq(CacheEntry) /\ DOMAIN s = 1..(n - m + 1)
        /\ \A j \in 1..(n - m + 1) : s[j] = nonceCache[j + m - 1] /\ j + m - 1 \in m..n
    BY <1>1, <2>3, <2>4
  <2>6. \A i \in 1..n : nonceCache[i].expires > instant => i \in m..n  BY <1>1, <2>2 DEF Live
  <2>7. \A i \in m..n : nonceCache[i].expires > instant
    <3> SUFFICES ASSUME NEW i \in m..n PROVE nonceCache[i].expires > instant  OBVIOUS
    <3>1. i = m \/ (m < i /\ i \in 1..n)  BY <1>1, <2>4
    <3>2. nonceCache[m].expires \in Int /\ nonceCache[i].expires \in Int  BY <1>1, <2>4
    <3> QED  BY <1>1, <2>4, <3>1, <3>2
  <2>8. \A i \in 1..n : nonceCache[i].expires > instant => \E j \in DOMAIN s : s[j] = nonceCache[i]
    <3> SUFFICES ASSUME NEW i \in 1..n, nonceCache[i].expires > instant
                 PROVE  \E j \in DOMAIN s : s[j] = nonceCache[i]
      OBVIOUS
    <3> DEFINE j == i - m + 1
    <3>1. j \in 1..(n - m + 1) /\ j + m - 1 = i  BY <1>1, <2>4, <2>6
    <3> HIDE DEF j
    <3>2. s[j] = nonceCache[i]  BY <2>5, <3>1
    <3> QED  BY <2>5, <3>1, <3>2
  <2>9. \A j \in DOMAIN s : /\ s[j].expires > instant /\ s[j].expires <= instant + NONCE_TTL
                            /\ \E i \in DOMAIN nonceCache : s[j] = nonceCache[i]
    <3> SUFFICES ASSUME NEW j \in 1..(n - m + 1)
                 PROVE  /\ s[j].expires > instant /\ s[j].expires <= instant + NONCE_TTL
                        /\ \E i \in 1..n : s[j] = nonceCache[i]
      BY <1>1, <2>5
    <3>1. s[j] = nonceCache[j + m - 1] /\ j + m - 1 \in m..n /\ j + m - 1 \in 1..n  BY <1>1, <2>4, <2>5
    <3> QED  BY <1>1, <2>7, <3>1
  <2>10. \A i, j \in DOMAIN s : i < j => s[i].expires <= s[j].expires
    <3> SUFFICES ASSUME NEW i \in 1..(n - m + 1), NEW j \in 1..(n - m + 1), i < j
                 PROVE  s[i].expires <= s[j].expires
      BY <2>5
    <3>1. /\ s[i] = nonceCache[i + m - 1] /\ i + m - 1 \in 1..n
          /\ s[j] = nonceCache[j + m - 1] /\ j + m - 1 \in 1..n /\ i + m - 1 < j + m - 1
      BY <1>1, <2>4, <2>5
    <3> QED  BY <1>1, <3>1
  <2> QED  BY <1>1, <2>5, <2>8, <2>9, <2>10 DEF s, n
<1> QED  BY <1>2, <1>3

\* A nonce that is remembered long enough is seen.
LEMMA RememberedIsSeen ==
    ASSUME NonceInv, NEW l \in letters, Remembered(l, nonceCache), ~(instant > TooOldAt(l))
    PROVE  isNonceSeen(l.nonce)
<1>1. PICK i \in DOMAIN nonceCache : nonceCache[i].nonce = l.nonce /\ nonceCache[i].expires > TooOldAt(l)
  BY DEF Remembered
<1>2. nonceCache[i].expires \in Int  BY CacheType
<1>3. instant \in Int /\ TooOldAt(l) \in Int
  BY NoncesOutliveSignatures DEF NonceInv, TooOldAt
<1>4. nonceCache[i].expires > instant  BY <1>1, <1>2, <1>3
<1>5. PICK j \in DOMAIN evictExpired : evictExpired[j] = nonceCache[i]
  BY <1>4, EvictionDropsTheExpired
<1> QED  BY <1>1, <1>5 DEF isNonceSeen

\* Eviction forgets no letter that could still be accepted.
LEMMA EvictionKeepsGuard ==
    ASSUME NonceInv, NEW l \in letters, Guarded(l)
    PROVE  l.nonce \in pushedOut \/ Remembered(l, evictExpired) \/ instant > TooOldAt(l)
<1>1. CASE Remembered(l, nonceCache)
  <2>1. PICK i \in DOMAIN nonceCache : nonceCache[i].nonce = l.nonce /\ nonceCache[i].expires > TooOldAt(l)
    BY <1>1 DEF Remembered
  <2>2. nonceCache[i].expires \in Int  BY CacheType
  <2>3. instant \in Int /\ TooOldAt(l) \in Int
    BY NoncesOutliveSignatures DEF NonceInv, TooOldAt
  <2>4. CASE nonceCache[i].expires > instant
    <3>1. PICK j \in DOMAIN evictExpired : evictExpired[j] = nonceCache[i]
      BY <2>4, EvictionDropsTheExpired
    <3> QED  BY <2>1, <3>1 DEF Remembered
  <2> QED  BY <2>1, <2>2, <2>3, <2>4
<1> QED  BY <1>1 DEF Guarded

LEMMA RecordingKeepsOrder ==
    ASSUME NonceInv, NEW n \in Nonce, recordNonce(n), UNCHANGED instant
    PROVE  /\ CacheInOrder'
           /\ pushedOut \subseteq pushedOut'
           /\ \E i \in DOMAIN nonceCache' : /\ nonceCache'[i].nonce = n
                                            /\ nonceCache'[i].expires = instant + NONCE_TTL
           /\ \A l \in letters : Remembered(l, evictExpired) => l.nonce \in pushedOut' \/ Remembered(l, nonceCache')
<1> DEFINE kept == evictExpired
           full == Len(kept) >= NONCE_MAX_ENTRIES
           rest == IF full THEN Tail(kept) ELSE kept
           e == [nonce |-> n, expires |-> instant + NONCE_TTL]
           k == Len(kept)
           r == Len(rest)
<1>1. /\ nonceCache' = Append(rest, e)
      /\ pushedOut' = IF full THEN pushedOut \cup {Head(kept).nonce} ELSE pushedOut
  BY DEF recordNonce
<1>2. /\ kept \in Seq(CacheEntry)
      /\ \A i \in DOMAIN kept : kept[i].expires > instant /\ kept[i].expires <= instant + NONCE_TTL
      /\ \A i, j \in DOMAIN kept : i < j => kept[i].expires <= kept[j].expires
  BY EvictionDropsTheExpired
<1>3. instant \in Int /\ NONCE_TTL \in Int /\ NONCE_MAX_ENTRIES \in Nat \ {0}
  BY NoncesOutliveSignatures DEF NonceInv
<1>4. e \in CacheEntry /\ e.expires = instant + NONCE_TTL /\ e.nonce = n  BY <1>3 DEF CacheEntry
<1> HIDE DEF kept, e
<1>5. k \in Nat /\ DOMAIN kept = 1..k /\ (full => kept # <<>> /\ Head(kept) = kept[1] /\ k >= 1)
  BY <1>2, <1>3
<1>6. rest = (IF full THEN Tail(kept) ELSE kept)  OBVIOUS
<1>7. full \in BOOLEAN  BY <1>3, <1>5
<1> HIDE DEF rest, full
<1>8. rest \in Seq(CacheEntry)  BY <1>2, <1>5, <1>6
<1>9. /\ rest \in Seq(CacheEntry) /\ DOMAIN rest = 1..r /\ r \in Nat
      /\ full => r = k - 1 /\ \A i \in 1..(k - 1) : rest[i] = kept[i + 1]
      /\ ~full => rest = kept
  <2>1. DOMAIN rest = 1..r /\ r \in Nat  BY <1>8
  <2>2. ASSUME full PROVE r = k - 1 /\ \A i \in 1..(k - 1) : rest[i] = kept[i + 1]
    <3>1. rest = Tail(kept) /\ kept # <<>>  BY <1>5, <1>6, <2>2
    <3> QED  BY <1>2, <1>5, <3>1
  <2>3. ~full => rest = kept  BY <1>6
  <2> QED  BY <1>8, <2>1, <2>2, <2>3
<1> HIDE DEF k, r
<1> DEFINE cache == Append(rest, e)
<1>10. /\ cache \in Seq(CacheEntry) /\ DOMAIN cache = 1..(r + 1)
       /\ \A i \in 1..r : cache[i] = rest[i]
       /\ cache[r + 1] = e
  BY <1>4, <1>9 DEF r
<1>11. \A i \in 1..r : \E j \in DOMAIN kept : rest[i] = kept[j]
  BY <1>5, <1>9
<1>12. \A i, j \in 1..r : i < j => rest[i].expires <= rest[j].expires
  <2> SUFFICES ASSUME NEW i \in 1..r, NEW j \in 1..r, i < j PROVE rest[i].expires <= rest[j].expires
    OBVIOUS
  <2>1. CASE full
    <3>1. i + 1 \in DOMAIN kept /\ j + 1 \in DOMAIN kept /\ i + 1 < j + 1
          /\ rest[i] = kept[i + 1] /\ rest[j] = kept[j + 1]
      BY <1>5, <1>9, <2>1
    <3> QED  BY <1>2, <3>1
  <2>2. CASE ~full  BY <1>2, <1>5, <1>9, <2>2
  <2> QED  BY <2>1, <2>2
<1>13. \A l \in letters : Remembered(l, kept) =>
          (full /\ l.nonce = Head(kept).nonce) \/ \E i \in 1..r : rest[i].nonce = l.nonce /\ rest[i].expires > TooOldAt(l)
  <2> SUFFICES ASSUME NEW l \in letters, NEW j \in DOMAIN kept,
                      kept[j].nonce = l.nonce /\ kept[j].expires > TooOldAt(l)
               PROVE  \/ full /\ l.nonce = Head(kept).nonce
                      \/ \E i \in 1..r : rest[i].nonce = l.nonce /\ rest[i].expires > TooOldAt(l)
    BY DEF Remembered
  <2>1. CASE full /\ j = 1  BY <1>5, <2>1
  <2>2. CASE full /\ j # 1
    <3>1. j - 1 \in 1..(k - 1) /\ (j - 1) + 1 = j  BY <1>5, <2>2
    <3>2. rest[j - 1] = kept[j] /\ j - 1 \in 1..r  BY <1>9, <2>2, <3>1
    <3> QED  BY <3>2
  <2>3. CASE ~full  BY <1>5, <1>9, <2>3
  <2> QED  BY <2>1, <2>2, <2>3
<1>14. nonceCache' = cache  BY <1>1 DEF rest, full
<1> HIDE DEF cache
<1>15. \A i \in 1..r : rest[i].expires <= instant + NONCE_TTL  BY <1>2, <1>11
<1>16. CacheInOrder'
  <2>1. \A i \in DOMAIN cache : cache[i].expires <= instant + NONCE_TTL
    <3> SUFFICES ASSUME NEW i \in 1..(r + 1) PROVE cache[i].expires <= instant + NONCE_TTL  BY <1>10
    <3>1. CASE i \in 1..r  BY <1>10, <1>15, <3>1
    <3>2. CASE i = r + 1  BY <1>3, <1>4, <1>10, <3>2
    <3> QED  BY <1>9, <3>1, <3>2
  <2>2. \A i, j \in DOMAIN cache : i < j => cache[i].expires <= cache[j].expires
    <3> SUFFICES ASSUME NEW i \in 1..(r + 1), NEW j \in 1..(r + 1), i < j
                 PROVE  cache[i].expires <= cache[j].expires
      BY <1>10
    <3>1. i \in 1..r  BY <1>9
    <3>2. CASE j \in 1..r  BY <1>10, <1>12, <3>1, <3>2
    <3>3. CASE j = r + 1  BY <1>4, <1>10, <1>15, <3>1, <3>3
    <3> QED  BY <1>9, <3>2, <3>3
  <2> QED  BY <1>10, <1>14, <2>1, <2>2 DEF CacheInOrder
<1>17. r + 1 \in DOMAIN cache  BY <1>9, <1>10
<1>18. \A l \in letters : Remembered(l, kept) => l.nonce \in pushedOut' \/ Remembered(l, cache)
  <2> SUFFICES ASSUME NEW l \in letters, Remembered(l, kept), l.nonce \notin pushedOut'
               PROVE  Remembered(l, cache)
    OBVIOUS
  <2>1. ~(full /\ l.nonce = Head(kept).nonce)  BY <1>1 DEF full
  <2>2. PICK i \in 1..r : rest[i].nonce = l.nonce /\ rest[i].expires > TooOldAt(l)  BY <1>13, <2>1
  <2>3. i \in DOMAIN cache /\ cache[i] = rest[i]  BY <1>9, <1>10
  <2> QED  BY <2>2, <2>3 DEF Remembered
<1>19. pushedOut \subseteq pushedOut'  BY <1>1
<1> QED  BY <1>4, <1>10, <1>14, <1>16, <1>17, <1>18, <1>19 DEF kept

\* An accepted request was new, or had been pushed out.
LEMMA AcceptingKeepsNonces ==
    ASSUME NonceInv, NEW l \in letters, verifyRequestSignature(l)
    PROVE  NonceInv'
<1> DEFINE n == l.nonce
<1>1. /\ instant - l.timestamp >= 0 /\ instant - l.timestamp <= SIGNATURE_MAX_AGE
      /\ ~isNonceSeen(n) /\ recordNonce(n)
      /\ accepted' = [accepted EXCEPT ![n] = @ + 1]
      /\ instant' = instant /\ letters' = letters
  BY DEF verifyRequestSignature
<1>2. /\ instant \in Int /\ letters \subseteq [nonce : Nonce, timestamp : Int] /\ accepted \in [Nonce -> Nat]
      /\ \A m \in letters : m.timestamp <= instant
      /\ \A k \in Nonce : accepted[k] # 0 => \E m \in letters : m.nonce = k
      /\ \A m \in letters : accepted[m.nonce] # 0 => Guarded(m)
      /\ NonceIsUsedOnce
  BY DEF NonceInv
<1>3. n \in Nonce /\ l.timestamp \in Int  BY <1>2
<1>4. SIGNATURE_MAX_AGE \in Int /\ NONCE_TTL \in Int /\ NONCE_TTL > SIGNATURE_MAX_AGE  BY NoncesOutliveSignatures
<1>5. ~(instant > TooOldAt(l))  BY <1>1, <1>2, <1>3, <1>4 DEF TooOldAt
<1>6. /\ CacheInOrder'
      /\ pushedOut \subseteq pushedOut'
      /\ \E i \in DOMAIN nonceCache' : /\ nonceCache'[i].nonce = n
                                       /\ nonceCache'[i].expires = instant + NONCE_TTL
      /\ \A m \in letters : Remembered(m, evictExpired) => m.nonce \in pushedOut' \/ Remembered(m, nonceCache')
  BY <1>1, <1>3, RecordingKeepsOrder
<1>7. accepted[n] = 0 \/ n \in pushedOut
  BY <1>1, <1>2, <1>5, RememberedIsSeen DEF Guarded
<1> HIDE DEF n
<1>8. accepted' \in [Nonce -> Nat] /\ accepted'[n] = accepted[n] + 1
      /\ \A k \in Nonce : k # n => accepted'[k] = accepted[k]
  BY <1>1, <1>2, <1>3
<1>9. ASSUME NEW m \in letters', accepted'[m.nonce] # 0
      PROVE  m.nonce \in pushedOut' \/ Remembered(m, nonceCache') \/ instant > TooOldAt(m)
  <2>1. m \in letters /\ m.nonce \in Nonce /\ m.timestamp \in Int /\ m.timestamp <= instant  BY <1>1, <1>2, <1>9
  <2>2. CASE m.nonce = n
    <3>1. instant + NONCE_TTL > TooOldAt(m)  BY <1>2, <1>4, <2>1 DEF TooOldAt
    <3> QED  BY <1>6, <2>2, <3>1 DEF Remembered
  <2>3. CASE m.nonce # n
    <3>1. Guarded(m)  BY <1>2, <1>8, <1>9, <2>1, <2>3
    <3>2. m.nonce \in pushedOut \/ Remembered(m, evictExpired) \/ instant > TooOldAt(m)
      BY <2>1, <3>1, EvictionKeepsGuard
    <3> QED  BY <1>6, <2>1, <3>2
  <2> QED  BY <2>2, <2>3
<1>10. \A m \in letters' : accepted'[m.nonce] # 0 => Guarded(m)'
  BY <1>1, <1>9 DEF Guarded, TooOldAt, Remembered
<1>11. NonceIsUsedOnce'
  <2> SUFFICES ASSUME NEW k \in Nonce PROVE accepted'[k] <= 1 \/ k \in pushedOut'  BY DEF NonceIsUsedOnce
  <2>1. CASE k = n  BY <1>6, <1>7, <1>8, <2>1
  <2>2. CASE k # n  BY <1>2, <1>6, <1>8, <2>2 DEF NonceIsUsedOnce
  <2> QED  BY <2>1, <2>2
<1>12. \A k \in Nonce : accepted'[k] # 0 => \E m \in letters' : m.nonce = k
  BY <1>1, <1>2, <1>8 DEF n
<1> QED  BY <1>1, <1>2, <1>6, <1>8, <1>10, <1>11, <1>12 DEF NonceInv

LEMMA RefusingKeepsNonces ==
    ASSUME NonceInv, NEW l \in letters, RefusesSignature(l)
    PROVE  NonceInv'
<1>1. /\ instant' = instant /\ letters' = letters /\ accepted' = accepted /\ pushedOut' = pushedOut
      /\ nonceCache' = nonceCache \/ nonceCache' = evictExpired
  BY DEF RefusesSignature
<1>2. CASE nonceCache' = nonceCache
  BY <1>1, <1>2 DEF NonceInv, CacheInOrder, NonceIsUsedOnce, Guarded, Remembered, TooOldAt
<1>3. CASE nonceCache' = evictExpired
  <2>1. CacheInOrder'
    <3>1. /\ evictExpired \in Seq(CacheEntry)
          /\ \A i, j \in DOMAIN evictExpired : i < j => evictExpired[i].expires <= evictExpired[j].expires
          /\ \A i \in DOMAIN evictExpired : evictExpired[i].expires <= instant + NONCE_TTL
      BY EvictionDropsTheExpired
    <3> HIDE DEF evictExpired
    <3> QED  BY <1>1, <1>3, <3>1 DEF CacheInOrder
  <2>2. \A m \in letters : Guarded(m) =>
           m.nonce \in pushedOut \/ Remembered(m, evictExpired) \/ instant > TooOldAt(m)
    BY EvictionKeepsGuard
  <2>3. ASSUME NEW m \in letters, Guarded(m) PROVE Guarded(m)'
    <3>1. m.nonce \in pushedOut' \/ Remembered(m, nonceCache') \/ instant' > TooOldAt(m)  BY <1>1, <1>3, <2>2, <2>3
    <3> QED  BY <3>1 DEF Guarded, Remembered, TooOldAt
  <2> QED  BY <1>1, <2>1, <2>3 DEF NonceInv, NonceIsUsedOnce
<1> QED  BY <1>1, <1>2, <1>3

LEMMA NonceStep ==
    ASSUME NonceInv, NonceNext \/ UNCHANGED nonceVars
    PROVE  NonceInv'
<1>1. CASE UNCHANGED nonceVars
  BY <1>1 DEF nonceVars, NonceInv, CacheInOrder, NonceIsUsedOnce, Guarded, Remembered, TooOldAt
<1>2. CASE InstantPasses
  <2>1. /\ instant' = instant + 1 /\ nonceCache' = nonceCache /\ letters' = letters
        /\ accepted' = accepted /\ pushedOut' = pushedOut
    BY <1>2 DEF InstantPasses
  <2>2. instant \in Int /\ NONCE_TTL \in Int /\ letters \subseteq [nonce : Nonce, timestamp : Int] /\ CacheInOrder
    BY NoncesOutliveSignatures DEF NonceInv
  <2>3. CacheInOrder'
    <3>1. \A i \in DOMAIN nonceCache : nonceCache[i].expires <= instant + 1 + NONCE_TTL
      BY <2>2, CacheType DEF CacheInOrder
    <3> QED  BY <2>1, <2>2, <3>1 DEF CacheInOrder
  <2>4. ASSUME NEW m \in letters, Guarded(m) PROVE Guarded(m)'
    <3>1. TooOldAt(m) \in Int  BY <2>2, NoncesOutliveSignatures DEF TooOldAt
    <3>2. m.nonce \in pushedOut \/ Remembered(m, nonceCache) \/ instant + 1 > TooOldAt(m)
      BY <2>2, <2>4, <3>1 DEF Guarded
    <3> QED  BY <2>1, <3>2 DEF Guarded, Remembered, TooOldAt
  <2>5. \A m \in letters : m.timestamp <= instant + 1  BY <2>2 DEF NonceInv
  <2> QED  BY <2>1, <2>2, <2>3, <2>4, <2>5 DEF NonceInv, NonceIsUsedOnce
<1>3. CASE \E l \in letters : verifyRequestSignature(l)  BY <1>3, AcceptingKeepsNonces
<1>4. CASE \E l \in letters : RefusesSignature(l)  BY <1>4, RefusingKeepsNonces
<1>5. ASSUME NEW n \in Nonce, ClientSigns(n) PROVE NonceInv'
  <2> DEFINE new == [nonce |-> n, timestamp |-> instant]
  <2>1. /\ \A l \in letters : l.nonce # n
        /\ letters' = letters \cup {new} /\ instant' = instant /\ nonceCache' = nonceCache
        /\ accepted' = accepted /\ pushedOut' = pushedOut
    BY <1>5 DEF ClientSigns
  <2>2. new \in [nonce : Nonce, timestamp : Int] /\ new.nonce = n /\ new.timestamp = instant /\ instant <= instant
    BY DEF NonceInv
  <2>3. accepted[n] = 0  BY <2>1 DEF NonceInv
  <2> HIDE DEF new
  <2>4. CacheInOrder'  BY <2>1 DEF NonceInv, CacheInOrder
  <2>5. \A m \in letters' : accepted'[m.nonce] # 0 => m \in letters /\ Guarded(m)
    BY <2>1, <2>2, <2>3 DEF NonceInv
  <2>6. \A m \in letters' : accepted'[m.nonce] # 0 => Guarded(m)'
    BY <2>1, <2>5 DEF Guarded, Remembered, TooOldAt
  <2>7. letters' \subseteq [nonce : Nonce, timestamp : Int] /\ \A m \in letters' : m.timestamp <= instant
    BY <2>1, <2>2 DEF NonceInv
  <2>8. NonceIsUsedOnce' /\ \A k \in Nonce : accepted'[k] # 0 => \E m \in letters' : m.nonce = k
    BY <2>1 DEF NonceInv, NonceIsUsedOnce
  <2>9. instant' \in Int /\ accepted' \in [Nonce -> Nat]  BY <2>1 DEF NonceInv
  <2> QED  BY <2>1, <2>4, <2>6, <2>7, <2>8, <2>9 DEF NonceInv
<1> QED  BY <1>1, <1>2, <1>3, <1>4, <1>5 DEF NonceNext, verifySignatureMiddleware

-----------------------------------------------------------------------------
(***************************************************************************)
(* The server's key.  Key and source are assigned together, from a secret  *)
(* that the source gave and that parsed.                                   *)
(***************************************************************************)

KeyInv ==
    /\ offered \in [Source -> SUBSET Secret]
    /\ \/ activeKeypair = None /\ lastRotationSource = None
       \/ lastRotationSource \in Source /\ activeKeypair \in offered[lastRotationSource]

\* No source is called "none".
LEMMA SourcesAreNamed == None \notin Source
  BY DEF Source, None

LEMMA KeyStarts == AccessInit => KeyInv
  BY DEF AccessInit, KeyInv

LEMMA RotationKeepsKey ==
    ASSUME KeyInv, NEW secret, NEW source \in Source,
           rotateSigningKey(secret, source), OffersWhenGood(source, secret)
    PROVE  KeyInv'
<1>1. CASE ~Parses(secret)  BY <1>1 DEF rotateSigningKey, OffersWhenGood, KeyInv
<1>2. CASE Parses(secret)
  <2>1. /\ activeKeypair' = secret /\ lastRotationSource' = source
        /\ offered' = [offered EXCEPT ![source] = @ \cup {secret}]
    BY <1>2 DEF rotateSigningKey, OffersWhenGood
  <2>2. secret \in Secret  BY <1>2, GoodSecrets DEF Parses
  <2>3. offered' \in [Source -> SUBSET Secret] /\ secret \in offered'[source]  BY <2>1, <2>2 DEF KeyInv
  <2> QED  BY <2>1, <2>3 DEF KeyInv
<1> QED  BY <1>1, <1>2

LEMMA KeyStep ==
    ASSUME KeyInv, KeyNext \/ UNCHANGED keyVars
    PROVE  KeyInv'
<1> USE DEF Source
<1>1. CASE UNCHANGED keyVars  BY <1>1 DEF keyVars, KeyInv
<1>2. CASE initializeSigningKey
  <2>1. /\ activeKeypair' = provider /\ lastRotationSource' = "provider"
        /\ offered' = [offered EXCEPT !["provider"] = @ \cup {provider}]
        /\ provider \in Secret
    BY <1>2, GoodSecrets DEF initializeSigningKey, Parses
  <2>2. offered' \in [Source -> SUBSET Secret] /\ provider \in offered'["provider"]  BY <2>1 DEF KeyInv
  <2> QED  BY <2>1, <2>2 DEF KeyInv
<1>3. CASE ProviderChanges \/ loadSigningSecret \/ ReloadFails
  BY <1>3 DEF ProviderChanges, loadSigningSecret, ReloadFails, KeyInv
<1>4. CASE reloadSigningKeyFromSecretsProvider
  <2>1. rotateSigningKey(reload, "secrets_reload") /\ OffersWhenGood("secrets_reload", reload)
    BY <1>4 DEF reloadSigningKeyFromSecretsProvider
  <2> QED  BY <2>1, RotationKeepsKey
<1>5. CASE reloadSigningKeyFromSecretsFile
  <2>1. rotateSigningKey(provider, "file_reload") /\ OffersWhenGood("file_reload", provider)
    BY <1>5 DEF reloadSigningKeyFromSecretsFile
  <2> QED  BY <2>1, RotationKeepsKey
<1>6. CASE \E s \in Secret : PostRotateKey(s)
  <2>1. PICK s \in Secret : rotateSigningKey(s, "api") /\ OffersWhenGood("api", s)
    BY <1>6 DEF PostRotateKey
  <2> QED  BY <2>1, RotationKeepsKey
<1> QED  BY <1>1, <1>2, <1>3, <1>4, <1>5, <1>6 DEF KeyNext

LEMMA KeyHolds == KeyInv => KeyCameFromItsSource
<1> SUFFICES ASSUME KeyInv PROVE KeyCameFromItsSource  OBVIOUS
<1>1. CASE activeKeypair = None /\ lastRotationSource = None
  <2>1. ~getSigningKeyStatus.configured  BY <1>1 DEF getSigningKeyStatus
  <2> QED  BY <1>1, <2>1 DEF KeyCameFromItsSource
<1>2. CASE lastRotationSource \in Source /\ activeKeypair \in offered[lastRotationSource]
  <2>1. lastRotationSource # None  BY <1>2, SourcesAreNamed
  <2>2. activeKeypair \in Secret  BY <1>2 DEF KeyInv
  <2>3. getSigningKeyStatus.configured  BY <2>2, GoodSecrets DEF getSigningKeyStatus
  <2> QED  BY <1>2, <2>1, <2>3 DEF KeyCameFromItsSource
<1> QED  BY <1>1, <1>2 DEF KeyInv

-----------------------------------------------------------------------------
(***************************************************************************)
(* The meters of API keys.  Every cell counts at least one request, no     *)
(* more of them blocked, and all cells together no more than was metered.  *)
(***************************************************************************)

CellsOK ==
    /\ IsFiniteSet(DOMAIN events)
    /\ \A c \in DOMAIN events : c[2] \in Int
    /\ \A c \in DOMAIN events : /\ events[c].requests \in Nat /\ events[c].blocked \in Nat
                                /\ events[c].requests >= 1 /\ events[c].blocked <= events[c].requests

MeterInv ==
    /\ minute \in Int /\ metered \in Nat
    /\ DOMAIN keyRows \subseteq ApiKey
    /\ CellsOK
    /\ Requests(DOMAIN events) <= metered

LEMMA MeterStarts == AccessInit => MeterInv
<1> SUFFICES ASSUME AccessInit PROVE MeterInv  OBVIOUS
<1>1. keyRows = <<>> /\ DOMAIN keyRows = {} /\ events = <<>> /\ DOMAIN events = {} /\ minute = 1 /\ metered = 0
  BY DEF AccessInit
<1>2. Requests({}) = 0  BY SumEmpty DEF Requests
<1>3. CellsOK  BY <1>1, FS_EmptySet DEF CellsOK
<1> QED  BY <1>1, <1>2, <1>3 DEF MeterInv

\* The figures of a set of cells are numbers; there are no more cells, and no more
\* blocked requests, than requests; and a part of the cells has no more of them.
LEMMA CellFigures ==
    ASSUME CellsOK, NEW T \in SUBSET DOMAIN events
    PROVE  /\ Requests(T) \in Nat /\ Blocked(T) \in Nat /\ Cardinality(T) \in Nat
           /\ Blocked(T) <= Requests(T) /\ Cardinality(T) <= Requests(T)
           /\ \A P \in SUBSET T : Requests(P) <= Requests(T)
<1> DEFINE f == [c \in DOMAIN events |-> events[c].requests]
           g == [c \in DOMAIN events |-> events[c].blocked]
           one == [c \in T |-> 1]
<1>1. IsFiniteSet(T) /\ \A P \in SUBSET T : IsFiniteSet(P)  BY FS_Subset DEF CellsOK
<1>2. \A c \in T : f[c] \in Nat /\ g[c] \in Nat /\ one[c] = 1 /\ 1 <= f[c] /\ g[c] <= f[c]  BY DEF CellsOK
<1>3. \A S : Requests(S) = SumFunctionOnSet(f, S) /\ Blocked(S) = SumFunctionOnSet(g, S)
  BY DEF Requests, Blocked
<1> HIDE DEF f, g, one
<1>4. IntsOn(f, T) /\ IntsOn(g, T) /\ IntsOn(one, T)  BY <1>2 DEF IntsOn
<1>5. SumFunctionOnSet(f, T) \in Nat /\ SumFunctionOnSet(g, T) \in Nat  BY <1>1, <1>2, SumNonNegative
<1>6. SumFunctionOnSet(g, T) <= SumFunctionOnSet(f, T)  BY <1>1, <1>2, <1>4, SumCompares
<1>7. SumFunctionOnSet(one, T) = Cardinality(T)  BY <1>1, <1>2, SumOfOnes
<1>8. \A c \in T : one[c] <= f[c]  BY <1>2
<1>9. SumFunctionOnSet(one, T) <= SumFunctionOnSet(f, T)  BY <1>1, <1>4, <1>8, SumCompares
<1>10. \A P \in SUBSET T : SumFunctionOnSet(f, P) <= SumFunctionOnSet(f, T)  BY <1>1, <1>2, SumOfPart
<1>11. Cardinality(T) \in Nat  BY <1>1, FS_CardinalityType
<1> QED  BY <1>3, <1>5, <1>6, <1>7, <1>9, <1>10, <1>11

\* A request more is one request more, less what is pruned.
LEMMA RequestIsCounted ==
    ASSUME MeterInv, NEW k \in ApiKey, NEW blocked \in BOOLEAN, recordApiKeyRequest(k, blocked)
    PROVE  MeterInv'
<1> DEFINE cell == <<k, minute>>
           D == DOMAIN events
           E == {c \in D \cup {cell} : ~Old(c)}
           old == Count(cell)
           new == [requests |-> old.requests + 1, blocked |-> old.blocked + (IF blocked THEN 1 ELSE 0)]
           f == [c \in D |-> events[c].requests]
           g == [c \in E |-> events'[c].requests]
<1>1. /\ minute \in Int /\ metered \in Nat /\ metered' = metered + 1 /\ minute' = minute
      /\ CellsOK /\ Requests(D) <= metered /\ DOMAIN keyRows \subseteq ApiKey
      /\ DOMAIN keyRows' = DOMAIN keyRows \cup {k}
  BY DEF MeterInv, recordApiKeyRequest, upsertKey
<1>2. events' = [c \in E |-> IF c # cell THEN events[c] ELSE new]
  BY DEF recordApiKeyRequest, upsertEvent
<1>3. cell \in E
  <2>1. ~(minute < minute - HistoryMinutes)  BY <1>1, MeterAssumption
  <2> QED  BY <2>1 DEF Old
<1>4. E \ {cell} \subseteq D \ {cell}  OBVIOUS
<1>5. /\ old.requests \in Nat /\ old.blocked \in Nat /\ old.blocked <= old.requests
      /\ cell \in D => old = events[cell]
      /\ cell \notin D => old.requests = 0
  BY <1>1 DEF Count, CellsOK
<1> HIDE DEF old
<1>6. new.requests = old.requests + 1 /\ new.blocked = old.blocked + (IF blocked THEN 1 ELSE 0)  OBVIOUS
<1> HIDE DEF new
<1>7. /\ new.requests \in Nat /\ new.blocked \in Nat /\ new.requests >= 1 /\ new.blocked <= new.requests
  BY <1>5, <1>6
<1>8. IsFiniteSet(D) /\ IsFiniteSet(E)
  <2>1. IsFiniteSet(D \cup {cell})  BY <1>1, FS_AddElement DEF CellsOK
  <2> QED  BY <1>1, <2>1, FS_Subset DEF CellsOK
<1>9. \A c \in E : c[2] \in Int  BY <1>1 DEF CellsOK
<1> HIDE DEF cell, E
<1>10. DOMAIN events' = E /\ events'[cell] = new /\ \A c \in E \ {cell} : events'[c] = events[c]
  BY <1>2, <1>3
<1>11. CellsOK'
  <2> SUFFICES ASSUME NEW c \in E
               PROVE  /\ events'[c].requests \in Nat /\ events'[c].blocked \in Nat
                      /\ events'[c].requests >= 1 /\ events'[c].blocked <= events'[c].requests
    BY <1>8, <1>10, <1>9 DEF CellsOK
  <2>1. CASE c = cell  BY <1>7, <1>10, <2>1
  <2>2. CASE c # cell  BY <1>1, <1>4, <1>10, <2>2 DEF CellsOK
  <2> QED  BY <2>1, <2>2
<1>12. /\ \A c \in D : f[c] \in Nat
       /\ g[cell] = new.requests
       /\ \A c \in E \ {cell} : g[c] = f[c]
       /\ \A c \in E : g[c] \in Nat
  BY <1>1, <1>3, <1>4, <1>7, <1>10, <1>11 DEF CellsOK
<1>13. Requests(D) = SumFunctionOnSet(f, D)  BY DEF Requests
<1>14. (Requests(DOMAIN events))' = SumFunctionOnSet(g, E)  BY <1>10 DEF Requests
<1>15. cell \in D => f[cell] = old.requests  BY <1>5
<1> HIDE DEF f, g, D
<1>16. IntsOn(f, D) /\ IntsOn(g, E)  BY <1>12 DEF IntsOn
<1>17. SumFunctionOnSet(g, E) = new.requests + SumFunctionOnSet(g, E \ {cell})
  BY <1>3, <1>8, <1>12, <1>16, SumRemove
<1>18. SumFunctionOnSet(g, E \ {cell}) = SumFunctionOnSet(f, E \ {cell})
  <2>1. IsFiniteSet(E \ {cell}) /\ IntsOn(g, E \ {cell})  BY <1>8, <1>16, FS_Subset DEF IntsOn
  <2> QED  BY <1>12, <2>1, SumEqual
<1>19. /\ SumFunctionOnSet(f, E \ {cell}) <= SumFunctionOnSet(f, D \ {cell})
       /\ SumFunctionOnSet(f, E \ {cell}) \in Nat /\ SumFunctionOnSet(f, D \ {cell}) \in Nat
  <2>1. IsFiniteSet(D \ {cell}) /\ IsFiniteSet(E \ {cell})  BY <1>8, FS_Subset
  <2>2. \A c \in D \ {cell} : f[c] \in Nat  BY <1>12
  <2>3. E \ {cell} \in SUBSET (D \ {cell}) /\ \A c \in E \ {cell} : f[c] \in Nat  BY <1>4, <2>2 DEF D
  <2> QED  BY <2>1, <2>2, <2>3, SumOfPart, SumNonNegative
<1>20. SumFunctionOnSet(f, D) = old.requests + SumFunctionOnSet(f, D \ {cell})
  <2>1. CASE cell \in D  BY <1>8, <1>15, <1>16, <2>1, SumRemove
  <2>2. CASE cell \notin D
    <3>1. D \ {cell} = D  BY <2>2
    <3>2. old.requests = 0  BY <1>5, <2>2 DEF D
    <3>3. SumFunctionOnSet(f, D \ {cell}) = SumFunctionOnSet(f, D)  BY <3>1, Zenon
    <3>4. SumFunctionOnSet(f, D) \in Nat  BY <1>19, <3>3, Zenon
    <3> QED  BY <3>2, <3>3, <3>4
  <2> QED  BY <2>1, <2>2
<1>21. SumFunctionOnSet(g, E) <= metered'
  BY <1>1, <1>5, <1>6, <1>13, <1>17, <1>18, <1>19, <1>20
<1>22. DOMAIN keyRows' \subseteq ApiKey /\ minute' \in Int /\ metered' \in Nat  BY <1>1
<1> QED  BY <1>11, <1>14, <1>21, <1>22 DEF MeterInv

LEMMA MeterStep ==
    ASSUME MeterInv, MeterNext \/ UNCHANGED meterVars
    PROVE  MeterInv'
<1>1. ASSUME UNCHANGED events, metered' = metered, minute' \in Int, DOMAIN keyRows' \subseteq ApiKey
      PROVE  MeterInv'
  BY <1>1 DEF MeterInv, CellsOK, Requests
<1>2. minute \in Int /\ DOMAIN keyRows \subseteq ApiKey  BY DEF MeterInv
<1>3. CASE UNCHANGED meterVars  BY <1>1, <1>2, <1>3 DEF meterVars
<1>4. CASE MinutePasses  BY <1>1, <1>2, <1>4 DEF MinutePasses
<1>5. ASSUME NEW k \in ApiKey, NEW label, PostRegister(k, label) PROVE MeterInv'
  <2>1. DOMAIN keyRows' = DOMAIN keyRows \cup {k}  BY <1>5 DEF PostRegister, registerApiKey, upsertKey
  <2> QED  BY <1>1, <1>2, <1>5, <2>1 DEF PostRegister
<1>6. ASSUME NEW k \in ApiKey, NEW limit, PatchLimit(k, limit) PROVE MeterInv'
  <2>1. DOMAIN keyRows' = DOMAIN keyRows  BY <1>6 DEF PatchLimit, setApiKeyLimit
  <2> QED  BY <1>1, <1>2, <1>6, <2>1 DEF PatchLimit
<1> QED  BY <1>3, <1>4, <1>5, <1>6, RequestIsCounted DEF MeterNext

\* The overview's row of a key.
UsageRow(k) ==
    [key               |-> k,
     requestsPerMinute |-> Requests(Window(k, 1)),
     blockedPerMinute  |-> Blocked(Window(k, 1)),
     limit             |-> LimitOf(k),
     approaching       |-> 10 * Requests(Window(k, 1)) >= 8 * LimitOf(k)]

LEMMA OverviewRows ==
    /\ getAllApiKeysUsage = {UsageRow(k) : k \in DOMAIN keyRows}
    /\ \A u \in getAllApiKeysUsage : u.key \in DOMAIN keyRows /\ u = UsageRow(u.key)
    /\ \A k \in DOMAIN keyRows : UsageRow(k) \in getAllApiKeysUsage /\ UsageRow(k).key = k
<1>1. getAllApiKeysUsage = {UsageRow(k) : k \in DOMAIN keyRows}
  BY DEF getAllApiKeysUsage, UsageRow, Window
<1>2. \A k : UsageRow(k).key = k  BY DEF UsageRow
<1> HIDE DEF UsageRow
<1> QED  BY <1>1, <1>2

LEMMA OverviewCounts ==
    ASSUME MeterInv
    PROVE  /\ IsFiniteSet(getAllApiKeysUsage)
           /\ Cardinality(getAllApiKeysUsage) = Cardinality(DOMAIN keyRows)
<1> DEFINE D == DOMAIN keyRows
           f == [k \in D |-> UsageRow(k)]
           T == getAllApiKeysUsage
<1>1. IsFiniteSet(D)  BY MeterAssumption, FS_Subset DEF MeterInv
<1>2. \A k \in D : f[k] \in T /\ f[k].key = k  BY OverviewRows
<1>3. \A u \in T : \E k \in D : f[k] = u  BY OverviewRows
<1>4. f \in [D -> T]  BY <1>2
<1> HIDE DEF f, D, T
<1>5. f \in Bijection(D, T)  BY <1>2, <1>3, <1>4 DEF Bijection, Injection, Surjection, IsInjective
<1>6. ExistsBijection(D, T)  BY <1>5 DEF ExistsBijection
<1>7. IsFiniteSet(T) /\ Cardinality(T) = Cardinality(D)  BY <1>1, <1>6, FS_Bijection
<1> QED  BY <1>7 DEF D, T

LEMMA UsageHolds == MeterInv => UsageViewsAgree
<1> SUFFICES ASSUME MeterInv PROVE UsageViewsAgree  OBVIOUS
<1> DEFINE data == getAllApiKeysUsage
           near == {u \in data : u.approaching}
<1>1. /\ GetUsage.count = Cardinality(data) /\ GetUsage.data = data
      /\ GetAlerts.count = Cardinality(near) /\ GetAlerts.data = near
  BY DEF GetUsage, GetAlerts, getApproachingLimitAlerts
<1>2. Cardinality(near) <= Cardinality(data)
  <2>1. near \subseteq data  OBVIOUS
  <2> HIDE DEF near, data
  <2> QED  BY <2>1, OverviewCounts, FS_Subset DEF data
<1>3. ASSUME NEW k \in ApiKey PROVE (GetKeyUsage(k).status = 404) = (\A u \in data : u.key # k)
  <2>1. GetKeyUsage(k).status = 404 <=> k \notin DOMAIN keyRows  BY DEF GetKeyUsage
  <2>2. (\A u \in data : u.key # k) <=> k \notin DOMAIN keyRows  BY OverviewRows
  <2> QED  BY <2>1, <2>2
<1>4. ASSUME NEW u \in GetUsage.data, NEW own \in GetKeyUsage(u.key).data,
             NEW past \in GetKeyHistory(u.key, HistoryMinutes).data
      PROVE  /\ own.requestsPerMinute = u.requestsPerMinute
             /\ own.blockedPerMinute = u.blockedPerMinute
             /\ own.limit = u.limit /\ own.approaching = u.approaching
             /\ own.blockedPerMinute <= own.requestsPerMinute
             /\ own.requestsPerMinute <= past.totalRequests
             /\ past.totalRequests <= metered
             /\ past.activeMinutes <= past.totalRequests
             /\ own.approaching <=> u \in GetAlerts.data
  <2> DEFINE k == u.key
             now == Window(k, 1)
             all == Window(k, HistoryMinutes)
  <2>1. k \in DOMAIN keyRows /\ u = UsageRow(k)  BY <1>1, OverviewRows
  <2>2. own = getApiKeyCurrentUsage(k)  BY <2>1 DEF GetKeyUsage
  <2>3. 1 <= HistoryMinutes /\ past = getApiKeyHistory(k, HistoryMinutes)
    <3>1. HistoryMinutes \in 1..HistoryMinutes  BY <1>4 DEF GetKeyHistory
    <3>2. past = getApiKeyHistory(k, HistoryMinutes)  BY <1>4, <2>1, <3>1 DEF GetKeyHistory
    <3> QED  BY <3>1, <3>2, MeterAssumption
  <2> HIDE DEF k
  <2>4. CellsOK /\ Requests(DOMAIN events) <= metered /\ minute \in Int /\ metered \in Nat  BY DEF MeterInv
  <2>5. now \in SUBSET DOMAIN events /\ all \in SUBSET DOMAIN events  BY DEF Window
  <2>6. now \subseteq all
    <3>1. \A c \in DOMAIN events : c[2] \in Int  BY <2>4 DEF CellsOK
    <3>2. \A c \in DOMAIN events : c[2] >= minute - 1 => c[2] >= minute - HistoryMinutes
      BY <2>3, <2>4, <3>1, MeterAssumption
    <3> QED  BY <3>2 DEF Window
  <2>7. /\ Blocked(now) <= Requests(now) /\ Requests(now) <= Requests(all)
        /\ Requests(all) <= Requests(DOMAIN events) /\ Cardinality(all) <= Requests(all)
        /\ Requests(all) \in Nat /\ Requests(DOMAIN events) \in Nat
    BY <2>4, <2>5, <2>6, CellFigures
  <2>8. /\ own.requestsPerMinute = Requests(now) /\ own.blockedPerMinute = Blocked(now)
        /\ own.limit = LimitOf(k) /\ own.approaching = (10 * Requests(now) >= 8 * LimitOf(k))
    BY <2>2 DEF getApiKeyCurrentUsage
  <2>9. /\ u.requestsPerMinute = Requests(now) /\ u.blockedPerMinute = Blocked(now)
        /\ u.limit = LimitOf(k) /\ u.approaching = (10 * Requests(now) >= 8 * LimitOf(k))
    BY <2>1 DEF UsageRow, k
  <2>10. past.totalRequests = Requests(all) /\ past.activeMinutes = Cardinality(all)
    BY <2>3 DEF getApiKeyHistory
  <2>11. own.approaching = u.approaching  BY <2>8, <2>9
  <2>12. own.approaching <=> u \in GetAlerts.data  BY <1>1, <2>11
  <2> HIDE DEF now, all, near
  <2> QED  BY <2>4, <2>7, <2>8, <2>9, <2>10, <2>11, <2>12
<1>5. \A k \in ApiKey : (GetKeyUsage(k).status = 404) = (\A u \in GetUsage.data : u.key # k)  BY <1>1, <1>3
<1>6. GetUsage.count = Cardinality(DOMAIN keyRows) /\ GetAlerts.count <= GetUsage.count
  BY <1>1, <1>2, OverviewCounts
<1> HIDE DEF data, near
<1> QED  BY <1>4, <1>5, <1>6 DEF UsageViewsAgree

-----------------------------------------------------------------------------
(***************************************************************************)
(* The health routes.  A cache entry expires a TTL after the request that  *)
(* wrote it came in, and what it holds was observed after that.            *)
(***************************************************************************)

PollState == [at : {"idle", "probing", "monitor"}, now : Int, seen : Int, ok : BOOLEAN]
SnapshotRow == [at : Int, asked : Int, ok : BOOLEAN]

HealthInv ==
    /\ healthClock \in Int /\ lastRecordedAt \in Int
    /\ cachedHealth \in [seen : Int, expires : Int]
    /\ cachedHealth.expires <= cachedHealth.seen + CACHE_TTL
    /\ polling \in [Poller -> PollState]
    /\ \A p \in Poller :
          /\ polling[p].at # "idle" => polling[p].now <= healthClock
          /\ polling[p].at = "monitor" => polling[p].now <= polling[p].seen
    /\ served \in [Poller -> Int]
    /\ \A p \in Poller : served[p] < CACHE_TTL
    /\ IsFiniteSet(history) /\ history \subseteq SnapshotRow
    /\ \A r \in history : r.asked <= lastRecordedAt
    /\ \A r, s \in history : r # s => r.asked - s.asked >= RECORD_INTERVAL
                                       \/ s.asked - r.asked >= RECORD_INTERVAL
    /\ report \in {"healthy", "degraded"} => Ready

LEMMA HealthStarts == HealthInit => HealthInv
<1> SUFFICES ASSUME HealthInit PROVE HealthInv  OBVIOUS
<1>1. Nowhere \in PollState /\ Nowhere.at = "idle"  BY DEF Nowhere, PollState
<1>2. NoHealth \in [seen : Int, expires : Int] /\ NoHealth.expires <= NoHealth.seen + CACHE_TTL
  BY HealthAssumption DEF NoHealth
<1> QED  BY <1>1, <1>2, HealthAssumption, FS_EmptySet DEF HealthInit, HealthInv

LEMMA GetHealthKeepsHealth ==
    ASSUME HealthInv, NEW p \in Poller, GetHealth(p)
    PROVE  HealthInv'
<1>1. /\ healthClock' = healthClock /\ cachedHealth' = cachedHealth /\ lastRecordedAt' = lastRecordedAt
      /\ history' = history /\ checks' = checks /\ report' = report
  BY DEF GetHealth
<1>2. CASE cachedHealth # NoHealth /\ healthClock < cachedHealth.expires
  <2>1. polling' = polling /\ served' = [served EXCEPT ![p] = healthClock - cachedHealth.seen]
    BY <1>2 DEF GetHealth
  <2>2. healthClock - cachedHealth.seen \in Int /\ healthClock - cachedHealth.seen < CACHE_TTL
    BY <1>2, HealthAssumption DEF HealthInv
  <2>3. served' \in [Poller -> Int] /\ \A q \in Poller : served'[q] < CACHE_TTL
    BY <2>1, <2>2 DEF HealthInv
  <2> QED  BY <1>1, <2>1, <2>3 DEF HealthInv, Ready, IsError
<1>3. CASE ~(cachedHealth # NoHealth /\ healthClock < cachedHealth.expires)
  <2> DEFINE new == [Nowhere EXCEPT !.at = "probing", !.now = healthClock]
  <2>1. served' = served /\ polling' = [polling EXCEPT ![p] = new]  BY <1>3 DEF GetHealth
  <2>2. new \in PollState /\ new.at = "probing" /\ new.now = healthClock /\ healthClock <= healthClock
    <3>1. ASSUME NEW x \in PollState, NEW t \in Int
          PROVE  LET y == [x EXCEPT !.at = "probing", !.now = t]
                 IN  y \in PollState /\ y.at = "probing" /\ y.now = t
      BY <3>1 DEF PollState
    <3>2. Nowhere \in PollState  BY DEF Nowhere, PollState
    <3>3. healthClock \in Int  BY DEF HealthInv
    <3>4. new \in PollState /\ new.at = "probing" /\ new.now = healthClock
      BY <3>1, <3>2, <3>3, Zenon
    <3> HIDE DEF new
    <3> QED  BY <3>3, <3>4
  <2> HIDE DEF new
  <2>3. /\ polling' \in [Poller -> PollState] /\ polling'[p] = new
        /\ \A q \in Poller : q # p => polling'[q] = polling[q]
    BY <2>1, <2>2 DEF HealthInv
  <2>4. \A q \in Poller : /\ polling'[q].at # "idle" => polling'[q].now <= healthClock
                          /\ polling'[q].at = "monitor" => polling'[q].now <= polling'[q].seen
    BY <2>2, <2>3 DEF HealthInv
  <2> QED  BY <1>1, <2>1, <2>3, <2>4 DEF HealthInv, Ready, IsError
<1> QED  BY <1>2, <1>3

LEMMA ProbesKeepHealth ==
    ASSUME HealthInv, NEW p \in Poller, ProbesAnswer(p)
    PROVE  HealthInv'
<1>1. /\ healthClock' = healthClock /\ cachedHealth' = cachedHealth /\ lastRecordedAt' = lastRecordedAt
      /\ history' = history /\ checks' = checks /\ report' = report /\ served' = served
      /\ polling[p].at = "probing"
  BY DEF ProbesAnswer
<1>2. PICK connected \in BOOLEAN, contract \in checkContractDeploymentStatus :
          polling' = [polling EXCEPT ![p] = [@ EXCEPT !.at = "monitor", !.seen = healthClock,
                                                      !.ok = connected /\ ContractHealthy(contract)]]
  BY DEF ProbesAnswer
<1> DEFINE ok == connected /\ ContractHealthy(contract)
           new == [polling[p] EXCEPT !.at = "monitor", !.seen = healthClock, !.ok = ok]
<1>3. polling' = [polling EXCEPT ![p] = new]  BY <1>2
<1>4. ok \in BOOLEAN  OBVIOUS
<1> HIDE DEF ok
<1>5. polling[p] \in PollState /\ healthClock \in Int /\ polling[p].now <= healthClock
  BY <1>1 DEF HealthInv
<1>6. new \in PollState /\ new.at = "monitor" /\ new.now <= healthClock /\ new.now <= new.seen
  BY <1>4, <1>5 DEF PollState
<1> HIDE DEF new
<1>7. /\ polling' \in [Poller -> PollState] /\ polling'[p] = new
      /\ \A q \in Poller : q # p => polling'[q] = polling[q]
  BY <1>3, <1>6 DEF HealthInv
<1>8. \A q \in Poller : /\ polling'[q].at # "idle" => polling'[q].now <= healthClock
                        /\ polling'[q].at = "monitor" => polling'[q].now <= polling'[q].seen
  BY <1>6, <1>7 DEF HealthInv
<1> QED  BY <1>1, <1>7, <1>8 DEF HealthInv, Ready, IsError

LEMMA AnswersKeepHealth ==
    ASSUME HealthInv, NEW p \in Poller, HealthAnswers(p)
    PROVE  HealthInv'
<1> DEFINE now == polling[p].now
           seen == polling[p].seen
           ok == polling[p].ok
<1>1. /\ healthClock' = healthClock /\ checks' = checks /\ report' = report /\ served' = served
      /\ polling[p].at = "monitor"
      /\ cachedHealth' = [seen |-> seen, expires |-> now + CACHE_TTL]
      /\ polling' = [polling EXCEPT ![p] = Nowhere]
  BY DEF HealthAnswers, CachesUntil
<1>2. now \in Int /\ seen \in Int /\ ok \in BOOLEAN /\ now <= seen /\ healthClock \in Int /\ lastRecordedAt \in Int
  BY <1>1 DEF HealthInv, PollState
<1>3. cachedHealth' \in [seen : Int, expires : Int] /\ cachedHealth'.expires <= cachedHealth'.seen + CACHE_TTL
  BY <1>1, <1>2, HealthAssumption
<1>4. Nowhere \in PollState /\ Nowhere.at = "idle"  BY DEF Nowhere, PollState
<1>5. /\ polling' \in [Poller -> PollState] /\ polling'[p].at = "idle"
      /\ \A q \in Poller : q # p => polling'[q] = polling[q]
  BY <1>1, <1>4 DEF HealthInv
<1>6. \A q \in Poller : /\ polling'[q].at # "idle" => polling'[q].now <= healthClock
                        /\ polling'[q].at = "monitor" => polling'[q].now <= polling'[q].seen
  BY <1>5 DEF HealthInv
<1>7. /\ lastRecordedAt' \in Int /\ IsFiniteSet(history') /\ history' \subseteq SnapshotRow
      /\ \A r \in history' : r.asked <= lastRecordedAt'
      /\ \A r, s \in history' : r # s => r.asked - s.asked >= RECORD_INTERVAL
                                          \/ s.asked - r.asked >= RECORD_INTERVAL
  <2>1. CASE now - lastRecordedAt >= RECORD_INTERVAL
    <3> DEFINE row == [at |-> healthClock, asked |-> now, ok |-> ok]
               all == history \cup {row}
    <3>1. lastRecordedAt' = now /\ history' \subseteq all
      BY <2>1 DEF HealthAnswers, recordHealthSnapshot, pruneHealthHistory
    <3>2. row \in SnapshotRow /\ row.asked = now  BY <1>2 DEF SnapshotRow
    <3> HIDE DEF row
    <3>3. IsFiniteSet(all) /\ all \subseteq SnapshotRow  BY <3>2, FS_AddElement DEF HealthInv
    <3>4. lastRecordedAt <= now  BY <1>2, <2>1, HealthAssumption
    <3>5. \A r \in history : r.asked \in Int /\ r.asked <= lastRecordedAt  BY DEF HealthInv, SnapshotRow
    <3>6. \A r \in all : r.asked <= now  BY <1>2, <3>2, <3>4, <3>5
    <3>7. \A r \in history : row.asked - r.asked >= RECORD_INTERVAL
      BY <1>2, <2>1, <3>2, <3>5, HealthAssumption
    <3>8. \A r, s \in all : r # s => r.asked - s.asked >= RECORD_INTERVAL
                                      \/ s.asked - r.asked >= RECORD_INTERVAL
      BY <3>7 DEF HealthInv
    <3>9. IsFiniteSet(history')  BY <3>1, <3>3, FS_Subset
    <3> HIDE DEF all, now
    <3> QED  BY <1>2, <3>1, <3>3, <3>6, <3>8, <3>9
  <2>2. CASE ~(now - lastRecordedAt >= RECORD_INTERVAL)
    <3>1. lastRecordedAt' = lastRecordedAt /\ history' = history  BY <2>2 DEF HealthAnswers
    <3> QED  BY <3>1 DEF HealthInv
  <2> QED  BY <2>1, <2>2
<1> QED  BY <1>1, <1>3, <1>5, <1>6, <1>7 DEF HealthInv, Ready, IsError

LEMMA HealthStep ==
    ASSUME HealthInv, PollNext \/ DetailedNext \/ UNCHANGED healthVars
    PROVE  HealthInv'
<1>1. CASE UNCHANGED healthVars  BY <1>1 DEF healthVars, HealthInv, Ready, IsError
<1>2. CASE HealthTicks
  <2>1. /\ healthClock' = healthClock + 1 /\ cachedHealth' = cachedHealth /\ lastRecordedAt' = lastRecordedAt
        /\ history' = history /\ checks' = checks /\ report' = report /\ served' = served /\ polling' = polling
    BY <1>2 DEF HealthTicks
  <2>2. healthClock' \in Int  BY <2>1 DEF HealthInv
  <2>3. \A p \in Poller : polling[p].at # "idle" => polling[p].now <= healthClock + 1
    <3>1. \A p \in Poller : polling[p].now \in Int  BY DEF HealthInv, PollState
    <3> QED  BY <3>1 DEF HealthInv
  <2> QED  BY <2>1, <2>2, <2>3 DEF HealthInv, Ready, IsError
<1>3. CASE DetailedNext
  <2>1. /\ healthClock' = healthClock /\ cachedHealth' = cachedHealth /\ lastRecordedAt' = lastRecordedAt
        /\ history' = history /\ served' = served /\ polling' = polling
    BY <1>3 DEF DetailedNext, GetDetailed, DetailedAnswers, CheckAnswersFor, runCheck
  <2>2. report' \in {"healthy", "degraded"} => Ready'
    <3>1. CASE report' = "running"  BY <3>1
    <3>2. CASE DetailedAnswers
      <4>1. report' = OverallStatus /\ checks' = checks  BY <3>2 DEF DetailedAnswers
      <4>2. OverallStatus \in {"healthy", "degraded"} => Ready
        BY DEF OverallStatus, Ready, Critical
      <4> QED  BY <4>1, <4>2 DEF Ready, IsError
    <3> QED  BY <1>3, <3>1, <3>2 DEF DetailedNext, GetDetailed, CheckAnswersFor, runCheck
  <2> QED  BY <2>1, <2>2 DEF HealthInv
<1> QED
  BY <1>1, <1>2, <1>3, GetHealthKeepsHealth, ProbesKeepHealth, AnswersKeepHealth DEF PollNext

LEMMA HealthHolds == HealthInv => HealthIsFresh
<1> SUFFICES ASSUME HealthInv PROVE HealthIsFresh  OBVIOUS
<1>1. ASSUME NEW n \in 1..LastTick
      PROVE  LET sla == getSLAStats(n)
             IN  /\ sla.totalSnapshots = Cardinality(getHealthHistory(n))
                 /\ sla.fullUptime <=> sla.healthySnapshots = sla.totalSnapshots
  <2> DEFINE snaps == getHealthHistory(n)
             good == {r \in snaps : r.ok}
             sla == getSLAStats(n)
  <2>1. /\ sla.totalSnapshots = Cardinality(snaps) /\ sla.healthySnapshots = Cardinality(good)
        /\ sla.fullUptime = (\A r \in snaps : r.ok)
    BY DEF getSLAStats, getHealthHistory
  <2>2. snaps \subseteq history  BY DEF getHealthHistory
  <2>3. IsFiniteSet(snaps)  BY <2>2, FS_Subset DEF HealthInv
  <2>4. (\A r \in snaps : r.ok) <=> good = snaps  OBVIOUS
  <2>5. good \subseteq snaps  OBVIOUS
  <2> HIDE DEF snaps, good, sla
  <2>6. good = snaps <=> Cardinality(good) = Cardinality(snaps)  BY <2>3, <2>5, FS_Subset
  <2>7. sla.fullUptime <=> sla.healthySnapshots = sla.totalSnapshots  BY <2>1, <2>4, <2>6
  <2> QED  BY <2>1, <2>7 DEF sla, snaps
<1> QED  BY <1>1 DEF HealthInv, HealthIsFresh

-----------------------------------------------------------------------------
(***************************************************************************)
(* Alerts.  The instant kept for a kind of alert is that of its last one   *)
(* and never in the future, so an alert let through is a dedupe window     *)
(* after every earlier one.  Opening a bucket drops only a first part of   *)
(* the sequence and leaves the new one, so what is counted never exceeds   *)
(* what was recorded.                                                      *)
(***************************************************************************)

Bucket == [start : Int, total : Nat, failed : Nat]
TotalsOf(bs) == [i \in DOMAIN bs |-> bs[i].total]
FailedOf(bs) == [i \in DOMAIN bs |-> bs[i].failed]

BucketsOK(bs) ==
    /\ bs \in Seq(Bucket)
    /\ \A i \in DOMAIN bs : bs[i].failed <= bs[i].total
    /\ \A i, j \in DOMAIN bs : i < j => bs[j].start - bs[i].start >= ALERT_WINDOW
    /\ Len(bs) <= MAX_BUCKETS

AlertInv ==
    /\ second \in Int /\ totals \in [Watched -> Nat]
    /\ DOMAIN buckets = Watched
    /\ \A c \in Watched : BucketsOK(buckets[c]) /\ Total(buckets[c]) <= totals[c]
    /\ alertState \in [Watched \X Kind -> Int]
    /\ \A k \in Watched \X Kind : alertState[k] <= second
    /\ alerts \subseteq [about : Watched \X Kind, at : Int]
    /\ \A a \in alerts : a.at <= alertState[a.about]
    /\ \A a, b \in alerts : a.about = b.about /\ a.at < b.at => b.at - a.at >= DedupeWindow

LEMMA BucketType ==
    ASSUME NEW bs \in Seq(Bucket)
    PROVE  /\ Len(bs) \in Nat /\ DOMAIN bs = 1..Len(bs)
           /\ \A i \in DOMAIN bs : /\ bs[i] \in Bucket /\ bs[i].start \in Int
                                   /\ bs[i].total \in Nat /\ bs[i].failed \in Nat
<1>1. \A b \in Bucket : b.start \in Int /\ b.total \in Nat /\ b.failed \in Nat  BY DEF Bucket
<1>2. \A i \in DOMAIN bs : bs[i] \in Bucket  OBVIOUS
<1> QED  BY <1>1, <1>2

LEMMA BucketSums ==
    ASSUME NEW bs \in Seq(Bucket)
    PROVE  /\ Total(bs) = SumFunctionOnSet(TotalsOf(bs), 1..Len(bs))
           /\ Failures(bs) = SumFunctionOnSet(FailedOf(bs), 1..Len(bs))
           /\ IntsOn(TotalsOf(bs), 1..Len(bs)) /\ IntsOn(FailedOf(bs), 1..Len(bs))
           /\ \A i \in 1..Len(bs) : TotalsOf(bs)[i] = bs[i].total /\ FailedOf(bs)[i] = bs[i].failed
           /\ IsFiniteSet(1..Len(bs)) /\ Total(bs) \in Int /\ Failures(bs) \in Int
<1>1. Len(bs) \in Nat /\ DOMAIN bs = 1..Len(bs)  BY BucketType
<1>2. Total(bs) = SumFunctionOnSet(TotalsOf(bs), 1..Len(bs))
  BY <1>1 DEF Total, SumFunction, TotalsOf
<1>3. Failures(bs) = SumFunctionOnSet(FailedOf(bs), 1..Len(bs))
  BY <1>1 DEF Failures, SumFunction, FailedOf
<1>4. \A i \in 1..Len(bs) : TotalsOf(bs)[i] = bs[i].total /\ FailedOf(bs)[i] = bs[i].failed
  BY <1>1 DEF TotalsOf, FailedOf
<1>5. IntsOn(TotalsOf(bs), 1..Len(bs)) /\ IntsOn(FailedOf(bs), 1..Len(bs))
  BY <1>1, <1>4, BucketType DEF IntsOn
<1>6. IsFiniteSet(1..Len(bs))  BY <1>1, FS_Interval
<1>7. Total(bs) \in Int /\ Failures(bs) \in Int  BY <1>2, <1>3, <1>5, <1>6, SumType
<1> QED  BY <1>2, <1>3, <1>4, <1>5, <1>6, <1>7

LEMMA NoMoreFailures ==
    ASSUME NEW bs, BucketsOK(bs)
    PROVE  Failures(bs) <= Total(bs)
<1>1. bs \in Seq(Bucket) /\ \A i \in DOMAIN bs : bs[i].failed <= bs[i].total  BY DEF BucketsOK
<1>2. DOMAIN bs = 1..Len(bs)  BY <1>1, BucketType
<1>3. \A i \in 1..Len(bs) : FailedOf(bs)[i] <= TotalsOf(bs)[i]  BY <1>1, <1>2, BucketSums
<1> QED  BY <1>1, <1>3, BucketSums, SumCompares

\* There is room for a bucket at least.
LEMMA RoomForABucket == MAX_BUCKETS \in Nat /\ MAX_BUCKETS >= 1
<1> DEFINE x == ALERT_HISTORY + ALERT_WINDOW - 1
<1>1. ALERT_WINDOW \in Nat \ {0} /\ x \in Int /\ ALERT_WINDOW <= x  BY Windows
<1>2. ALERT_WINDOW \div ALERT_WINDOW = 1
  <2>1. 1 * ALERT_WINDOW + 0 = ALERT_WINDOW /\ 0 \in 0..(ALERT_WINDOW - 1)  BY <1>1
  <2>2. (1 * ALERT_WINDOW + 0) \div ALERT_WINDOW = 1  BY <1>1, <2>1, OneQuotient
  <2> QED  BY <2>1, <2>2
<1> HIDE DEF x
<1>3. x \div ALERT_WINDOW \in Int  BY <1>1, Quotient
<1>4. ALERT_WINDOW \div ALERT_WINDOW <= x \div ALERT_WINDOW
  <2>1. ALERT_WINDOW \in Int  BY <1>1
  <2> QED  BY <1>1, <2>1, QuotientOrder
<1> QED  BY <1>2, <1>3, <1>4 DEF MAX_BUCKETS, x

\* Dropping a first part of the buckets.
LEMMA SuffixOfBuckets ==
    ASSUME NEW bs \in Seq(Bucket), NEW m \in 1..Len(bs), NEW s \in Seq(Bucket),
           DOMAIN s = 1..(Len(bs) - m + 1), \A j \in DOMAIN s : s[j] = bs[j + m - 1]
    PROVE  Total(s) <= Total(bs)
<1> DEFINE n == Len(bs)
<1>1. n \in Nat /\ Len(s) = n - m + 1
  <2>1. n \in Nat /\ Len(s) \in Nat /\ DOMAIN s = 1..Len(s)  BY BucketType
  <2> QED  BY <2>1
<1>2. \A i \in 1..n : TotalsOf(bs)[i] \in Nat /\ TotalsOf(bs)[i] = bs[i].total
  BY BucketSums, BucketType
<1>3. \A i \in 1..(n - m + 1) : TotalsOf(s)[i] = TotalsOf(bs)[i + m - 1]
  <2> SUFFICES ASSUME NEW i \in 1..(n - m + 1) PROVE TotalsOf(s)[i] = TotalsOf(bs)[i + m - 1]  OBVIOUS
  <2>1. i + m - 1 \in 1..n  BY <1>1
  <2>2. s[i] = bs[i + m - 1]  OBVIOUS
  <2>3. TotalsOf(s)[i] = s[i].total  BY <1>1, BucketSums
  <2> QED  BY <1>2, <2>1, <2>2, <2>3
<1>4. m \in 1..(n + 1)  BY <1>1
<1>5. SumFunctionOnSet(TotalsOf(s), 1..(n - m + 1)) <= SumFunctionOnSet(TotalsOf(bs), 1..n)
  BY <1>1, <1>2, <1>3, <1>4, SumOfSuffix
<1> QED  BY <1>1, <1>5, BucketSums

\* Opening a bucket keeps the buckets in order and within the history, counts nothing,
\* and leaves one to count in.
LEMMA OpeningKeepsBuckets ==
    ASSUME second \in Int, NEW bs, BucketsOK(bs)
    PROVE  /\ BucketsOK(OpenBucket(bs)) /\ OpenBucket(bs) # <<>>
           /\ Total(OpenBucket(bs)) <= Total(bs)
<1> DEFINE fresh == [start |-> second, total |-> 0, failed |-> 0]
           k == Len(bs)
           opens == bs = <<>> \/ second - bs[Len(bs)].start >= ALERT_WINDOW
<1>1. /\ bs \in Seq(Bucket) /\ k \in Nat /\ DOMAIN bs = 1..k
      /\ \A i \in 1..k : bs[i] \in Bucket /\ bs[i].start \in Int
      /\ \A i, j \in 1..k : i < j => bs[j].start - bs[i].start >= ALERT_WINDOW
      /\ \A i \in 1..k : bs[i].failed <= bs[i].total
      /\ k <= MAX_BUCKETS
  BY BucketType DEF BucketsOK
<1>2. MAX_BUCKETS \in Nat /\ MAX_BUCKETS >= 1  BY RoomForABucket
<1>3. CASE ~opens
  <2>1. OpenBucket(bs) = bs /\ bs # <<>>  BY <1>3 DEF OpenBucket
  <2>2. Total(bs) \in Int  BY <1>1, BucketSums
  <2> QED  BY <2>1, <2>2
<1>4. CASE opens
  <2> DEFINE all == Append(bs, fresh)
             n == k + 1
             m == Min(Young(all))
             young == SubSeq(all, m, n)
             s == Pruned(all)
  <2>1. fresh \in Bucket /\ fresh.start = second /\ fresh.total = 0 /\ fresh.failed = 0
    BY DEF Bucket
  <2>2. OpenBucket(bs) = s  BY <1>4 DEF OpenBucket
  <2> HIDE DEF fresh
  <2>3. /\ all \in Seq(Bucket) /\ Len(all) = n /\ DOMAIN all = 1..n /\ all[n] = fresh
        /\ \A i \in 1..k : all[i] = bs[i]
    BY <1>1, <2>1
  <2> HIDE DEF all
  <2>4. \A i, j \in 1..n : i < j => all[j].start - all[i].start >= ALERT_WINDOW
    <3> SUFFICES ASSUME NEW i \in 1..n, NEW j \in 1..n, i < j
                 PROVE  all[j].start - all[i].start >= ALERT_WINDOW
      OBVIOUS
    <3>1. i \in 1..k /\ all[i] = bs[i] /\ bs[i].start \in Int  BY <1>1, <2>3
    <3>2. CASE j # n  BY <1>1, <2>3, <3>1, <3>2
    <3>3. CASE j = n
      <4>1. all[j].start = second  BY <2>1, <2>3, <3>3
      <4>2. bs # <<>> /\ k \in 1..k  BY <1>1, <3>1
      <4>3. second - bs[k].start >= ALERT_WINDOW  BY <1>4, <4>2
      <4>0. i = k \/ i < k
        <5>1. i \in 1..k /\ k \in Nat  BY <1>1, <3>1
        <5> HIDE DEF k
        <5> QED  BY <5>1
      <4>4. i = k \/ bs[k].start - bs[i].start >= ALERT_WINDOW  BY <1>1, <3>1, <4>2, <4>0
      <4>5. bs[k].start \in Int /\ ALERT_WINDOW \in Nat  BY <1>1, <4>2, Windows
      <4> QED  BY <3>1, <4>1, <4>3, <4>4, <4>5
    <3> QED  BY <3>2, <3>3
  <2>5. m \in 1..n
    <3>1. n \in Young(all)  BY <1>1, <2>1, <2>3, Windows DEF Young
    <3>2. Young(all) \in SUBSET Nat /\ Young(all) \subseteq 1..n  BY <2>3 DEF Young
    <3>3. m \in Young(all)  BY <3>1, <3>2, LeastNumber DEF Min
    <3> QED  BY <3>2, <3>3
  <2>6. s = IF Len(young) > MAX_BUCKETS THEN Tail(young) ELSE young  BY <2>3 DEF Pruned
  <2> HIDE DEF m, s
  <2>7. /\ young \in Seq(Bucket) /\ Len(young) = n - m + 1
        /\ \A j \in 1..(n - m + 1) : young[j] = all[j + m - 1]
    BY <1>1, <2>3, <2>5
  <2> HIDE DEF young
  <2>8. PICK h \in 1..n : /\ s \in Seq(Bucket) /\ Len(s) = n - h + 1 /\ n - h + 1 <= MAX_BUCKETS
                          /\ \A j \in 1..(n - h + 1) : s[j] = all[j + h - 1]
    <3>1. CASE Len(young) > MAX_BUCKETS
      <4>1. s = Tail(young)  BY <2>6, <3>1
      <4>2. Len(young) \in Nat /\ Len(young) >= 2 /\ m + 1 \in 1..n
        BY <1>1, <1>2, <2>5, <2>7, <3>1
      <4>3. young # <<>>  BY <4>2
      <4>4. /\ s \in Seq(Bucket) /\ Len(s) = n - m
            /\ \A j \in 1..(n - m) : s[j] = young[j + 1]
        BY <1>1, <2>5, <2>7, <4>1, <4>2, <4>3
      <4>5. \A j \in 1..(n - m) : s[j] = all[j + (m + 1) - 1]
        <5> SUFFICES ASSUME NEW j \in 1..(n - m) PROVE s[j] = all[j + (m + 1) - 1]  OBVIOUS
        <5>1. j + 1 \in 1..(n - m + 1) /\ (j + 1) + m - 1 = j + (m + 1) - 1  BY <1>1, <2>5
        <5> QED  BY <2>7, <4>4, <5>1
      <4>6. n - (m + 1) + 1 = n - m /\ n - m <= MAX_BUCKETS  BY <1>1, <1>2, <2>5
      <4> QED  BY <4>2, <4>4, <4>5, <4>6
    <3>2. CASE ~(Len(young) > MAX_BUCKETS)
      <4>1. s = young  BY <2>6, <3>2
      <4>2. n - m + 1 <= MAX_BUCKETS  BY <1>1, <1>2, <2>5, <2>7, <3>2
      <4> QED  BY <2>5, <2>7, <4>1, <4>2
    <3> QED  BY <3>1, <3>2
  <2>9. DOMAIN s = 1..(n - h + 1) /\ Len(s) \in Nat /\ Len(s) >= 1 /\ s # <<>>
    <3>1. Len(s) >= 1  BY <1>1, <2>8
    <3> QED  BY <2>8, <3>1, BucketType
  <2>10. \A j \in 1..(n - h + 1) : j + h - 1 \in 1..n  BY <1>1, <2>8
  <2>11. \A i, j \in 1..(n - h + 1) : i < j => s[j].start - s[i].start >= ALERT_WINDOW
    <3> SUFFICES ASSUME NEW i \in 1..(n - h + 1), NEW j \in 1..(n - h + 1), i < j
                 PROVE  s[j].start - s[i].start >= ALERT_WINDOW
      OBVIOUS
    <3>1. s[i] = all[i + h - 1] /\ s[j] = all[j + h - 1]  BY <2>8
    <3>2. i + h - 1 < j + h - 1  BY <2>8
    <3>3. i + h - 1 \in 1..n /\ j + h - 1 \in 1..n  BY <2>10
    <3> QED  BY <2>4, <3>1, <3>2, <3>3
  <2>12. \A j \in 1..(n - h + 1) : s[j].failed <= s[j].total
    <3>1. \A i \in 1..n : all[i].failed <= all[i].total
      <4> SUFFICES ASSUME NEW i \in 1..n PROVE all[i].failed <= all[i].total  OBVIOUS
      <4>1. i = n \/ i \in 1..k  BY <1>1
      <4> QED  BY <1>1, <2>1, <2>3, <4>1
    <3> QED  BY <2>8, <2>10, <3>1
  <2>13. BucketsOK(s)  BY <1>1, <1>2, <2>8, <2>9, <2>11, <2>12 DEF BucketsOK
  <2>14. Total(s) <= Total(all)
    <3>1. h \in 1..Len(all) /\ DOMAIN s = 1..(Len(all) - h + 1)  BY <2>3, <2>8, <2>9
    <3>2. \A j \in DOMAIN s : s[j] = all[j + h - 1]  BY <2>8, <2>9
    <3> QED  BY <2>3, <2>8, <3>1, <3>2, SuffixOfBuckets
  <2>15. Total(all) = Total(bs)
    <3>1. SumFunctionOnSet(TotalsOf(all), 1..n) = TotalsOf(all)[n] + SumFunctionOnSet(TotalsOf(all), 1..(n - 1))
      <4>1. n \in Nat \ {0}  BY <1>1
      <4>2. IntsOn(TotalsOf(all), 1..n)  BY <2>3, BucketSums
      <4> QED  BY <4>1, <4>2, SumOfVector
    <3>2. TotalsOf(all)[n] = 0
      <4>1. n \in 1..Len(all)  BY <1>1, <2>3
      <4> QED  BY <2>1, <2>3, <4>1, BucketSums
    <3>3. SumFunctionOnSet(TotalsOf(bs), 1..k) = SumFunctionOnSet(TotalsOf(all), 1..k)
      <4>1. \A i \in 1..k : TotalsOf(bs)[i] = TotalsOf(all)[i]
        <5> SUFFICES ASSUME NEW i \in 1..k PROVE TotalsOf(bs)[i] = TotalsOf(all)[i]  OBVIOUS
        <5>1. TotalsOf(bs)[i] = bs[i].total  BY <1>1, BucketSums
        <5>2. i \in 1..Len(all)  BY <1>1, <2>3
        <5>3. TotalsOf(all)[i] = all[i].total  BY <2>3, <5>2, BucketSums
        <5> QED  BY <2>3, <5>1, <5>3
      <4> QED  BY <1>1, <4>1, BucketSums, SumEqual
    <3>4. n - 1 = k  BY <1>1
    <3>5. SumFunctionOnSet(TotalsOf(bs), 1..k) = Total(bs) /\ Total(bs) \in Int  BY <1>1, BucketSums
    <3>6. Total(all) = SumFunctionOnSet(TotalsOf(all), 1..n)  BY <2>3, BucketSums
    <3> QED  BY <3>1, <3>2, <3>3, <3>4, <3>5, <3>6
  <2> QED  BY <2>2, <2>9, <2>13, <2>14, <2>15
<1> QED  BY <1>3, <1>4

\* One more outcome in the last bucket.
LEMMA LastBucketGrows ==
    ASSUME NEW bs, BucketsOK(bs), bs # <<>>, NEW b \in Bucket,
           b.start = bs[Len(bs)].start, b.total = bs[Len(bs)].total + 1, b.failed <= b.total
    PROVE  /\ BucketsOK([bs EXCEPT ![Len(bs)] = b])
           /\ Total([bs EXCEPT ![Len(bs)] = b]) = Total(bs) + 1
<1> DEFINE n == Len(bs)
           new == [bs EXCEPT ![n] = b]
<1>1. /\ bs \in Seq(Bucket) /\ n \in Nat /\ n >= 1 /\ DOMAIN bs = 1..n
      /\ \A i \in 1..n : bs[i] \in Bucket /\ bs[i].total \in Nat /\ bs[i].failed <= bs[i].total
      /\ \A i, j \in 1..n : i < j => bs[j].start - bs[i].start >= ALERT_WINDOW
      /\ n <= MAX_BUCKETS
  <2>1. bs \in Seq(Bucket)  BY DEF BucketsOK
  <2>2. n \in Nat /\ n >= 1  BY <2>1
  <2> QED  BY <2>1, <2>2, BucketType DEF BucketsOK
<1>2. n \in 1..n  BY <1>1
<1>3. /\ new \in Seq(Bucket) /\ Len(new) = n /\ DOMAIN new = 1..n /\ new[n] = b
      /\ \A i \in 1..n : i # n => new[i] = bs[i]
  BY <1>1
<1>4. b.start = bs[n].start /\ b.total = bs[n].total + 1 /\ Len(bs) = n  OBVIOUS
<1> HIDE DEF new, n
<1>5. \A i \in 1..n : new[i].start = bs[i].start /\ new[i].failed <= new[i].total
  <2> SUFFICES ASSUME NEW i \in 1..n
               PROVE  new[i].start = bs[i].start /\ new[i].failed <= new[i].total
    OBVIOUS
  <2>1. CASE i = n  BY <1>3, <1>4, <2>1
  <2>2. CASE i # n  BY <1>1, <1>3, <2>2
  <2> QED  BY <2>1, <2>2
<1>6. BucketsOK(new)  BY <1>1, <1>3, <1>5 DEF BucketsOK
<1>7. Total(new) = Total(bs) + 1
  <2> DEFINE tn == TotalsOf(new)
             tb == TotalsOf(bs)
  <2>1. n \in Nat \ {0} /\ n - 1 \in Nat  BY <1>1
  <2>2. /\ Total(new) = SumFunctionOnSet(tn, 1..n) /\ IntsOn(tn, 1..n)
        /\ \A i \in 1..n : tn[i] = new[i].total
    BY <1>3, BucketSums
  <2>3. /\ Total(bs) = SumFunctionOnSet(tb, 1..n) /\ IntsOn(tb, 1..n)
        /\ \A i \in 1..n : tb[i] = bs[i].total
    BY <1>1, <1>4, BucketSums
  <2> HIDE DEF tn, tb
  <2>4. /\ SumFunctionOnSet(tn, 1..n) = tn[n] + SumFunctionOnSet(tn, 1..(n - 1))
        /\ SumFunctionOnSet(tb, 1..n) = tb[n] + SumFunctionOnSet(tb, 1..(n - 1))
        /\ SumFunctionOnSet(tb, 1..(n - 1)) \in Int
    BY <2>1, <2>2, <2>3, SumOfVector
  <2>5. \A i \in 1..(n - 1) : i \in 1..n /\ i # n  BY <2>1
  <2>6. \A i \in 1..(n - 1) : tn[i] = tb[i]  BY <1>3, <2>2, <2>3, <2>5
  <2>7. IsFiniteSet(1..(n - 1)) /\ IntsOn(tn, 1..(n - 1))
    <3>1. IsFiniteSet(1..(n - 1))  BY <2>1, FS_Interval
    <3> QED  BY <2>2, <2>5, <3>1 DEF IntsOn
  <2>8. SumFunctionOnSet(tn, 1..(n - 1)) = SumFunctionOnSet(tb, 1..(n - 1))  BY <2>6, <2>7, SumEqual
  <2>9. tn[n] = tb[n] + 1 /\ tb[n] \in Int  BY <1>1, <1>2, <1>3, <1>4, <2>2, <2>3
  <2> QED  BY <2>2, <2>3, <2>4, <2>8, <2>9
<1> QED  BY <1>6, <1>7 DEF new, n

LEMMA CountedBucket ==
    ASSUME NEW x \in Bucket, x.failed <= x.total, NEW success \in BOOLEAN
    PROVE  LET b == [x EXCEPT !.total = @ + 1, !.failed = IF success THEN @ ELSE @ + 1]
           IN  b \in Bucket /\ b.start = x.start /\ b.total = x.total + 1 /\ b.failed <= b.total
<1>1. x.total \in Nat /\ x.failed \in Nat  BY DEF Bucket
<1>2. PICK f \in Nat : f = IF success THEN x.failed ELSE x.failed + 1  BY <1>1
<1>3. f <= x.total + 1  BY <1>1, <1>2
<1>4. PICK t \in Nat : t = x.total + 1  BY <1>1
<1> DEFINE b == [x EXCEPT !.total = t, !.failed = f]
<1>5. b \in Bucket /\ b.start = x.start /\ b.total = t /\ b.failed = f  BY DEF Bucket
<1>6. b = [x EXCEPT !.total = @ + 1, !.failed = IF success THEN @ ELSE @ + 1]
  BY <1>2, <1>4 DEF Bucket
<1> HIDE DEF b
<1> QED  BY <1>3, <1>4, <1>5, <1>6

LEMMA CountingKeepsBuckets ==
    ASSUME NEW bs, BucketsOK(bs), bs # <<>>, NEW success \in BOOLEAN, NEW new,
           new = [bs EXCEPT ![Len(bs)].total = @ + 1, ![Len(bs)].failed = IF success THEN @ ELSE @ + 1]
    PROVE  BucketsOK(new) /\ Total(new) = Total(bs) + 1
<1> DEFINE n == Len(bs)
           x == bs[n]
           b == [x EXCEPT !.total = @ + 1, !.failed = IF success THEN @ ELSE @ + 1]
<1>1. bs \in Seq(Bucket) /\ n \in 1..n /\ DOMAIN bs = 1..n  BY DEF BucketsOK
<1>2. x \in Bucket /\ x.failed <= x.total  BY <1>1 DEF BucketsOK
<1>3. new = [bs EXCEPT ![n] = b]  BY <1>1
<1>4. b \in Bucket /\ b.start = x.start /\ b.total = x.total + 1 /\ b.failed <= b.total
  BY <1>2, CountedBucket
<1> HIDE DEF b
<1>5. BucketsOK([bs EXCEPT ![n] = b]) /\ Total([bs EXCEPT ![n] = b]) = Total(bs) + 1
  BY <1>4, LastBucketGrows, Zenon
<1> QED  BY <1>3, <1>5, Zenon

LEMMA OutcomeKeepsBuckets ==
    ASSUME AlertInv, NEW c \in Watched, NEW success \in BOOLEAN, updateContractMetrics(c, success)
    PROVE  /\ totals' \in [Watched -> Nat] /\ DOMAIN buckets' = Watched
           /\ \A d \in Watched : BucketsOK(buckets'[d]) /\ Total(buckets'[d]) <= totals'[d]
<1> DEFINE bs == OpenBucket(buckets[c])
           new == [bs EXCEPT ![Len(bs)].total = @ + 1, ![Len(bs)].failed = IF success THEN @ ELSE @ + 1]
<1>1. buckets' = [buckets EXCEPT ![c] = new] /\ totals' = [totals EXCEPT ![c] = @ + 1]
  BY DEF updateContractMetrics
<1>2. /\ second \in Int /\ totals \in [Watched -> Nat] /\ DOMAIN buckets = Watched
      /\ \A d \in Watched : BucketsOK(buckets[d]) /\ Total(buckets[d]) <= totals[d]
  BY DEF AlertInv
<1>3. BucketsOK(bs) /\ bs # <<>> /\ Total(bs) <= Total(buckets[c])
  BY <1>2, OpeningKeepsBuckets
<1>4. Total(bs) \in Int /\ Total(buckets[c]) \in Int /\ totals[c] \in Nat
  BY <1>2, <1>3, BucketSums DEF BucketsOK
<1> HIDE DEF bs
<1>5. BucketsOK(new) /\ Total(new) = Total(bs) + 1
  BY <1>3, CountingKeepsBuckets
<1> HIDE DEF new
<1>6. /\ totals' \in [Watched -> Nat] /\ totals'[c] = totals[c] + 1
      /\ \A d \in Watched : d # c => totals'[d] = totals[d]
  BY <1>1, <1>2
<1>7. /\ DOMAIN buckets' = Watched /\ buckets'[c] = new
      /\ \A d \in Watched : d # c => buckets'[d] = buckets[d]
  BY <1>1, <1>2
<1>8. Total(new) <= totals'[c]  BY <1>2, <1>3, <1>4, <1>5, <1>6
<1> QED  BY <1>2, <1>5, <1>6, <1>7, <1>8

\* Whether or not the alert goes out.
LEMMA SendingKeepsSpacing ==
    ASSUME AlertInv, NEW c \in Watched, NEW kind \in Kind,
           shouldSendAlert(c, kind) \/ UNCHANGED <<alertState, alerts>>
    PROVE  /\ alertState' \in [Watched \X Kind -> Int]
           /\ \A k \in Watched \X Kind : alertState'[k] <= second
           /\ alerts' \subseteq [about : Watched \X Kind, at : Int]
           /\ \A a \in alerts' : a.at <= alertState'[a.about]
           /\ \A a, b \in alerts' : a.about = b.about /\ a.at < b.at => b.at - a.at >= DedupeWindow
<1> DEFINE k == <<c, kind>>
           new == [about |-> k, at |-> second]
<1>1. /\ second \in Int /\ DedupeWindow \in Nat /\ alertState \in [Watched \X Kind -> Int]
      /\ \A x \in Watched \X Kind : alertState[x] <= second
      /\ alerts \subseteq [about : Watched \X Kind, at : Int]
      /\ \A a \in alerts : a.at <= alertState[a.about]
      /\ \A a, b \in alerts : a.about = b.about /\ a.at < b.at => b.at - a.at >= DedupeWindow
  BY Windows DEF AlertInv
<1>2. k \in Watched \X Kind  OBVIOUS
<1>3. new.about = k /\ new.at = second /\ new \in [about : Watched \X Kind, at : Int]  BY <1>1, <1>2
<1>4. CASE UNCHANGED <<alertState, alerts>>  BY <1>1, <1>4
<1>5. CASE ~(UNCHANGED <<alertState, alerts>>)
  <2>1. /\ ~(second - alertState[k] < DedupeWindow)
        /\ alertState' = [alertState EXCEPT ![k] = second]
        /\ alerts' = alerts \cup {new}
    BY <1>5 DEF shouldSendAlert
  <2> HIDE DEF k, new
  <2>2. alertState[k] \in Int /\ second - alertState[k] >= DedupeWindow  BY <1>1, <1>2, <2>1
  <2>3. /\ alertState' \in [Watched \X Kind -> Int] /\ alertState'[k] = second
        /\ \A x \in Watched \X Kind : x # k => alertState'[x] = alertState[x]
    BY <1>1, <1>2, <2>1
  <2>4. \A x \in Watched \X Kind : alertState'[x] <= second /\ alertState[x] <= alertState'[x]
    <3>1. \A x \in Watched \X Kind : alertState[x] \in Int  BY <1>1
    <3> QED  BY <1>1, <2>3, <3>1
  <2>5. alerts' \subseteq [about : Watched \X Kind, at : Int]  BY <1>1, <1>3, <2>1
  <2>6. \A a \in alerts : /\ a.about \in Watched \X Kind /\ a.at \in Int /\ a.at <= alertState[a.about]
                          /\ alertState[a.about] \in Int
    BY <1>1
  <2>7. \A a \in alerts' : a.at <= alertState'[a.about]
    <3> SUFFICES ASSUME NEW a \in alerts' PROVE a.at <= alertState'[a.about]  OBVIOUS
    <3>1. CASE a = new  BY <1>1, <1>3, <2>3, <3>1
    <3>2. CASE a \in alerts
      <4>1. alertState'[a.about] \in Int  BY <2>3, <2>6, <3>2
      <4> QED  BY <2>4, <2>6, <3>2, <4>1
    <3> QED  BY <2>1, <3>1, <3>2
  <2>8. \A a \in alerts : /\ a.about = k => second - a.at >= DedupeWindow
                          /\ a.at <= second
    <3>1. \A a \in alerts : alertState[a.about] <= second  BY <1>1, <2>6
    <3> QED  BY <1>1, <2>2, <2>6, <3>1
  <2>9. ASSUME NEW a \in alerts', NEW b \in alerts', a.about = b.about, a.at < b.at
        PROVE  b.at - a.at >= DedupeWindow
    <3>1. CASE a \in alerts /\ b \in alerts  BY <1>1, <2>9, <3>1
    <3>2. CASE b = new /\ a \in alerts  BY <1>3, <2>8, <2>9, <3>2
    <3>3. CASE a = new
      <4>1. b \in alerts => b.at \in Int /\ b.at <= second  BY <2>6, <2>8
      <4> QED  BY <1>1, <1>3, <2>1, <2>9, <3>3, <4>1
    <3> QED  BY <2>1, <3>1, <3>2, <3>3
  <2> QED  BY <2>3, <2>4, <2>5, <2>7, <2>9
<1> QED  BY <1>4, <1>5

LEMMA AlertStarts == AlertInit => AlertInv
<1> SUFFICES ASSUME AlertInit PROVE AlertInv  OBVIOUS
<1>1. /\ second = DedupeWindow /\ buckets = [c \in Watched |-> <<>>] /\ totals = [c \in Watched |-> 0]
      /\ alertState = [k \in Watched \X Kind |-> 0] /\ alerts = {}
  BY DEF AlertInit
<1>2. BucketsOK(<<>>)  BY RoomForABucket DEF BucketsOK
<1>3. Total(<<>>) = 0  BY SumEmpty DEF Total, SumFunction
<1>4. second \in Int /\ 0 <= second  BY <1>1, Windows
<1> QED  BY <1>1, <1>2, <1>3, <1>4 DEF AlertInv

LEMMA AlertStep ==
    ASSUME AlertInv, AlertNext \/ UNCHANGED alertVars
    PROVE  AlertInv'
<1> DEFINE Kept == /\ second' = second /\ buckets' = buckets /\ totals' = totals
                   /\ alertState' = alertState /\ alerts' = alerts
<1>1. CASE Kept  BY <1>1 DEF AlertInv, BucketsOK
<1>2. CASE SecondPasses
  <2>1. /\ second' = second + 1 /\ buckets' = buckets /\ totals' = totals
        /\ alertState' = alertState /\ alerts' = alerts
    BY <1>2 DEF SecondPasses
  <2>2. second \in Int /\ \A k \in Watched \X Kind : alertState[k] \in Int /\ alertState[k] <= second
    BY DEF AlertInv
  <2>3. second' \in Int /\ \A k \in Watched \X Kind : alertState'[k] <= second'  BY <2>1, <2>2
  <2> QED  BY <2>1, <2>3 DEF AlertInv, BucketsOK
<1>3. ASSUME NEW c \in Watched, NEW success \in BOOLEAN, NEW anomaly \in BOOLEAN,
             recordDistributionOutcome(c, success, anomaly)
      PROVE  AlertInv'
  <2>1. /\ updateContractMetrics(c, success) /\ second' = second
        /\ shouldSendAlert(c, "anomaly") \/ UNCHANGED <<alertState, alerts>>
    BY <1>3 DEF recordDistributionOutcome
  <2>2. "anomaly" \in Kind /\ second \in Int  BY DEF Kind, AlertInv
  <2>3. /\ totals' \in [Watched -> Nat] /\ DOMAIN buckets' = Watched
        /\ \A d \in Watched : BucketsOK(buckets'[d]) /\ Total(buckets'[d]) <= totals'[d]
    BY <2>1, OutcomeKeepsBuckets
  <2>4. /\ alertState' \in [Watched \X Kind -> Int]
        /\ \A k \in Watched \X Kind : alertState'[k] <= second
        /\ alerts' \subseteq [about : Watched \X Kind, at : Int]
        /\ \A a \in alerts' : a.at <= alertState'[a.about]
        /\ \A a, b \in alerts' : a.about = b.about /\ a.at < b.at => b.at - a.at >= DedupeWindow
    BY <2>1, <2>2, SendingKeepsSpacing
  <2> QED  BY <2>1, <2>2, <2>3, <2>4 DEF AlertInv, BucketsOK
<1>4. ASSUME NEW p \in AlertPass, NEW c \in Watched, evaluateErrorRateAlerts(p, c)
      PROVE  AlertInv'
  <2>1. /\ second' = second /\ buckets' = buckets /\ totals' = totals
        /\ shouldSendAlert(c, "error_rate") \/ UNCHANGED <<alertState, alerts>>
    BY <1>4 DEF evaluateErrorRateAlerts
  <2>2. "error_rate" \in Kind  BY DEF Kind
  <2>3. /\ alertState' \in [Watched \X Kind -> Int]
        /\ \A k \in Watched \X Kind : alertState'[k] <= second
        /\ alerts' \subseteq [about : Watched \X Kind, at : Int]
        /\ \A a \in alerts' : a.at <= alertState'[a.about]
        /\ \A a, b \in alerts' : a.about = b.about /\ a.at < b.at => b.at - a.at >= DedupeWindow
    BY <2>1, <2>2, SendingKeepsSpacing
  <2> QED  BY <2>1, <2>3 DEF AlertInv, BucketsOK
<1>5. CASE configureAlertRules  BY <1>1, <1>5 DEF configureAlertRules
<1>6. ASSUME NEW p \in AlertPass, startAlertMonitor(p) \/ postToWebhook(p) PROVE AlertInv'
  BY <1>1, <1>6 DEF startAlertMonitor, postToWebhook
<1>7. CASE UNCHANGED alertVars  BY <1>1, <1>7 DEF alertVars
<1> QED  BY <1>2, <1>3, <1>4, <1>5, <1>6, <1>7 DEF AlertNext

LEMMA AlertsHold == AlertInv => AlertsAreSpaced
BY NoMoreFailures DEF AlertInv, AlertsAreSpaced, BucketsOK

-----------------------------------------------------------------------------
AdmissionInv == NonceInv /\ KeyInv /\ MeterInv

LEMMA AdmissionStep ==
    ASSUME AdmissionInv, [BackstageNext]_mcVars
    PROVE  AdmissionInv'
<1> USE DEF AdmissionInv
<1>1. /\ NonceNext \/ UNCHANGED nonceVars
      /\ KeyNext \/ UNCHANGED keyVars
      /\ MeterNext \/ UNCHANGED meterVars
  BY DEF BackstageNext, PlatformNext, mcVars, platformVars, accessVars
<1>2. NonceInv'  BY <1>1, NonceStep
<1>3. KeyInv'  BY <1>1, KeyStep
<1>4. MeterInv'  BY <1>1, MeterStep
<1> QED  BY <1>2, <1>3, <1>4

\* For any nonces, size of the cache and instants at which requests arrive, a nonce passes
\* once unless a full cache pushed it out; whatever mixture of environment, file and
\* rotation, the key in use is the one of the source that the status names; and the
\* overview, the list and the page of a key count the same requests and refusals
\* (verify-signature.js, key-store.js, api-key-analytics.js).
THEOREM AdmissionStaysExact == BackstageSpec => []AdmissionIsExact
<1>1. BackstageInit => AdmissionInv
  BY NonceStarts, KeyStarts, MeterStarts DEF BackstageInit, AdmissionInv
<1>2. AdmissionInv /\ [BackstageNext]_mcVars => AdmissionInv'  BY AdmissionStep
<1>3. AdmissionInv => AdmissionIsExact
  BY KeyHolds, UsageHolds DEF AdmissionInv, NonceInv, AdmissionIsExact
<1> QED  BY <1>1, <1>2, <1>3, PTL DEF BackstageSpec

MonitoringInv == HealthInv /\ AlertInv

LEMMA MonitoringStep ==
    ASSUME MonitoringInv, [BackstageNext]_mcVars
    PROVE  MonitoringInv'
<1> USE DEF MonitoringInv
<1>1. /\ PollNext \/ DetailedNext \/ UNCHANGED healthVars
      /\ AlertNext \/ UNCHANGED alertVars
  BY DEF BackstageNext, PlatformNext, mcVars, platformVars
<1>2. HealthInv'  BY <1>1, HealthStep
<1>3. AlertInv'  BY <1>1, AlertStep
<1> QED  BY <1>2, <1>3

\* However health requests overlap and however long their probes take, a verdict served
\* from the cache is younger than its time to live, snapshots are an interval apart, and a
\* report that is not unhealthy means a ready server; and whatever outcomes and monitor
\* passes overlap, alerts of a kind on a contract are a dedupe window apart and the buckets
\* are bounded and count nothing that was not recorded (health.js, metrics.js).
THEOREM MonitoringStaysHonest == BackstageSpec => []MonitoringIsHonest
<1>1. BackstageInit => MonitoringInv
  BY HealthStarts, AlertStarts DEF BackstageInit, MonitoringInv
<1>2. MonitoringInv /\ [BackstageNext]_mcVars => MonitoringInv'  BY MonitoringStep
<1>3. MonitoringInv => MonitoringIsHonest
  BY HealthHolds, AlertsHold DEF MonitoringInv, MonitoringIsHonest
<1> QED  BY <1>1, <1>2, <1>3, PTL DEF BackstageSpec
=============================================================================
