------------------------------ MODULE Finality ------------------------------
(***************************************************************************)
(* Finality tracking (backend/src/transaction-finality.js, its table, its  *)
(* routes and its cleanup job): one polling loop per tracked transaction,  *)
(* the registry of active trackers in memory, the record in the database.  *)
(* Time is the age of a record: within the polling window, past it, past   *)
(* the retention of the cleanup job.                                       *)
(***************************************************************************)
EXTENDS WebSocketHub

CONSTANTS
    TrackedHash,        \* Horizon transaction hashes
    NotSent,      \* tx_hash is NULL
    NoRecord,    \* no row in transaction_finality
    MaxRestarts  \* bound on crashes of the process

ASSUME FinalityAssumption ==
    /\ NotSent \notin TrackedHash
    /\ NoRecord \notin [status : {"pending", "confirmed", "failed", "timeout"},
                        hash : TrackedHash \cup {NotSent}]

VARIABLES
    horizon,           \* what Horizon answers for each hash: not_found until it settles
    record,          \* transaction_finality, by transaction_id
    age,             \* "window", "late" or "old", by transaction_id
    loop,            \* the polling loop: where it is, the hash it holds, signal.aborted
    activeTrackers,  \* _activeTrackers
    restarts

finalityVars == <<horizon, record, age, loop, activeTrackers, restarts>>
pushVars == <<hubVars, finalityVars>>

Definitive == {"confirmed", "failed"}
NoLoop == [at |-> "ended", hash |-> NotSent, aborted |-> FALSE]
Running(t) == loop[t].at # "ended"

FinalityInit ==
    /\ HubInit
    /\ horizon = [h \in TrackedHash |-> "not_found"]
    /\ record = [t \in Tx |-> NoRecord]
    /\ age = [t \in Tx |-> "window"]
    /\ loop = [t \in Tx |-> NoLoop]
    /\ activeTrackers = {}
    /\ restarts = 0

\* A submitted transaction settles on the ledger.
HorizonSettles(h) ==
    /\ horizon[h] = "not_found"
    /\ \E outcome \in Definitive : horizon' = [horizon EXCEPT ![h] = outcome]
    /\ UNCHANGED <<hubVars, record, age, loop, activeTrackers, restarts>>

\* The polling window and, long after every loop has ended, the retention pass.
Age(t) ==
    /\ record[t] # NoRecord
    /\ \/ age[t] = "window" /\ age' = [age EXCEPT ![t] = "late"]
       \/ age[t] = "late" /\ ~Running(t) /\ age' = [age EXCEPT ![t] = "old"]
    /\ UNCHANGED <<hubVars, horizon, record, loop, activeTrackers, restarts>>

-----------------------------------------------------------------------------
\* POST /:id/finality.

createFinalityRecord(t, h) ==
    /\ record[t] = NoRecord  \* transaction_id is UNIQUE
    /\ record' = [record EXCEPT ![t] = [status |-> "pending", hash |-> h]]
    /\ age' = [age EXCEPT ![t] = "window"]

setFinalityTxHash(t, h) == record' = [record EXCEPT ![t].hash = h]

startTracking(t, h) ==
    /\ t \notin activeTrackers
    /\ createFinalityRecord(t, h)
    /\ activeTrackers' = activeTrackers \cup {t}
    /\ loop' = [loop EXCEPT ![t] = [at |-> "head", hash |-> h, aborted |-> FALSE]]

\* No record: track.  A tracker left over from a deleted record makes the call
\* a no-op, and so is not a step.
PostNew(t, h) ==
    /\ record[t] = NoRecord
    /\ startTracking(t, h)
    /\ UNCHANGED <<hubVars, horizon, restarts>>

\* Mutant: a later hash replaces the one being polled.
NewHash(t, h) == h # NotSent /\ record[t].hash # h

\* updateTxHash only while the record has none.
FirstHash(t, h) == h # NotSent /\ record[t].hash = NotSent

\* A record exists: keep its first hash.  If it is pending and nobody polls it
\* the handler calls startTracking again, whose INSERT meets the UNIQUE
\* constraint: it answers 500 and nothing more changes.
PostHash(t, h) ==
    /\ record[t] # NoRecord
    /\ FirstHash(t, h)
    /\ setFinalityTxHash(t, h)
    /\ UNCHANGED <<hubVars, horizon, age, loop, activeTrackers, restarts>>

\* DELETE /:id/finality: cancelTracking.
cancelTracking(t) ==
    /\ t \in activeTrackers
    /\ loop' = [loop EXCEPT ![t].aborted = TRUE]
    /\ activeTrackers' = activeTrackers \ {t}
    /\ UNCHANGED <<hubVars, horizon, record, age, restarts>>

-----------------------------------------------------------------------------
\* The polling loop, from one await to the next.

\* markFinalityConfirmed, markFinalityFailed, markFinalityTimeout: UPDATE by
\* transaction_id, whatever the status was; no row, no effect.
markFinality(t, status) ==
    record' = IF record[t] = NoRecord THEN record ELSE [record EXCEPT ![t].status = status]

EndLoop(t) == loop' = [loop EXCEPT ![t] = NoLoop]

\* Mutant: the loop's condition is not looked at.
PollWaitForEver(t) ==
    /\ loop[t].at = "head"
    /\ IF loop[t].aborted THEN EndLoop(t) ELSE loop' = [loop EXCEPT ![t].at = "wait"]
    /\ UNCHANGED <<hubVars, horizon, record, age, activeTrackers, restarts>>

\* The loop's condition holds: stop if cancelled, else note the attempt and
\* sleep for the backoff.
PollWait(t) ==
    /\ loop[t].at = "head"
    /\ age[t] = "window"
    /\ IF loop[t].aborted THEN EndLoop(t) ELSE loop' = [loop EXCEPT ![t].at = "wait"]
    /\ UNCHANGED <<hubVars, horizon, record, age, activeTrackers, restarts>>

\* After the sleep: stop if cancelled; a loop without a hash looks for one in
\* the record; with one it asks Horizon.
PollWake(t) ==
    /\ loop[t].at = "wait"
    /\ LET h == IF loop[t].hash = NotSent /\ record[t] # NoRecord
                THEN record[t].hash ELSE loop[t].hash
       IN IF loop[t].aborted THEN EndLoop(t)
          ELSE loop' = [loop EXCEPT ![t].hash = h, ![t].at = IF h = NotSent THEN "head" ELSE "poll"]
    /\ UNCHANGED <<hubVars, horizon, record, age, activeTrackers, restarts>>

\* Horizon knows the transaction: the record is settled and broadcast, and the
\* loop returns.  The tracker stays registered, and cancellation is not looked at.
PollSettled(t) ==
    /\ loop[t].at = "poll"
    /\ LET outcome == horizon[loop[t].hash] IN
       /\ outcome \in Definitive
       /\ markFinality(t, outcome)
       /\ broadcastFinalityUpdate(t, outcome)
    /\ EndLoop(t)
    /\ UNCHANGED <<clients, ws, horizon, age, activeTrackers, restarts>>

\* pollHorizonTransaction gives up with a 504, whatever the ledger says by now.
PollAgain(t) ==
    /\ loop[t].at = "poll"
    /\ loop' = [loop EXCEPT ![t].at = "head"]
    /\ UNCHANGED <<hubVars, horizon, record, age, activeTrackers, restarts>>

\* The window has passed at the head of the loop.
PollTimeout(t) ==
    /\ loop[t].at = "head"
    /\ age[t] = "late"
    /\ markFinality(t, "timeout")
    /\ broadcastFinalityUpdate(t, "timeout")
    /\ EndLoop(t)
    /\ activeTrackers' = activeTrackers \ {t}
    /\ UNCHANGED <<clients, ws, horizon, age, restarts>>

-----------------------------------------------------------------------------
deleteOldFinalityRecords(cutoff) ==
    record' = [t \in Tx |-> IF age[t] = cutoff THEN NoRecord ELSE record[t]]

\* executeFinalityCleanup: settled or not, a record past its retention goes.
FinalityCleanup ==
    /\ \E t \in Tx : record[t] # NoRecord /\ age[t] = "old"
    /\ deleteOldFinalityRecords("old")
    /\ UNCHANGED <<hubVars, horizon, age, loop, activeTrackers, restarts>>

\* The process dies: loops, registry and sockets are gone, the table stays.
Restart ==
    /\ restarts < MaxRestarts
    /\ restarts' = restarts + 1
    /\ loop' = [t \in Tx |-> NoLoop]
    /\ activeTrackers' = {}
    /\ clients' = [k \in Key |-> {}]
    /\ ws' = [s \in Socket |-> IF Open(s) THEN [ws[s] EXCEPT !.state = "closed"] ELSE ws[s]]
    /\ UNCHANGED <<horizon, record, age, inbox>>

Poll(t) == PollWait(t) \/ PollWake(t) \/ PollSettled(t) \/ PollAgain(t) \/ PollTimeout(t)

FinalityNext ==
    \/ HubNext /\ UNCHANGED finalityVars
    \/ \E h \in TrackedHash : HorizonSettles(h)
    \/ FinalityCleanup \/ Restart
    \/ \E t \in Tx :
          \/ Age(t) \/ cancelTracking(t) \/ Poll(t)
          \/ \E h \in TrackedHash \cup {NotSent} : PostNew(t, h) \/ PostHash(t, h)

\* Everything that pushes, at once: tracking, announcements, notifications.
PushNext ==
    \/ FinalityNext /\ UNCHANGED noticeVars
    \/ NotificationsNext /\ UNCHANGED finalityVars
    \/ (\E t \in Tx : Announce(t)) /\ UNCHANGED <<finalityVars, noticeVars>>

PushSpec == FinalityInit /\ NotificationsInit /\ [][PushNext]_<<pushVars, noticeVars>>

-----------------------------------------------------------------------------
\* A record says confirmed or failed only if the ledger says so of the hash the
\* record carries: a hash attached while a loop polls, a cancellation and a late
\* answer included.
SettledMatchesLedger ==
    \A t \in Tx : record[t] # NoRecord /\ record[t].status \in Definitive =>
        record[t].hash # NotSent /\ record[t].status = horizon[record[t].hash]

\* While its record exists a transaction has one verdict: no loop overwrites
\* what an earlier one, or its own timeout, wrote.
OneVerdict ==
    [][\A t \in Tx :
          record[t] # NoRecord /\ record'[t] # NoRecord /\ record[t].status # "pending"
             => record'[t].status = record[t].status]_pushVars

\* Whoever is subscribed to a record when it settles has been told its status:
\* an open finality subscriber never waits for news already in the table.
SubscribersHearTheVerdict ==
    [][\A t \in Tx, s \in Socket :
          /\ record[t] # NoRecord /\ record'[t] # NoRecord
          /\ record[t].status # record'[t].status
          /\ Open(s) /\ s \in clients[FinalityKey(t)]
          => <<t, record'[t].status>> \in inbox'[s]]_pushVars

\* A loop that is running ends, and unless it is cancelled or the process dies it
\* leaves a verdict: polling never goes on for ever.
LoopLeavesVerdict ==
    \A t \in Tx :
        Running(t) ~> \/ ~Running(t) /\ (record[t] = NoRecord \/ record[t].status # "pending")
                      \/ t \notin activeTrackers
=============================================================================
