--------------------------- MODULE BrowserOffline ---------------------------
(***************************************************************************)
(* The write queue of the web application.  A write the network refuses is *)
(* kept by the service worker in IndexedDB and sent again with a growing   *)
(* delay (drainQueue); the page asks for that every few seconds while it   *)
(* is online (watchConnectivity), shows how many wait (useOfflineQueue,    *)
(* OfflineIndicator) and lets the user drop them (clearQueue).             *)
(*                                                                         *)
(* public/service-worker.js runs beside the page: drains are started       *)
(* whether or not an earlier one has ended.                                *)
(***************************************************************************)
EXTENDS Integers, Sequences, FiniteSets, SequencesExt

CONSTANTS
    Write,            \* writes the user makes
    MaxQueueSize,     \* MAX_QUEUE_SIZE
    MaxBackoff,       \* MAX_BACKOFF_MS, in units of BASE_BACKOFF_MS
    MaxAttempts,      \* bound on the attempts counted: the delay no longer grows
    Drain,            \* drains that may run at once
    Signed,           \* writes to the routes behind verifySignatureMiddleware
    MaxFaults         \* bound on lost connections, lost requests and lost answers

ASSUME QueueAssumption == IsFiniteSet(Write) /\ MaxAttempts \in Nat /\ Signed \subseteq Write

VARIABLES
    onLine,           \* the browser has a network
    fate,             \* per write: what the page was told
    queue,            \* store srs-write-queue: per write, its entry or NotQueued
    drains,           \* per drain: the entries still to be answered, the first of them being sent
    delivered,        \* writes the server has carried out
    spent,            \* writes the server refuses from now on, whatever happens
    discarded,        \* writes the user dropped
    counts,           \* queue sizes on their way to the page, as far as it tells them apart
    pendingCount, online,       \* OfflineIndicator
    retryLoop,
    faults

queueVars == <<onLine, fate, queue, drains, delivered, spent, discarded, counts, pendingCount, online,
               retryLoop, faults>>

NotQueued == [attempts |-> -1, wait |-> 0]
queued == {w \in Write : queue[w] # NotQueued}
queueCount(q) == Cardinality({w \in Write : q[w] # NotQueued})
Size(q) == IF queueCount(q) = 0 THEN "none" ELSE "some"

\* Doubles with every attempt up to the cap.
computeBackoffMs(attempts) == LET delay == 2 ^ attempts IN IF delay < MaxBackoff THEN delay ELSE MaxBackoff

QueueInit ==
    /\ onLine = TRUE /\ online = TRUE /\ retryLoop = TRUE
    /\ fate = [w \in Write |-> "unsent"]
    /\ queue = [w \in Write |-> NotQueued]
    /\ drains = [d \in Drain |-> << >>]
    /\ delivered = {} /\ spent = {} /\ discarded = {}
    /\ counts = {Size(queue)} /\ pendingCount = "none"
    /\ faults = 0

Fault == faults < MaxFaults /\ faults' = faults + 1

-----------------------------------------------------------------------------
\* The page writes; the service worker tries the network first.

WriteGoesThrough(w) ==
    /\ fate[w] = "unsent" /\ onLine
    /\ fate' = [fate EXCEPT ![w] = "answered"]
    /\ delivered' = delivered \cup {w}
    /\ UNCHANGED <<onLine, queue, drains, spent, discarded, counts, pendingCount, online, retryLoop, faults>>

\* The server takes the nonce of a signed write before the route runs, and takes
\* it only once: sent again with the headers it was queued with, it is refused.
NonceSpent(w) == spent' = spent \cup ({w} \cap Signed)

\* Nothing came of it, for lack of a network or by an error that passes, or the
\* server acted and its answer was lost.
RequestOrAnswerLost(w) ==
    /\ IF onLine THEN Fault ELSE UNCHANGED faults
    /\ \/ UNCHANGED <<delivered, spent>>
       \/ onLine /\ delivered' = delivered \cup {w} /\ NonceSpent(w)

\* The fetch fails and enqueueWrite has counted the queue: it is full, or not yet.
WriteFails(w) ==
    /\ fate[w] = "unsent"
    /\ RequestOrAnswerLost(w)
    /\ fate' = [fate EXCEPT ![w] = IF queueCount(queue) >= MaxQueueSize THEN "refused" ELSE "counted"]
    /\ UNCHANGED <<onLine, queue, drains, discarded, counts, pendingCount, online, retryLoop>>

\* The time in its headers leaves the window: signature_expired, for good.
SignatureExpires(w) ==
    /\ fate[w] \in {"counted", "accepted"} /\ w \in Signed \ spent
    /\ spent' = spent \cup {w}
    /\ UNCHANGED <<onLine, fate, queue, drains, delivered, discarded, counts, pendingCount, online,
                   retryLoop, faults>>

broadcastQueueCount(q) == counts' = counts \cup {Size(q)}

\* The count is of before: two writes may take the last place.
enqueueWrite(w) ==
    /\ fate[w] = "counted"
    /\ fate' = [fate EXCEPT ![w] = "accepted"]
    /\ queue' = [queue EXCEPT ![w] = [attempts |-> 0, wait |-> 0]]
    /\ broadcastQueueCount(queue')
    /\ UNCHANGED <<onLine, drains, delivered, spent, discarded, pendingCount, online, retryLoop, faults>>

-----------------------------------------------------------------------------
\* drainQueue.

Due == SetToSeq({w \in queued : queue[w].wait = 0})
DrainIdle(d) == drains[d] = << >>

\* getAll, and the time it is compared with; the order of the entries is any.
StartDrain(d) ==
    drains' = [drains EXCEPT ![d] = [i \in DOMAIN Due |-> [write |-> Due[i], attempts |-> queue[Due[i]].attempts]]]

\* The loop of the page; a drain that finds nothing due ends at once.
requestQueueDrain(d) ==
    /\ retryLoop /\ DrainIdle(d) /\ Due # << >>
    /\ StartDrain(d)
    /\ UNCHANGED <<onLine, fate, queue, delivered, spent, discarded, counts, pendingCount, online, retryLoop, faults>>

\* The next entry; after the last one the count is broadcast.
Advance(d) ==
    /\ drains' = [drains EXCEPT ![d] = Tail(@)]
    /\ IF Len(drains[d]) = 1 THEN broadcastQueueCount(queue') ELSE UNCHANGED counts

\* Mutant: a write is dropped whatever the server says.
DrainDropsFirst(d) ==
    /\ ~DrainIdle(d)
    /\ LET w == Head(drains[d]).write
       IN  /\ queue' = [queue EXCEPT ![w] = NotQueued]
           /\ \/ onLine /\ delivered' = delivered \cup {w} /\ UNCHANGED faults
              \/ UNCHANGED delivered /\ (IF onLine THEN Fault ELSE UNCHANGED faults)
    /\ Advance(d)
    /\ UNCHANGED <<onLine, fate, spent, discarded, pendingCount, online, retryLoop>>

\* The server carried it out and says so: the entry is deleted, whoever wrote it last.
DrainDelivers(d) ==
    /\ ~DrainIdle(d) /\ onLine
    /\ LET w == Head(drains[d]).write
       IN  /\ w \notin spent
           /\ delivered' = delivered \cup {w} /\ NonceSpent(w)
           /\ queue' = [queue EXCEPT ![w] = NotQueued]
    /\ Advance(d)
    /\ UNCHANGED <<onLine, fate, discarded, pendingCount, online, retryLoop, faults>>

\* The entry as it was read is put back, over whatever has become of it since.
rescheduleRetry(item) ==
    LET attempts == IF item.attempts < MaxAttempts THEN item.attempts + 1 ELSE MaxAttempts
    IN  queue' = [queue EXCEPT ![item.write] = [attempts |-> attempts, wait |-> computeBackoffMs(attempts)]]

\* The server refuses what is spent and may refuse any other write for good, as one
\* its schema turns down; every refusal is tried again, like a lost request.
Refused(w) ==
    /\ onLine
    /\ spent' = spent \cup {w}
    /\ UNCHANGED <<delivered, faults>>

DrainFails(d) ==
    /\ ~DrainIdle(d)
    /\ LET item == Head(drains[d])
       IN  /\ \/ Refused(item.write)
              \/ (item.write \notin spent \/ ~onLine) /\ RequestOrAnswerLost(item.write)
           /\ rescheduleRetry(item)
    /\ Advance(d)
    /\ UNCHANGED <<onLine, fate, discarded, pendingCount, online, retryLoop>>

BackoffElapses(w) ==
    /\ queue[w].wait > 0
    /\ queue' = [queue EXCEPT ![w].wait = @ - 1]
    /\ UNCHANGED <<onLine, fate, drains, delivered, spent, discarded, counts, pendingCount, online, retryLoop, faults>>

-----------------------------------------------------------------------------
\* The page.

handleOffline ==
    /\ onLine /\ Fault
    /\ onLine' = FALSE /\ online' = FALSE
    /\ retryLoop' = FALSE
    /\ UNCHANGED <<fate, queue, drains, delivered, spent, discarded, counts, pendingCount>>

handleOnline ==
    /\ ~onLine
    /\ onLine' = TRUE /\ online' = TRUE
    /\ \/ \E d \in Drain : DrainIdle(d) /\ StartDrain(d)
       \/ (\A d \in Drain : ~DrainIdle(d)) /\ UNCHANGED drains
    /\ retryLoop' = TRUE
    /\ UNCHANGED <<fate, queue, delivered, spent, discarded, counts, pendingCount, faults>>

\* subscribeToQueueUpdates, the count read as the page loads and the zero after a clear.
QueueUpdated(n) ==
    /\ n \in counts
    /\ counts' = counts \ {n}
    /\ pendingCount' = n
    /\ UNCHANGED <<onLine, fate, queue, drains, delivered, spent, discarded, online, retryLoop, faults>>

\* The button is there while the indicator counts something.
indicator == IF online /\ pendingCount = "none" THEN "hidden" ELSE IF online THEN "syncing" ELSE "offline"

clearQueue ==
    /\ indicator # "hidden" /\ pendingCount = "some"
    /\ discarded' = discarded \cup queued
    /\ queue' = [w \in Write |-> NotQueued]
    /\ counts' = counts \cup {"none"}
    /\ UNCHANGED <<onLine, fate, drains, delivered, spent, pendingCount, online, retryLoop, faults>>

QueueNext ==
    \/ \E w \in Write : WriteGoesThrough(w) \/ WriteFails(w) \/ enqueueWrite(w) \/ SignatureExpires(w) \/ BackoffElapses(w)
    \/ \E d \in Drain : requestQueueDrain(d) \/ DrainDelivers(d) \/ DrainFails(d)
    \/ handleOffline \/ handleOnline \/ clearQueue
    \/ \E n \in {"none", "some"} : QueueUpdated(n)

QueueSpec == QueueInit /\ [][QueueNext]_queueVars

-----------------------------------------------------------------------------
\* A write the page was told is queued is in the store until a server has carried
\* it out or the user has dropped it, however many drains overlap.
NoWriteIsLost == \A w \in Write : fate[w] = "accepted" => w \in queued \cup delivered \cup discarded

\* With the network back for good and no further request or answer lost, what stays
\* in the queue is what the server refuses for good ("stuck retries"): those are
\* tried for ever, and keep no other write from getting through or being dropped.
WritesGetThrough == <>[]onLine => <>[](queued \subseteq spent)
=============================================================================
