--------------------------- MODULE ConnectionPool ---------------------------
(***************************************************************************)
(* The SQLite connection pool (database/pool.js) and the monitor that      *)
(* probes it (database/health-monitor.js).                                 *)
(*                                                                         *)
(* A caller runs one query through the pool.  When its wait times out, the *)
(* timer looks for it among the waiters by its resolve function, but the   *)
(* queue holds a wrapper of that function: the waiter is not found, stays  *)
(* queued, and a connection released to it later is never given back.      *)
(***************************************************************************)
EXTENDS Integers, Sequences, FiniteSets, SequencesExt

CONSTANTS
    Conn,             \* POOL_SIZE connections
    Caller,           \* users of the pool
    Probe,            \* the caller that is the monitor's check
    MaxAcquires,      \* bound on the acquires counter
    FailuresToDrain   \* consecutive failures before a reconnection

ASSUME ProbeCalls == Probe \in Caller

VARIABLES
    available,        \* a stack
    waiters,          \* the queue: caller, and whether it still waits
    use,              \* per caller: idle, waiting, or the connection it holds
    active,           \* metrics.activeConnections
    queueLength, timeouts, acquires,
    draining, closed,
    failures,         \* consecutiveFailures
    reconnecting      \* attemptReconnection is at work: no, sleeping, draining

poolVars == <<available, waiters, use, active, queueLength, timeouts, acquires, draining, closed,
              failures, reconnecting>>

Idling == "idle"
Waiting == "waiting"

ASSUME PoolAssumption == IsFiniteSet(Conn) /\ Idling \notin Conn /\ Waiting \notin Conn

PoolInit ==
    /\ available = SetToSeq(Conn)
    /\ waiters = <<>>
    /\ use = [c \in Caller |-> Idling]
    /\ active = 0 /\ queueLength = 0 /\ timeouts = 0 /\ acquires = 0
    /\ draining = FALSE /\ closed = FALSE
    /\ failures = 0
    /\ reconnecting = "no"

Monitor == <<failures, reconnecting>>
Drainage == <<draining, closed>>

-----------------------------------------------------------------------------

acquire(c) ==
    /\ use[c] = Idling /\ ~draining
    /\ acquires < MaxAcquires
    /\ acquires' = acquires + 1
    /\ IF available # <<>>
         THEN /\ use' = [use EXCEPT ![c] = Last(available)]
              /\ available' = Front(available)
              /\ active' = active + 1
              /\ UNCHANGED <<waiters, queueLength>>
         ELSE /\ use' = [use EXCEPT ![c] = Waiting]
              /\ waiters' = Append(waiters, [caller |-> c, waits |-> TRUE])
              /\ queueLength' = queueLength + 1
              /\ UNCHANGED <<available, active>>
    /\ UNCHANGED <<timeouts, Drainage>>

\* The timer: findIndex never finds the waiter.
AcquireTimesOut(c) ==
    /\ use[c] = Waiting
    /\ use' = [use EXCEPT ![c] = Idling]
    /\ waiters' = [i \in DOMAIN waiters |->
                     IF waiters[i].caller = c THEN [waiters[i] EXCEPT !.waits = FALSE] ELSE waiters[i]]
    /\ queueLength' = queueLength - 1
    /\ timeouts' = timeouts + 1
    /\ UNCHANGED <<available, active, acquires, Drainage>>

\* A waiter that has timed out takes the connection with it.
release(c) ==
    /\ use[c] \in Conn
    /\ IF waiters # <<>>
         THEN /\ waiters' = Tail(waiters)
              /\ use' = [d \in Caller |->
                            IF Head(waiters).waits /\ d = Head(waiters).caller THEN use[c]
                            ELSE IF d = c THEN Idling ELSE use[d]]
              /\ queueLength' = queueLength - 1
              /\ UNCHANGED <<available, active>>
         ELSE /\ use' = [use EXCEPT ![c] = Idling]
              /\ available' = Append(available, use[c])
              /\ active' = active - 1
              /\ UNCHANGED <<waiters, queueLength>>
    /\ UNCHANGED <<timeouts, acquires, Drainage>>

\* Users of the pool other than the monitor; run releases whatever fn does.
run(c) ==
    /\ c # Probe
    /\ acquire(c) \/ release(c) \/ AcquireTimesOut(c)
    /\ UNCHANGED Monitor

-----------------------------------------------------------------------------
\* The monitor.

getMetrics == [draining |-> draining, timeouts |-> timeouts, acquires |-> acquires]

\* More than a tenth of all acquires so far timed out.
HighTimeoutRate == timeouts > 0 /\ 10 * timeouts > acquires
Unhealthy == getMetrics.draining \/ HighTimeoutRate

Failed == failures' = IF failures < FailuresToDrain THEN failures + 1 ELSE failures

\* A check that fails before it asks for a connection.
CheckFailsAtOnce ==
    /\ use[Probe] = Idling
    /\ Unhealthy
    /\ Failed
    /\ UNCHANGED <<available, waiters, use, active, queueLength, timeouts, acquires, Drainage,
                   reconnecting>>

checkConnectionHealthAsync ==
    /\ ~Unhealthy
    /\ acquire(Probe)
    /\ UNCHANGED Monitor

CheckAnswers ==
    /\ release(Probe)
    /\ \/ failures' = 0           \* the query answered
       \/ Failed                  \* the query threw
    /\ UNCHANGED reconnecting

CheckTimesOut ==
    /\ AcquireTimesOut(Probe)
    /\ Failed
    /\ UNCHANGED reconnecting

\* One attempt at a time is followed: a second would drain the same pool.
_runCheck ==
    /\ use[Probe] = Idling /\ reconnecting = "no"
    /\ failures >= FailuresToDrain
    /\ reconnecting' = "sleeping"
    /\ UNCHANGED <<available, waiters, use, active, queueLength, timeouts, acquires, Drainage,
                   failures>>

\* After its backoff the reconnection drains the pool; nothing opens it again.
attemptReconnection ==
    /\ reconnecting = "sleeping"
    /\ draining' = TRUE
    /\ reconnecting' = "draining"
    /\ UNCHANGED <<available, waiters, use, active, queueLength, timeouts, acquires, closed,
                   failures>>

drain ==
    /\ draining /\ ~closed
    /\ active = 0
    /\ closed' = TRUE

ReconnectionEnds ==
    /\ reconnecting = "draining"
    /\ drain
    /\ reconnecting' = "no"
    /\ Failed                     \* the check after it finds the pool draining
    /\ UNCHANGED <<available, waiters, use, active, queueLength, timeouts, acquires, draining>>

PoolNext ==
    \/ \E c \in Caller : run(c)
    \/ CheckFailsAtOnce \/ checkConnectionHealthAsync \/ CheckAnswers \/ CheckTimesOut
    \/ _runCheck \/ attemptReconnection \/ ReconnectionEnds

-----------------------------------------------------------------------------
Holders(k) == {c \in Caller : use[c] = k}

\* A connection has one user: it is on the stack or with one caller, never both
\* and never twice, though a late release may lose it; the count of active ones
\* covers every caller that holds one, so that a drain closes none in use.
ConnectionsAreExclusive ==
    /\ \A k \in Conn :
          Cardinality(Holders(k)) + Cardinality({i \in DOMAIN available : available[i] = k}) <= 1
    /\ active = Cardinality(Conn) - Len(available)
    /\ closed => \A c \in Caller : use[c] \notin Conn
=============================================================================
