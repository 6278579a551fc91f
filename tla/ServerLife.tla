----------------------------- MODULE ServerLife -----------------------------
(***************************************************************************)
(* The life of the server process: migrations at start-up                  *)
(* (database/core.js), serving (index.js), graceful shutdown (shutdown.js) *)
(* and whatever kills it in between; only the database survives.           *)
(*                                                                         *)
(* A migration is its version; its SQL takes effect or throws.             *)
(***************************************************************************)
EXTENDS Integers, Sequences, FiniteSets

CONSTANTS
    Client,           \* HTTP connections, one request at a time each
    SocketClient,     \* WebSocket connections
    MaxStarts         \* bound on starts of the process

VARIABLES
    recorded,         \* schema_migrations: durable
    schema,           \* the migrations whose SQL took effect: durable
    process,          \* down, migrating, serving, stopping, exited, killed
    at,               \* the loop's position in migrations
    staged,           \* the SQL of the open transaction has run
    signalled,        \* signals whose once-handler has run
    link,             \* per connection: closed, idle, asking
    response,         \* to a connection's request: none, pending, answered, timeout, refused
    handler,          \* the handler of a connection's request still runs
    sockets,          \* open WebSocket connections
    dbOpen, exitCode, starts

lifeVars == <<recorded, schema, process, at, staged, signalled, link, response, handler, sockets,
              dbOpen, exitCode, starts>>

stored == <<recorded, schema>>
traffic == <<link, response, handler, sockets>>

Signal == {"SIGTERM", "SIGINT"}

LifeInit ==
    /\ recorded = {} /\ schema = {}
    /\ process = "down" /\ at = 1 /\ staged = FALSE
    /\ signalled = {}
    /\ link = [c \in Client |-> "closed"]
    /\ response = [c \in Client |-> "none"]
    /\ handler = [c \in Client |-> FALSE]
    /\ sockets = {}
    /\ dbOpen = FALSE /\ exitCode = -1 /\ starts = 0

-----------------------------------------------------------------------------
\* Start-up.

FirstMigrations == <<1, 3, 4, 2, 5, 6>>
LaterMigrations == <<7, 8, 9, 10, 11, 12, 13>>
migrations == FirstMigrations \o LaterMigrations
Versions == {migrations[i] : i \in DOMAIN migrations}

\* The module that opens the database is evaluated before the server listens.
StartProcess ==
    /\ process \in {"down", "exited", "killed"} /\ starts < MaxStarts
    /\ starts' = starts + 1
    /\ process' = "migrating" /\ at' = 1 /\ staged' = FALSE
    /\ signalled' = {}
    /\ dbOpen' = TRUE /\ exitCode' = -1
    /\ response' = [c \in Client |-> "none"]
    /\ UNCHANGED <<stored, link, handler, sockets>>

\* A version already recorded is passed over.
SkipMigration ==
    /\ process = "migrating" /\ at <= Len(migrations)
    /\ migrations[at] \in recorded
    /\ at' = at + 1
    /\ UNCHANGED <<stored, process, staged, signalled, traffic, dbOpen, exitCode, starts>>

\* db.transaction runs the SQL: nothing is visible until the version is in too.
ExecMigration ==
    /\ process = "migrating" /\ at <= Len(migrations) /\ ~staged
    /\ migrations[at] \notin recorded
    /\ staged' = TRUE
    /\ UNCHANGED <<stored, process, at, signalled, traffic, dbOpen, exitCode, starts>>

CommitMigration ==
    /\ process = "migrating" /\ staged
    /\ recorded' = recorded \cup {migrations[at]}
    /\ schema' = schema \cup {migrations[at]}
    /\ at' = at + 1 /\ staged' = FALSE
    /\ UNCHANGED <<process, signalled, traffic, dbOpen, exitCode, starts>>

\* The SQL throws: the transaction rolls back and start-up ends with it.
MigrationThrows ==
    /\ process = "migrating" /\ staged
    /\ process' = "exited" /\ exitCode' = 1 /\ staged' = FALSE /\ dbOpen' = FALSE
    /\ UNCHANGED <<stored, at, signalled, traffic, starts>>

initializeDatabase == SkipMigration \/ ExecMigration \/ CommitMigration \/ MigrationThrows

startServer ==
    /\ process = "migrating" /\ at > Len(migrations)
    /\ process' = "serving"
    /\ UNCHANGED <<stored, at, staged, signalled, traffic, dbOpen, exitCode, starts>>

\* The highest version recorded, whatever is missing below it.
getMigrationVersion ==
    IF ~dbOpen \/ recorded = {} THEN 0 ELSE CHOOSE v \in recorded : \A w \in recorded : w <= v

checkDatabase == [connected |-> dbOpen, version |-> getMigrationVersion]

-----------------------------------------------------------------------------
\* Serving.

LinkOpens(c) ==
    /\ process = "serving" /\ link[c] = "closed" /\ ~handler[c]
    /\ link' = [link EXCEPT ![c] = "idle"]
    /\ UNCHANGED <<response, handler, sockets>>

SocketOpens(s) ==
    /\ process = "serving"
    /\ sockets' = sockets \cup {s}
    /\ UNCHANGED <<link, response, handler>>

SocketEnds(s) ==
    /\ s \in sockets
    /\ sockets' = sockets \ {s}
    /\ UNCHANGED <<link, response, handler>>

\* A request on a kept-alive connection while stopping: 503, connection closed.
shutdownMiddleware(c) ==
    /\ process \in {"serving", "stopping"} /\ link[c] = "idle" /\ ~handler[c]
    /\ IF process = "stopping"
         THEN /\ link' = [link EXCEPT ![c] = "closed"]
              /\ response' = [response EXCEPT ![c] = "refused"]
              /\ UNCHANGED handler
         ELSE /\ link' = [link EXCEPT ![c] = "asking"]
              /\ response' = [response EXCEPT ![c] = "pending"]
              /\ handler' = [handler EXCEPT ![c] = TRUE]
    /\ UNCHANGED sockets

\* The handler ends: its answer is dropped when the timer has answered before.
HandlerEnds(c) ==
    /\ process \in {"serving", "stopping"} /\ handler[c]
    /\ handler' = [handler EXCEPT ![c] = FALSE]
    /\ IF response[c] = "pending"
         THEN /\ response' = [response EXCEPT ![c] = "answered"]
              /\ link' = [link EXCEPT ![c] = IF process = "stopping" THEN "closed" ELSE "idle"]
         ELSE UNCHANGED <<response, link>>
    /\ UNCHANGED sockets

\* The request timer: 503, though the handler goes on.
RequestTimesOut(c) ==
    /\ process \in {"serving", "stopping"} /\ link[c] = "asking"
    /\ response' = [response EXCEPT ![c] = "timeout"]
    /\ link' = [link EXCEPT ![c] = IF process = "stopping" THEN "closed" ELSE "idle"]
    /\ UNCHANGED <<handler, sockets>>

IdleLinkCloses(c) ==
    /\ link[c] = "idle"
    /\ link' = [link EXCEPT ![c] = "closed"]
    /\ UNCHANGED <<response, handler, sockets>>

Serve ==
    /\ \/ \E c \in Client : LinkOpens(c) \/ shutdownMiddleware(c) \/ HandlerEnds(c)
                             \/ RequestTimesOut(c) \/ IdleLinkCloses(c)
       \/ \E s \in SocketClient : SocketOpens(s) \/ SocketEnds(s)
    /\ UNCHANGED <<stored, process, at, staged, signalled, dbOpen, exitCode, starts>>

-----------------------------------------------------------------------------
\* The end.

\* The handler of a signal runs once; after that the signal kills.
handleShutdown(sig) ==
    /\ process \in {"serving", "stopping"}
    /\ sig \notin signalled
    /\ signalled' = signalled \cup {sig}
    /\ process' = "stopping"            \* a second signal finds isShuttingDown set
    /\ UNCHANGED <<stored, at, staged, traffic, dbOpen, exitCode, starts>>

closeDatabase == dbOpen' = FALSE

\* Every connection ends with the process; handlers stop where they are.
Gone ==
    /\ link' = [c \in Client |-> "closed"]
    /\ handler' = [c \in Client |-> FALSE]
    /\ sockets' = {}

\* Mutant: the process exits without waiting for server.close to call back.
ServerClosesAtOnce ==
    /\ process = "stopping"
    /\ process' = "exited" /\ exitCode' = 0
    /\ closeDatabase
    /\ Gone
    /\ UNCHANGED <<stored, at, staged, signalled, response, starts>>

\* server.close calls back when the last connection has ended, sockets included:
\* they are only closed by onShutdown, after that.
ServerCloses ==
    /\ process = "stopping"
    /\ \A c \in Client : link[c] = "closed"
    /\ sockets = {}
    /\ process' = "exited" /\ exitCode' = 0
    /\ closeDatabase
    /\ Gone
    /\ UNCHANGED <<stored, at, staged, signalled, response, starts>>

\* SHUTDOWN_TIMEOUT_MS after the signal.
forceTimeout ==
    /\ process = "stopping"
    /\ process' = "exited" /\ exitCode' = 1
    /\ closeDatabase
    /\ Gone
    /\ UNCHANGED <<stored, at, staged, signalled, response, starts>>

\* SIGKILL, a repeated signal, a crash: SQLite drops what was not committed.
Killed ==
    /\ process \in {"migrating", "serving", "stopping"}
    /\ process' = "killed" /\ exitCode' = -1
    /\ staged' = FALSE /\ dbOpen' = FALSE
    /\ Gone
    /\ UNCHANGED <<stored, at, signalled, response, starts>>

LifeNext ==
    \/ StartProcess \/ initializeDatabase \/ startServer
    \/ Serve
    \/ \E sig \in Signal : handleShutdown(sig)
    \/ ServerCloses \/ forceTimeout \/ Killed

-----------------------------------------------------------------------------
\* A migration counts as applied exactly when its SQL took effect, the applied
\* ones are a prefix of the list, whatever stopped earlier starts, and requests
\* are served only when the list is through and the database is open.
SchemaIsWhole ==
    /\ recorded = schema
    /\ \E n \in 0..Len(migrations) : recorded = {migrations[i] : i \in 1..n}
    /\ process \in {"serving", "stopping"} => recorded = Versions /\ checkDatabase = [connected |-> TRUE, version |-> 13]

\* A process that exits with 0 has answered every request it admitted.
CleanExitAnswersAll == exitCode = 0 => \A c \in Client : response[c] # "pending"

\* A signal ends the process, whoever stays connected.
SignalEndsProcess == process = "stopping" ~> process \in {"exited", "killed"}
=============================================================================
