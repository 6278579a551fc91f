\* One socket, wallet and tracked transaction with two hashes and a restart; three
\* recorded transactions, two confirmations at a time, two overlapping retry passes.
SPECIFICATION BackstageSpec
CONSTANTS
    Socket = {s1}
    Wallet = {w1}
    Tx = {1}
    NoWallet = NoWallet
    TrackedHash = {h1, h2}
    NotSent = NotSent
    NoRecord = NoRecord
    MaxRestarts = 1
    Notice = {n1}
    Channel = {"email", "sms", "inApp"}
    Hook = {k1}
    NoNote = NoNote
    Pass = {1, 2}
    MAX_WEBHOOK_RETRIES = 3
    MaxEdits = 2
    MaxTx = 3
    Hash = {h1, h2}
    NoHash = NoHash
    Call = {c1, c2}
    Retention = 1
    BatchSize = 1
    Limit = 1
    MaxClock = 3
    Conn = {k1, k2}
    Caller = {c1, c2, c3}
    Probe = c3
    MaxAcquires = 6
    FailuresToDrain = 2
    Client = {h1, h2}
    SocketClient = {s1}
    MaxStarts = 2
    Poller = {p1, p2}
    CACHE_TTL = 2
    RECORD_INTERVAL = 2
    HealthRetention = 3
    LastTick = 5
    Configured = TRUE
    Nonce = {n1, n2, n3}
    SIGNATURE_MAX_AGE = 2
    NONCE_TTL = 3
    NONCE_MAX_ENTRIES = 2
    LastInstant = 5
    MaxAccepted = 2
    Secret = {x1, x2, x3}
    Good = {x1, x2}
    Provided = TRUE
    ApiKey = {a1, a2}
    KeyLimit = {2}
    DEFAULT_AUTH_LIMIT = 4
    HistoryMinutes = 1
    MaxMetered = 3
    Watched = {w1, w2}
    ALERT_WINDOW = 1
    ALERT_HISTORY = 2
    DedupeWindow = 2
    MinTotal = 1
    MaxRate = 10
    AlertPass = {e1, e2}
    LastSecond = 4
    MaxOutcomes = 2
INVARIANTS
    VerdictsFollowTheLedger
    PushesAreBacked
    HistoryIsComplete
    WorkIsWhole
    AdmissionIsExact
    MonitoringIsHonest
PROPERTIES
    VerdictsStick
    EventsSettle
    PlatformResponds
CHECK_DEADLOCK FALSE
