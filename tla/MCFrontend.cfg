SPECIFICATION FrontendSpec
CONSTANTS
    SetupContract = {c1, c2}
    Account = {g1, g2}
    Percentage = {33336, 66666, 66664, 100000, 0}
    MAX_COLLABORATORS = 2
    MaxShares = 2
    Submission = {t1, t2}
    MaxEdits = 3
    c1 = c1
    c2 = c2
    k1 = k1
    k2 = k2
    Contract = {c1, c2}
    Token = {k1, k2}
    Shares <- SharesDef
    Funds <- FundsDef
    Amount = {2}
    Payment = {p1, p2}
    HistoryContract = {c1, c2}
    Ledger <- LedgerDef
    PageSize = 1
    ExportLimit = 9
    MaxLimit = 2
    MaxClicks = 3
    e1 = e1
    e2 = e2
    Source = {c1, c2}
    Earner = {e1, e2}
    Today = 3
    WindowDays = 1
    Paid <- PaidDef
    MaxVisits = 3
    f1 = f1
    f2 = f2
    OfficeContract = {c1, c2}
    CsvFile = {f1, f2}
    ValidRows <- RowsDef
    PoolOf <- PoolDef
    MaxEntries = 3
    MaxRequests = 4
    Wallet = {w1, w2}
    ContractId = {c1, c2}
    Page = {"dashboard", "settings", "distribute"}
    MaxMoves = 3
    Write = {r1, r2}
    Signed = {r1}
    MaxQueueSize = 1
    MaxBackoff = 1
    MaxAttempts = 1
    Drain = {d1, d2}
    MaxFaults = 2
    Slot = {s1, s2, s3}
    User = {u1, u2}
    MaxDrops = 2
    MaxSwitches = 2
    MaxPushes = 2
    MaxHistory = 2
    BellLength = 1
INVARIANTS
    SetupIsFaithful
    PaymentsAreAsShown
    HistoryIsReal
    EarningsAgree
    ShellIsHonest
    NoWriteIsLost
PROPERTIES
    BrowserRecovers
CHECK_DEADLOCK FALSE
