SPECIFICATION RecordsSpec
CONSTANTS
    DayLength = 2
    MonthLength = 3
    Hours = {0, 1}
    Days = {0, 1, 3}
    Intervals = {0, 3}
    Unset = Unset
    MaxTime = 5
    JobPass = {p1}
    MaxIntents = 1
    Wallet = {w1, w2}
    Bonus = {1, 2}
    MaxBonuses = 1
    HeldTx = {t1}
    MaxTrail = 6
    Contributor = {c1, c2}
    Subscribed = {c1}
    MaxTickets = 2
    MaxReviews = 2
    MaxComments = 1
    Full = {g1}
    Short = {g2}
    MaxKyc = 3
    MaxTemplates = 2
    Reader = {r1}
    WeekLength = 2
    LastDay = 3
    DigestPass = {d1, d2}
    Upload <- UploadDef
    MaxMails = 4
    MaxNotes = 3
    Deal = {k1, k2}
    Payee = {a1, a2}
    LastViewDay = 1
    MaxEntries = 2
    ViewTtl = 1
    KeepShots = 1
    MaxShots = 3
    Generator = {n1, n2}
    Recipient = {m1}
    FirstMonth = 12
    LastMonth = 15
    MaxReports = 3
INVARIANTS
    SchedulesKeepTime
    DecisionsAreTraceable
    FilesAgree
    JobsDoNotOverlap
    FiguresMatch
SYMMETRY Symmetry
CHECK_DEADLOCK FALSE
