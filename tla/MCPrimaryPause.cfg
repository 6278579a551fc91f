\* The payments of MCMoney.cfg.
SPECIFICATION MoneySpec
CONSTANTS
    a = a
    b = b
    c = c
    t = t
    u = u
    Address = {a, b, c}
    Self = Self
    None = None
    I128_MAX = 1000000
    U32_MAX = 20000
    AuthSets <- Payers
    InitInputs <- SetupInputs
    MAX_ADMIN_LIST = 3
    MIN_ADMIN_ROTATION_TIMELOCK = 1
    DEFAULT_ADMIN_ROTATION_TIMELOCK = 2
    MAX_ADMIN_ROTATION_TIMELOCK = 3
    MAX_APPROVED_TOKENS = 1
    MAX_BATCH_TOKENS = 2
    EARLY_ADOPTER_WINDOW = 1
    RATE_HISTORY_CAP = 2
    MIN_PROPOSAL_DURATION = 1
    MAX_PROPOSAL_DURATION = 2
    Token = {t, u}
    MAX_RECIPIENTS = 3
    Amounts = {1, 3}
    RecipientLists <- OverrideLists
    MaxTime = 3
    NewShares = {}
    MaxNonce = 0
    AdminLists = {}
    Versions = {1}
    MaxMigrations = 0
    Supply = 3
    Batches <- SmallBatches
    ACTIVITY_BONUS_STEP = 2
    MaxPool = 4
    MaxActivity = 2
    MaxDistributions = 2
    Rates = {}
    Durations = {}
    MaxProposals = 0
    TransactionIds = {1}
    ClawbackLists <- SmallClawbacks
    MaxDisputes = 2
PROPERTY PrimaryPauseHolds
CHECK_DEADLOCK FALSE
