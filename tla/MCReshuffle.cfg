\* The instance of MCControl.cfg, with the split changing between votes.
SPECIFICATION ReshuffleSpec
CONSTANTS
    a = a
    b = b
    c = c
    t = t
    u = u
    Address = {a, b, c}
    Self = Self
    None = None
    I128_MAX = 1000000
    U32_MAX = 20000
    AuthSets <- Signers
    InitInputs <- SetupInputs
    MAX_ADMIN_LIST = 3
    MIN_ADMIN_ROTATION_TIMELOCK = 1
    DEFAULT_ADMIN_ROTATION_TIMELOCK = 2
    MAX_ADMIN_ROTATION_TIMELOCK = 3
    MAX_APPROVED_TOKENS = 1
    MAX_BATCH_TOKENS = 2
    EARLY_ADOPTER_WINDOW = 1
    RATE_HISTORY_CAP = 2
    MIN_PROPOSAL_DURATION = 1
    MAX_PROPOSAL_DURATION = 2
    Token = {t}
    MAX_RECIPIENTS = 2
    Amounts = {}
    RecipientLists <- SetupLists
    MaxTime = 4
    NewShares = {0, 4000, 5000, 6000, 10000}
    MaxNonce = 2
    AdminLists <- SmallAdminLists
    Versions = {1, 2}
    MaxMigrations = 2
    Supply = 0
    Batches = {}
    ACTIVITY_BONUS_STEP = 1
    MaxPool = 0
    MaxActivity = 0
    MaxDistributions = 0
    Rates = {300, 10000, 10001}
    Durations = {0, 1, 3}
    MaxProposals = 2
    TransactionIds = {}
    ClawbackLists = {}
    MaxDisputes = 0
INVARIANT WeightWithinTotal
CHECK_DEADLOCK FALSE
