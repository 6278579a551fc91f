\* As MCRequests.
SPECIFICATION RequestsSpec
CONSTANTS
    Request = {r1, r2, r3}
    First = r1
    Second = r2
    Third = r3
    MaxRetries = 2
    Price = {20, 10000}
    Rate = {0, 500}
    BatchOps = 2
    MaxSeq = 1
    Req = {q1, q2, q3}
    Key = {k1}
    NoKey = NoKey
    Nobody = Nobody
    WALLET_MAX = 2
    CONTRACT_MAX = 2
    MAX_ENTRIES = 1
    MaxTurns = 1
    TTL = 2
    LEAD = 1
    MaxVersion = 2
    MaxMisses = 1
    FeeRetries = 2
    Nothing = Nothing
INVARIANTS
    NoSequenceReuse
CHECK_DEADLOCK FALSE
