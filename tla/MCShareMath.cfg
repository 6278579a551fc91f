\* A u128 product overflows from an amount of 40 at a share of 5000.
SPECIFICATION Spec
CONSTANTS
    a = a
    b = b
    c = c
    Address = {a, b, c}
    I128_MAX = 99999
    U32_MAX = 10000
    MAX_RECIPIENTS = 3
    Shares = {0, 1, 2, 3333, 3334, 4999, 5000, 9998, 9999, 10000}
    Amounts = {0, 1, 2, 3, 4, 7, 19, 20, 21, 39, 40, 41, 60}
    Bonuses = {0, 50, 150, 999, 1000}
    MaxLength = 3
INVARIANTS
    SplitIsExact
    IncentivesAreBounded
CHECK_DEADLOCK FALSE
