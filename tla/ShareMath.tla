----------------------------- MODULE ShareMath -----------------------------
(***************************************************************************)
(* The share arithmetic of the RoyaltySplitter contract (src/src/lib.rs):  *)
(* basis-point amounts, the validation of a recipient list, the split of   *)
(* an amount over a list and the incentive adjustment of shares.           *)
(*                                                                         *)
(* An operation that returns Err(ArithmeticOverflow) in the contract is    *)
(* an operator with a companion predicate: the value operator is used only *)
(* where the predicate (its checked_ form) holds.                          *)
(***************************************************************************)
EXTENDS Integers, Sequences, Functions

CONSTANTS
    I128_MAX,       \* largest i128; scaled down by the models
    U32_MAX,        \* largest u32; scaled down by the models
    MAX_RECIPIENTS  \* lib.rs: MAX_COLLABORATORS = MAX_RECIPIENTS = 10

\* A percentage is counted in basis points; a whole is 10_000 of them.
BPS == 10000

U128_MAX == 2 * I128_MAX + 1

ASSUME ShareMathAssumption ==
    /\ I128_MAX \in Nat
    /\ U32_MAX \in Nat /\ U32_MAX >= BPS
    /\ MAX_RECIPIENTS \in Nat \ {0}

-----------------------------------------------------------------------------
\* The first k elements of f add up without passing limit.
AddsUpTo(f, limit) == \A k \in 0..Len(f) : SumFunctionOnSet(f, 1..k) <= limit

\* checked_add_share_total, folded over a list of shares.
checked_share_total_ok(shares) == AddsUpTo(shares, U32_MAX)

\* checked_bps_amount returns Ok: no negative amount and no u128 overflow.
checked_bps_amount_ok(amount, bps) ==
    /\ amount >= 0
    /\ amount * bps <= U128_MAX
    /\ (amount * bps) \div BPS <= I128_MAX

\* ... and then its value.
checked_bps_amount(amount, bps) == (amount * bps) \div BPS

\* The shares and the addresses of a list of recipients.
SharesOf(recipients) == [i \in 1..Len(recipients) |-> recipients[i].share]
AddressesOf(recipients) == [i \in 1..Len(recipients) |-> recipients[i].address]

\* Two vectors of one length, zipped into a list of recipients.
Recipients(addresses, shares) ==
    [i \in 1..Len(addresses) |-> [address |-> addresses[i], share |-> shares[i]]]

validate_unique_addresses(recipients) == IsInjective(AddressesOf(recipients))

validate_recipient_list(recipients) ==
    /\ Len(recipients) # 0
    /\ Len(recipients) <= MAX_RECIPIENTS
    /\ validate_unique_addresses(recipients)
    /\ \A i \in 1..Len(recipients) : recipients[i].share # 0
    /\ checked_share_total_ok(SharesOf(recipients))
    /\ SumFunction(SharesOf(recipients)) = BPS

validate_default_rcpt_bps(recipients) ==
    \A i \in 1..Len(recipients) : recipients[i].share <= BPS

-----------------------------------------------------------------------------
(***************************************************************************)
(* The split every distribution function performs: floor(amount * share)   *)
(* to each recipient but the last, the remainder to the last.              *)
(***************************************************************************)
Floors(amount, recipients) ==
    [i \in 1..(Len(recipients) - 1) |->
        checked_bps_amount(amount, recipients[i].share)]

\* Every checked operation of the split succeeds.
SplitOk(amount, recipients) ==
    LET floors == Floors(amount, recipients) IN
    /\ \A i \in DOMAIN floors : checked_bps_amount_ok(amount, recipients[i].share)
    /\ AddsUpTo(floors, I128_MAX)
    /\ amount - SumFunction(floors) >= -I128_MAX - 1

\* Mutant: the dust goes to the first recipient.
SplitDustToFirst(amount, recipients) ==
    LET n      == Len(recipients)
        shares == [i \in 1..n |-> checked_bps_amount(amount, recipients[i].share)]
    IN  [shares EXCEPT ![1] = @ + amount - SumFunction(shares)]

Split(amount, recipients) ==
    LET floors == Floors(amount, recipients) IN
    Append(floors, amount - SumFunction(floors))

-----------------------------------------------------------------------------
(***************************************************************************)
(* Contributor incentives (#776): the recorded bonuses are taken off the   *)
(* top and every base share shrinks to what is left; the last recipient    *)
(* again takes the remainder.                                              *)
(***************************************************************************)
EARLY_ADOPTER_BONUS_BPS      == 50
ACTIVITY_BONUS_BPS_PER_STEP  == 10
ACTIVITY_BONUS_MAX_STEPS     == 10
MAX_INDIVIDUAL_INCENTIVE_BPS == 1000
MAX_TOTAL_INCENTIVE_BPS      == 2000

Lesser(a, b) == IF a <= b THEN a ELSE b

\* Mutant: the cap on the total is not applied.
UncappedBonuses(raw) == raw

\* The total bonus is capped, each bonus scaled down in proportion.
ScaledBonuses(raw) ==
    LET total     == SumFunction(raw)
        effective == Lesser(total, MAX_TOTAL_INCENTIVE_BPS)
    IN  [i \in DOMAIN raw |-> IF total = effective THEN raw[i]
                             ELSE (raw[i] * effective) \div total]

\* The tail of calculate_incentive_shares: base is a non-empty list of
\* recipients, raw[i] the bonus of the i-th.
AdjustShares(base, raw) ==
    LET n        == Len(base)
        scaled   == ScaledBonuses(raw)
        pool_bps == BPS - SumFunction(scaled)
        front    == [i \in 1..(n - 1) |->
                        (base[i].share * pool_bps) \div BPS + scaled[i]]
    IN  IF SumFunction(raw) = 0 THEN base
        ELSE Recipients(AddressesOf(base), Append(front, BPS - SumFunction(front)))

=============================================================================
