--------------------------- MODULE MCShareMath ---------------------------
(***************************************************************************)
(* The share arithmetic against what it must compute, over every list of   *)
(* up to three recipients built from a few awkward shares (valid lists and *)
(* lists that miss 100% by one basis point), amounts around the list's     *)
(* length and around the overflow of the intermediate u128 product, and    *)
(* bonuses that stay below and reach above the 20% cap.                    *)
(***************************************************************************)
EXTENDS ShareMathProofs

CONSTANTS Address, Shares, Amounts, Bonuses,
          MaxLength   \* bound on the length of the lists

ASSUME MCAssumption ==
    Shares \subseteq Nat /\ Amounts \subseteq Nat /\ Bonuses \subseteq Nat /\ MaxLength \in Nat

VARIABLES
    recipients,  \* the list given to the contract
    result       \* what the contract computed from it
vars == <<recipients, result>>

Nothing == [kind |-> "nothing"]

Lists ==
    {l \in UNION {[1..n -> [address : Address, share : Shares]] : n \in 0..MaxLength} :
        Len(l) = 0 \/ SumFunction(SharesOf(l)) \in (BPS - 1)..(BPS + 1)}

Init == recipients \in Lists /\ result = Nothing

\* A distribution of amount: validate the list, then split.
Distribute(amount) ==
    /\ result = Nothing
    /\ validate_recipient_list(recipients)
    /\ amount >= Len(recipients)
    /\ SplitOk(amount, recipients)
    /\ result' = [kind |-> "split", amount |-> amount,
                  payouts |-> Split(amount, recipients)]
    /\ UNCHANGED recipients

\* calculate_incentive_shares on a list the contract has accepted.
Incentives(raw) ==
    /\ result = Nothing
    /\ validate_recipient_list(recipients)
    /\ result' = [kind |-> "incentives", raw |-> raw,
                  adjusted |-> AdjustShares(recipients, raw)]
    /\ UNCHANGED recipients

Next ==
    \/ \E amount \in Amounts : Distribute(amount)
    \/ \E raw \in [1..Len(recipients) -> Bonuses] : Incentives(raw)

Spec == Init /\ [][Next]_vars

-----------------------------------------------------------------------------
\* The payouts of a split, whoever they go to, add up to the amount: no dust
\* stays behind and nothing is paid twice (lib.rs distribute_with_override,
\* README "Rounding").
SplitConserves ==
    result.kind = "split" => SumFunction(result.payouts) = result.amount

\* No recipient gets less than the floor of his exact share; every recipient
\* but the last gets exactly that, and the last one at most one unit per
\* other recipient more.
SplitIsProportional ==
    result.kind = "split" =>
        \A i \in DOMAIN recipients :
            LET excess == BPS * result.payouts[i] - result.amount * recipients[i].share
            IN  IF i < Len(recipients) THEN -BPS < excess /\ excess <= 0
                ELSE 0 <= excess /\ excess <= BPS * (Len(recipients) - 1)

\* The shares calculate_incentive_shares produces still make up 100%, so the
\* checked_sub of the last share never panics, and none is negative.
IncentivesConserve ==
    result.kind = "incentives" =>
        /\ SumFunction(SharesOf(result.adjusted)) = BPS
        /\ \A i \in DOMAIN recipients : result.adjusted[i].share >= 0

\* The incentive adjustment takes at most the 20% cap from anybody's base share,
\* and on top of the rest everybody gets his part of the capped bonuses, each
\* rounded down, whatever bonuses were earned.
IncentivesTakeAtMostTheCap ==
    result.kind = "incentives" /\ SumFunction(result.raw) # 0 =>
        \A i \in DOMAIN recipients :
            LET total == SumFunction(result.raw)
                capped == IF total < 2000 THEN total ELSE 2000
            IN  result.adjusted[i].share
                    >= (recipients[i].share * 8000) \div BPS + (result.raw[i] * capped) \div total

\* A split is exact: it pays out the whole amount, and to everybody their share of
\* it up to the rounding the last recipient absorbs (lib.rs distribute_with_override).
SplitIsExact == SplitConserves /\ SplitIsProportional

\* Incentives move shares within the cap and still make up the whole
\* (lib.rs calculate_incentive_shares).
IncentivesAreBounded == IncentivesConserve /\ IncentivesTakeAtMostTheCap

-----------------------------------------------------------------------------
\* The list has shares, and what was computed from it is exact.
Computed == IsList(recipients) /\ SplitIsExact /\ IncentivesAreBounded

\* A split of a list the contract accepts is exact.
LEMMA DistributeIsExact ==
    ASSUME Computed, NEW amount \in Amounts, Distribute(amount)
    PROVE  Computed'
<1> DEFINE n == Len(recipients)
           payouts == Split(amount, recipients)
<1>0. n \in Nat \ {0} /\ amount \in Nat /\ IsList(recipients)
  BY MCAssumption DEF Computed, IsList, Distribute, validate_recipient_list
<1>1. /\ SumFunction(SharesOf(recipients)) = BPS
      /\ result' = [kind |-> "split", amount |-> amount, payouts |-> payouts]
      /\ recipients' = recipients
  BY DEF Distribute, validate_recipient_list
<1>2. /\ DOMAIN payouts = 1..n
      /\ \A i \in 1..(n - 1) : payouts[i] = (amount * recipients[i].share) \div BPS
      /\ SumFunctionOnSet(payouts, 1..n) = amount
  BY <1>0, SplitConsists
<1>3. /\ \A i \in 1..n : payouts[i] \in Nat
      /\ BPS * payouts[n] >= amount * recipients[n].share
      /\ BPS * payouts[n] <= amount * recipients[n].share + BPS * (n - 1)
  BY <1>0, <1>1, SplitIsFair
<1> HIDE DEF payouts
<1>4. SumFunction(payouts) = amount
  BY <1>2 DEF SumFunction
<1>5. ASSUME NEW i \in 1..n
      PROVE  LET excess == BPS * payouts[i] - amount * recipients[i].share
             IN  IF i < n THEN -BPS < excess /\ excess <= 0
                 ELSE 0 <= excess /\ excess <= BPS * (n - 1)
  <2> DEFINE p == amount * recipients[i].share
             q == BPS * payouts[i]
  <2>1. p \in Nat /\ payouts[i] \in Nat
    BY <1>0, <1>3 DEF IsList
  <2>2. CASE i < n
    <3>1. payouts[i] = p \div BPS
      BY <1>0, <1>2, <2>2
    <3> HIDE DEF p
    <3>2. 10000 * (p \div 10000) <= p /\ p < 10000 * (p \div 10000) + 10000
      BY <2>1
    <3>3. q <= p /\ p < q + BPS /\ q \in Int
      BY <2>1, <3>1, <3>2 DEF BPS
    <3> HIDE DEF q
    <3>4. -BPS < q - p /\ q - p <= 0
      BY <2>1, <3>3 DEF BPS
    <3> QED
      BY <2>2, <3>4 DEF p, q
  <2>3. CASE ~(i < n)
    <3>1. i = n
      BY <1>0, <2>3
    <3>2. q >= p /\ q <= p + BPS * (n - 1) /\ BPS * (n - 1) \in Int /\ q \in Int
      BY <1>0, <1>3, <2>1, <3>1 DEF BPS
    <3> HIDE DEF p, q
    <3>3. 0 <= q - p /\ q - p <= BPS * (n - 1)
      BY <2>1, <3>2
    <3> QED
      BY <2>3, <3>3 DEF p, q
  <2> QED
    BY <2>2, <2>3
<1>6. SplitIsExact'
  BY <1>0, <1>1, <1>4, <1>5 DEF SplitIsExact, SplitConserves, SplitIsProportional, IsList
<1> QED
  BY <1>0, <1>1, <1>6 DEF Computed, IncentivesAreBounded, IncentivesConserve,
     IncentivesTakeAtMostTheCap

\* The incentive adjustment of a list the contract accepts is bounded.
LEMMA IncentivesAreExact ==
    ASSUME Computed, NEW raw \in [1..Len(recipients) -> Bonuses], Incentives(raw)
    PROVE  Computed'
<1> DEFINE n == Len(recipients)
           adjusted == AdjustShares(recipients, raw)
           total == SumFunction(raw)
           capped == IF total < 2000 THEN total ELSE 2000
           Bounded(i) == adjusted[i].share
                            >= (recipients[i].share * 8000) \div BPS + (raw[i] * capped) \div total
<1>0. n \in Nat \ {0} /\ raw \in [1..n -> Nat] /\ IsList(recipients)
  BY MCAssumption DEF Computed, IsList, Incentives, validate_recipient_list
<1>1. /\ SumFunction(SharesOf(recipients)) = BPS
      /\ result' = [kind |-> "incentives", raw |-> raw, adjusted |-> adjusted]
      /\ recipients' = recipients
  BY DEF Incentives, validate_recipient_list
<1>2. CASE total = 0
  <2>1. adjusted = recipients
    BY <1>2 DEF AdjustShares
  <2>2. IncentivesConserve' /\ IncentivesTakeAtMostTheCap'
    BY <1>0, <1>1, <1>2, <2>1 DEF IncentivesConserve, IncentivesTakeAtMostTheCap, IsList
  <2> QED
    BY <1>0, <1>1, <2>2 DEF Computed, IncentivesAreBounded, SplitIsExact, SplitConserves,
       SplitIsProportional
<1>3. CASE total # 0
  <2> DEFINE scaled == ScaledBonuses(raw)
             pool == BPS - SumFunctionOnSet(scaled, 1..n)
  <2>1. /\ IsList(adjusted) /\ Len(adjusted) = n
        /\ SumFunction(SharesOf(adjusted)) = BPS
        /\ \A i \in 1..n : adjusted[i].share >= (recipients[i].share * pool) \div BPS + scaled[i]
    BY <1>0, <1>1, <1>3, AdjustmentIsWhole
  <2>2. /\ scaled \in [1..n -> Nat]
        /\ SumFunctionOnSet(scaled, 1..n) \in 0..MAX_TOTAL_INCENTIVE_BPS
        /\ \A i \in 1..n : scaled[i] = (raw[i] * Lesser(total, MAX_TOTAL_INCENTIVE_BPS)) \div total
    BY <1>0, <1>3, BonusesAreCapped
  <2>3. pool \in Nat /\ pool >= 8000
    <3> DEFINE sum == SumFunctionOnSet(scaled, 1..n)
    <3> HIDE DEF sum
    <3>1. sum \in 0..2000
      BY <2>2 DEF sum, MAX_TOTAL_INCENTIVE_BPS
    <3>2. BPS - sum \in Nat /\ BPS - sum >= 8000
      BY <3>1 DEF BPS
    <3> QED
      BY <3>2 DEF sum
  <2>4. total \in Nat /\ Lesser(total, MAX_TOTAL_INCENTIVE_BPS) = capped
    <3>1. IsFiniteSet(1..n) /\ total = SumFunctionOnSet(raw, 1..n)
      BY <1>0, FS_Interval DEF SumFunction
    <3>2. total \in Nat
      BY <1>0, <3>1, SumNonNegative
    <3> QED
      BY <3>2 DEF Lesser, MAX_TOTAL_INCENTIVE_BPS
  <2>5. \A i \in 1..n : scaled[i] = (raw[i] * capped) \div total /\ scaled[i] \in Nat
    BY <2>2, <2>4
  <2> HIDE DEF scaled, pool, adjusted, total, capped
  <2>6. ASSUME NEW i \in 1..n
        PROVE  Bounded(i)
    <3>1. recipients[i].share \in Nat /\ adjusted[i].share \in Nat
      BY <1>0, <2>1 DEF IsList
    <3> DEFINE p == recipients[i].share * pool
               q == recipients[i].share * 8000
    <3>2. p \in Nat /\ q \in Nat /\ q <= p
      BY <2>3, <3>1
    <3>3. adjusted[i].share >= p \div BPS + scaled[i]
      BY <2>1
    <3> HIDE DEF p, q
    <3>4. q \div BPS <= p \div BPS /\ p \div BPS \in Nat /\ q \div BPS \in Nat
      BY <3>2 DEF BPS
    <3>5. adjusted[i].share >= q \div BPS + scaled[i]
      BY <2>5, <3>1, <3>3, <3>4
    <3> QED
      BY <2>5, <3>5 DEF q
  <2>7. IncentivesConserve' /\ IncentivesTakeAtMostTheCap'
    <3>1. DOMAIN recipients = 1..n /\ \A i \in 1..n : adjusted[i].share \in Nat
      BY <1>0, <2>1 DEF IsList
    <3> QED
      BY <1>1, <2>1, <2>6, <3>1 DEF IncentivesConserve, IncentivesTakeAtMostTheCap, total, capped
  <2> QED
    BY <1>0, <1>1, <2>7 DEF Computed, IncentivesAreBounded, SplitIsExact, SplitConserves,
       SplitIsProportional
<1> QED
  BY <1>2, <1>3

\* Whatever is computed from whatever list, it is exact.
LEMMA ComputedInvariant == Spec => []Computed
<1>1. Init => Computed
  <2> SUFFICES ASSUME Init PROVE Computed
    OBVIOUS
  <2>1. PICK n \in 0..MaxLength : recipients \in [1..n -> [address : Address, share : Shares]]
    BY DEF Init, Lists
  <2>2. Len(recipients) = n /\ DOMAIN recipients = 1..n
    BY <2>1
  <2>3. \A i \in 1..n : recipients[i] \in [address : Address, share : Shares]
    BY <2>1
  <2>4. IsList(recipients)
    <3>1. n \in Nat
      BY MCAssumption
    <3>2. ASSUME NEW i \in 1..n
          PROVE  recipients[i].share \in Nat
      <4>1. recipients[i].share \in Shares
        BY <2>3
      <4> QED
        BY <4>1, MCAssumption
    <3> QED
      BY <2>2, <3>1, <3>2 DEF IsList
  <2>5. result.kind = "nothing"
    BY DEF Init, Nothing
  <2> QED
    BY <2>4, <2>5 DEF Computed, SplitIsExact, SplitConserves, SplitIsProportional,
       IncentivesAreBounded, IncentivesConserve, IncentivesTakeAtMostTheCap
<1>2. Computed /\ [Next]_vars => Computed'
  <2>1. ASSUME Computed, UNCHANGED vars
        PROVE  Computed'
    BY <2>1 DEF vars, Computed, SplitIsExact, SplitConserves, SplitIsProportional,
       IncentivesAreBounded, IncentivesConserve, IncentivesTakeAtMostTheCap
  <2> QED
    BY <2>1, DistributeIsExact, IncentivesAreExact DEF Next
<1> QED
  BY <1>1, <1>2, PTL DEF Spec

\* Of every amount and for lists of every length, a split pays out the whole, and
\* to everybody the floor of their share; the last recipient's excess is below one
\* unit per other recipient (lib.rs distribute_with_override).
THEOREM SplitsAreExact == Spec => []SplitIsExact
<1>1. Computed => SplitIsExact
  BY DEF Computed
<1> QED
  BY <1>1, ComputedInvariant, PTL

\* Whatever bonuses were earned, the adjusted shares make up 100% again and nobody
\* loses more than the cap (lib.rs calculate_incentive_shares).
THEOREM IncentivesStayBounded == Spec => []IncentivesAreBounded
<1>1. Computed => IncentivesAreBounded
  BY DEF Computed
<1> QED
  BY <1>1, ComputedInvariant, PTL
=============================================================================
