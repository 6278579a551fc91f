-------------------------- MODULE ShareMathProofs --------------------------
(***************************************************************************)
(* What the share arithmetic computes, for lists of every length and every *)
(* amount: the shares of a list, the payouts of a split and the shares an  *)
(* incentive adjustment leaves are sums, of which SumTheorems states the   *)
(* facts used here.                                                        *)
(***************************************************************************)
EXTENDS ShareMath, SumTheorems

-----------------------------------------------------------------------------
\* f cuts A into parts of w[x] in B, each rounded down.
AreFloors(f, A, w, B, S) == \A x \in S : w[x] \in Nat /\ f[x] = (A * w[x]) \div B

\* Cutting an amount like this loses less than one unit per part and never gives
\* more than the weights' part of it.
LEMMA FloorsFit ==
    ASSUME NEW S, IsFiniteSet(S), NEW A \in Nat, NEW B \in Nat \ {0}, NEW w, NEW f,
           AreFloors(f, A, w, B, S)
    PROVE  /\ \A x \in S : f[x] \in Nat
           /\ SumFunctionOnSet(f, S) \in Nat /\ SumFunctionOnSet(w, S) \in Nat
           /\ B * SumFunctionOnSet(f, S) <= A * SumFunctionOnSet(w, S)
           /\ A * SumFunctionOnSet(w, S) <= B * (SumFunctionOnSet(f, S) + Cardinality(S))
<1> DEFINE low == [x \in S |-> B * f[x]]
           mid == [x \in S |-> A * w[x]]
           one == [x \in S |-> 1]
           ceil == [x \in S |-> f[x] + one[x]]
           high == [x \in S |-> B * ceil[x]]
<1>1. \A x \in S : f[x] \in Nat /\ w[x] \in Nat
  BY DEF AreFloors
<1>2. \A x \in S : low[x] <= mid[x] /\ mid[x] <= high[x]
  <2> SUFFICES ASSUME NEW x \in S
               PROVE  low[x] <= mid[x] /\ mid[x] <= high[x]
    OBVIOUS
  <2> DEFINE p == A * w[x]
  <2>1. p \in Nat /\ f[x] = p \div B
    BY <1>1 DEF AreFloors
  <2>2. low[x] = B * f[x] /\ mid[x] = p /\ high[x] = B * (f[x] + 1)
    OBVIOUS
  <2> HIDE DEF p, low, mid, high
  <2>3. B * (p \div B) <= p /\ p <= B * ((p \div B) + 1)
    BY <2>1
  <2> QED
    BY <2>1, <2>2, <2>3
<1>3. IntsOn(f, S) /\ IntsOn(w, S) /\ IntsOn(one, S) /\ IntsOn(ceil, S)
  BY <1>1 DEF IntsOn
<1>4. IntsOn(low, S) /\ IntsOn(mid, S) /\ IntsOn(high, S)
  BY <1>1 DEF IntsOn
<1>5. /\ SumFunctionOnSet(low, S) = B * SumFunctionOnSet(f, S)
      /\ SumFunctionOnSet(mid, S) = A * SumFunctionOnSet(w, S)
  BY <1>3, SumTimes
<1>6. SumFunctionOnSet(high, S) = B * SumFunctionOnSet(ceil, S)
  <2> HIDE DEF ceil
  <2> QED
    BY <1>3, SumTimes
<1>7. SumFunctionOnSet(ceil, S) = SumFunctionOnSet(f, S) + Cardinality(S)
  <2>1. SumFunctionOnSet(one, S) = Cardinality(S)
    BY SumOfOnes
  <2>2. \A x \in S : ceil[x] = f[x] + one[x]
    OBVIOUS
  <2> HIDE DEF one, ceil
  <2> QED
    BY <1>3, <2>1, <2>2, SumAdds
<1> HIDE DEF low, mid, high, one, ceil
<1>8. /\ SumFunctionOnSet(low, S) <= SumFunctionOnSet(mid, S)
      /\ SumFunctionOnSet(mid, S) <= SumFunctionOnSet(high, S)
  BY <1>2, <1>4, SumCompares
<1>9. SumFunctionOnSet(f, S) \in Nat /\ SumFunctionOnSet(w, S) \in Nat
  BY <1>1, SumNonNegative
<1> QED
  BY <1>1, <1>5, <1>6, <1>7, <1>8, <1>9

\* A list of recipients: n of them, with shares.
IsList(recipients) ==
    /\ Len(recipients) \in Nat /\ DOMAIN recipients = 1..Len(recipients)
    /\ \A i \in 1..Len(recipients) : recipients[i].share \in Nat

\* The shares and the addresses of a list.
LEMMA ListShares ==
    ASSUME NEW recipients, IsList(recipients)
    PROVE  /\ DOMAIN SharesOf(recipients) = 1..Len(recipients)
           /\ \A i \in 1..Len(recipients) : /\ SharesOf(recipients)[i] = recipients[i].share
                                            /\ SharesOf(recipients)[i] \in Nat
           /\ SumFunction(SharesOf(recipients))
                 = SumFunctionOnSet(SharesOf(recipients), 1..Len(recipients))
  BY DEF IsList, SharesOf, SumFunction

\* What Split returns: the floors, then the rest, which makes the total exact.
LEMMA SplitConsists ==
    ASSUME NEW recipients, IsList(recipients), Len(recipients) # 0, NEW amount \in Nat
    PROVE  LET n == Len(recipients)
               payouts == Split(amount, recipients)
           IN  /\ payouts \in Seq(Int) /\ Len(payouts) = n /\ DOMAIN payouts = 1..n
               /\ \A i \in 1..(n - 1) : payouts[i] = (amount * recipients[i].share) \div BPS
               /\ payouts[n] = amount - SumFunctionOnSet(payouts, 1..(n - 1))
               /\ SumFunctionOnSet(payouts, 1..n) = amount
<1> DEFINE n == Len(recipients)
           floors == Floors(amount, recipients)
           rest == amount - SumFunction(floors)
           payouts == Append(floors, rest)
<1>0. n \in Nat \ {0}
  BY DEF IsList
<1>1. /\ DOMAIN floors = 1..(n - 1)
      /\ \A i \in 1..(n - 1) : /\ floors[i] = (amount * recipients[i].share) \div BPS
                               /\ floors[i] \in Int
  BY <1>0 DEF Floors, checked_bps_amount, IsList, BPS
<1>2. floors \in Seq(Int) /\ Len(floors) = n - 1
  BY <1>0, <1>1 DEF Floors
<1>3. SumFunction(floors) = SumFunctionOnSet(floors, 1..(n - 1))
  BY <1>1 DEF SumFunction
<1>4. IsFiniteSet(1..(n - 1)) /\ IntsOn(floors, 1..(n - 1))
  BY <1>0, <1>1, FS_Interval DEF IntsOn
<1>5. SumFunction(floors) \in Int /\ rest \in Int
  BY <1>3, <1>4, SumType
<1> HIDE DEF floors, rest
<1>6. /\ payouts \in Seq(Int) /\ Len(payouts) = n /\ DOMAIN payouts = 1..n
      /\ \A i \in 1..(n - 1) : payouts[i] = floors[i]
      /\ payouts[n] = rest
  BY <1>0, <1>2, <1>5
<1>7. payouts = Split(amount, recipients)
  BY DEF Split, floors, rest
<1> HIDE DEF payouts
<1>8. SumFunctionOnSet(payouts, 1..(n - 1)) = SumFunctionOnSet(floors, 1..(n - 1))
  BY <1>4, <1>6, SumEqual
<1>9. IntsOn(payouts, 1..n)
  BY <1>0, <1>6 DEF IntsOn
<1>10. SumFunctionOnSet(payouts, 1..n) = payouts[n] + SumFunctionOnSet(payouts, 1..(n - 1))
  BY <1>0, <1>9, SumOfVector
<1>11. payouts[n] = amount - SumFunctionOnSet(payouts, 1..(n - 1))
  BY <1>3, <1>6, <1>8 DEF rest
<1>12. SumFunctionOnSet(payouts, 1..n) = amount
  BY <1>3, <1>5, <1>8, <1>10, <1>11
<1>13. \A i \in 1..(n - 1) : payouts[i] = (amount * recipients[i].share) \div BPS
  BY <1>1, <1>6
<1> QED
  BY <1>6, <1>7, <1>11, <1>12, <1>13

\* Of a list that makes up 100% everybody gets the floor of their share, the last
\* one that and what the rounding left over: less than one unit per other recipient.
LEMMA SplitIsFair ==
    ASSUME NEW recipients, IsList(recipients), Len(recipients) # 0, NEW amount \in Nat,
           SumFunction(SharesOf(recipients)) = BPS
    PROVE  LET n == Len(recipients)
               payouts == Split(amount, recipients)
           IN  /\ \A i \in 1..n : payouts[i] \in Nat
               /\ BPS * payouts[n] >= amount * recipients[n].share
               /\ BPS * payouts[n] <= amount * recipients[n].share + BPS * (n - 1)
<1> DEFINE n == Len(recipients)
           payouts == Split(amount, recipients)
           w == SharesOf(recipients)
           S == 1..(n - 1)
           paid == SumFunctionOnSet(payouts, S)
           weight == SumFunctionOnSet(w, S)
<1>0. n \in Nat \ {0}
  BY DEF IsList
<1>1. /\ \A i \in S : payouts[i] = (amount * w[i]) \div BPS
      /\ payouts[n] = amount - paid
  <2>1. /\ \A i \in S : payouts[i] = (amount * recipients[i].share) \div BPS
        /\ payouts[n] = amount - paid
    BY SplitConsists
  <2>2. \A i \in S : w[i] = recipients[i].share
    BY <1>0, ListShares
  <2> QED
    BY <2>1, <2>2
<1>2. /\ \A i \in 1..n : w[i] \in Nat
      /\ SumFunctionOnSet(w, 1..n) = BPS
      /\ w[n] = recipients[n].share
  BY <1>0, ListShares
<1>3. /\ SumFunctionOnSet(w, 1..n) = w[n] + weight
      /\ weight \in Int
  BY <1>0, <1>2, SumOfVector DEF IntsOn
<1>4. IsFiniteSet(S) /\ Cardinality(S) = n - 1
  BY <1>0, FS_Interval
<1>5. BPS \in Nat \ {0}
  BY DEF BPS
<1> HIDE DEF n, payouts, w
<1>6. \A i \in S : w[i] \in Nat
  BY <1>0, <1>2
<1>7. /\ \A i \in S : payouts[i] \in Nat
      /\ paid \in Nat /\ weight \in Nat
      /\ BPS * paid <= amount * weight
      /\ amount * weight <= BPS * (paid + Cardinality(S))
  <2>1. AreFloors(payouts, amount, w, BPS, S)
    BY <1>1, <1>6 DEF AreFloors
  <2> HIDE DEF S
  <2> QED
    BY <1>4, <1>5, <2>1, FloorsFit
<1> HIDE DEF paid, weight
<1>8. w[n] \in Nat /\ weight = BPS - w[n]
  BY <1>0, <1>2, <1>3, <1>5
<1>9. amount * weight = BPS * amount - amount * w[n]
  BY <1>5, <1>8
<1>10. BPS * payouts[n] = BPS * amount - BPS * paid
  BY <1>1, <1>5, <1>7
<1>11. /\ BPS * payouts[n] >= amount * w[n]
       /\ BPS * payouts[n] <= amount * w[n] + BPS * (n - 1)
  <2> DEFINE all == BPS * amount
             owed == amount * w[n]
             whole == amount * weight
             given == BPS * paid
             rest == BPS * payouts[n]
             slack == BPS * (n - 1)
  <2>1. BPS * (paid + Cardinality(1..n - 1)) = given + slack  BY <1>0, <1>4, <1>5, <1>7
  <2>2. all \in Int /\ owed \in Int /\ given \in Int /\ slack \in Int  BY <1>0, <1>5, <1>7, <1>8
  <2>3. whole = all - owed /\ rest = all - given /\ given <= whole /\ whole <= given + slack
    BY <1>7, <1>9, <1>10, <2>1
  <2> HIDE DEF all, owed, whole, given, rest, slack
  <2>4. rest >= owed /\ rest <= owed + slack  BY <2>2, <2>3
  <2> QED  BY <2>4 DEF owed, rest, slack
<1>12. payouts[n] \in Nat
  <2>1. amount * w[n] \in Nat /\ payouts[n] \in Int
    BY <1>1, <1>7, <1>8
  <2> QED
    BY <1>5, <1>11, <2>1
<1>13. \A i \in 1..n : payouts[i] \in Nat
  BY <1>0, <1>7, <1>12
<1> QED
  BY <1>2, <1>11, <1>13 DEF n, payouts

-----------------------------------------------------------------------------
\* The capped bonuses: none is negative, and together they stay within the cap.
LEMMA BonusesAreCapped ==
    ASSUME NEW n \in Nat, NEW raw \in [1..n -> Nat]
    PROVE  /\ ScaledBonuses(raw) \in [1..n -> Nat]
           /\ SumFunctionOnSet(ScaledBonuses(raw), 1..n) \in 0..MAX_TOTAL_INCENTIVE_BPS
           /\ SumFunction(raw) # 0 =>
                 LET capped == Lesser(SumFunction(raw), MAX_TOTAL_INCENTIVE_BPS)
                 IN  \A i \in 1..n :
                        ScaledBonuses(raw)[i] = (raw[i] * capped) \div SumFunction(raw)
<1> DEFINE S == 1..n
           total == SumFunctionOnSet(raw, S)
           effective == Lesser(total, MAX_TOTAL_INCENTIVE_BPS)
           scaled == [i \in S |-> IF total = effective THEN raw[i]
                                  ELSE (raw[i] * effective) \div total]
<1>1. IsFiniteSet(S) /\ \A i \in S : raw[i] \in Nat
  <2>1. IsFiniteSet(S)
    BY FS_Interval
  <2> QED
    BY <2>1
<1>2. total \in Nat /\ SumFunction(raw) = total
  BY <1>1, SumNonNegative DEF SumFunction
<1>3. scaled = ScaledBonuses(raw)
  BY <1>2 DEF ScaledBonuses
<1> HIDE DEF total
<1>4. /\ effective \in Nat /\ effective <= total /\ effective <= MAX_TOTAL_INCENTIVE_BPS
      /\ MAX_TOTAL_INCENTIVE_BPS \in Nat \ {0}
      /\ total # 0 => effective # 0
  BY <1>2 DEF Lesser, MAX_TOTAL_INCENTIVE_BPS
<1> HIDE DEF effective
<1>5. CASE total = effective
  <2>1. \A i \in S : scaled[i] = raw[i]
    BY <1>5
  <2>2. scaled \in [S -> Nat]
    BY <1>1, <1>5
  <2>3. SumFunctionOnSet(scaled, S) = total
    <3> HIDE DEF scaled
    <3> QED
      BY <1>1, <2>1, SumEqual DEF IntsOn, total
  <2>4. ASSUME NEW i \in S, total # 0
        PROVE  scaled[i] = (raw[i] * effective) \div total
    <3>1. (raw[i] * total) \div total = raw[i]
      BY <1>1, <1>2, <2>4
    <3> QED
      BY <1>5, <2>1, <3>1
  <2> HIDE DEF scaled
  <2> QED
    BY <1>2, <1>3, <1>4, <1>5, <2>2, <2>3, <2>4 DEF effective
<1>6. CASE total # effective
  <2>1. total \in Nat \ {0}
    BY <1>2, <1>4, <1>6
  <2>2. \A i \in S : scaled[i] = (raw[i] * effective) \div total
    BY <1>6
  <2>3. \A i \in S : scaled[i] = (effective * raw[i]) \div total
    BY <1>1, <1>4, <2>2
  <2>4. scaled = [i \in S |-> scaled[i]]
    OBVIOUS
  <2> HIDE DEF scaled
  <2>5. /\ \A i \in S : scaled[i] \in Nat
        /\ SumFunctionOnSet(scaled, S) \in Nat
        /\ total * SumFunctionOnSet(scaled, S) <= effective * SumFunctionOnSet(raw, S)
    <3>1. AreFloors(scaled, effective, raw, total, S)
      BY <1>1, <2>3 DEF AreFloors
    <3> HIDE DEF S
    <3> QED
      BY <1>1, <1>4, <2>1, <3>1, FloorsFit
  <2>6. total * SumFunctionOnSet(scaled, S) <= total * effective
    BY <1>4, <2>1, <2>5 DEF total
  <2>7. SumFunctionOnSet(scaled, S) <= effective
    BY <1>4, <2>1, <2>5, <2>6
  <2>8. scaled \in [S -> Nat]
    BY <2>4, <2>5
  <2> QED
    BY <1>2, <1>3, <1>4, <2>2, <2>5, <2>7, <2>8 DEF effective
<1> QED
  BY <1>5, <1>6

\* The arithmetic of the last share: what the others leave of B.
LEMMA LastShare ==
    ASSUME NEW B \in Nat \ {0}, NEW bonuses \in Nat, NEW pool \in Nat, pool = B - bonuses,
           NEW K \in Nat, NEW wn \in Nat, NEW cn \in Nat,
           B * K <= pool * (B - wn)
    PROVE  /\ B - (K + (bonuses - cn)) \in Nat
           /\ B - (K + (bonuses - cn)) >= (wn * pool) \div B + cn
<1> DEFINE last == B - (K + (bonuses - cn))
           p == wn * pool
<1>1. p \in Nat /\ last \in Int
  OBVIOUS
<1>2. pool * (B - wn) = B * B - B * bonuses - p
  OBVIOUS
<1>3. B * last = B * B - B * K - B * bonuses + B * cn
  OBVIOUS
<1>4. B * last >= p + B * cn
  <2> DEFINE BB == B * B
             BK == B * K
             Bb == B * bonuses
             Bc == B * cn
             Bl == B * last
  <2>1. BB \in Int /\ BK \in Int /\ Bb \in Int /\ Bc \in Int
    OBVIOUS
  <2>2. BK <= BB - Bb - p /\ Bl = BB - BK - Bb + Bc
    BY <1>2, <1>3
  <2> HIDE DEF BB, BK, Bb, Bc, Bl, p
  <2>3. Bl >= p + Bc
    BY <1>1, <2>1, <2>2
  <2> QED
    BY <2>3 DEF Bl, Bc
<1> HIDE DEF p, last
<1>5. p \div B \in Nat /\ B * (p \div B) <= p
  BY <1>1
<1>6. B * (p \div B + cn) <= B * last
  <2>1. B * (p \div B + cn) = B * (p \div B) + B * cn
    BY <1>5
  <2> DEFINE Bq == B * (p \div B)
             Bc == B * cn
             Bl == B * last
  <2>2. Bq \in Int /\ Bc \in Int /\ Bl \in Int
    BY <1>1, <1>5
  <2>3. Bq <= p /\ Bl >= p + Bc
    BY <1>4, <1>5
  <2> HIDE DEF Bq, Bc, Bl
  <2>4. Bq + Bc <= Bl
    BY <1>1, <2>2, <2>3
  <2> QED
    BY <2>1, <2>4 DEF Bq, Bc, Bl
<1>7. p \div B + cn <= last
  BY <1>1, <1>5, <1>6
<1>8. last \in Nat
  BY <1>1, <1>5, <1>7
<1> QED
  BY <1>7, <1>8 DEF p, last

\* v are n shares w, cut to the part pool that bonuses c leave, with the bonuses
\* added and the last share taking the rest.
AreAdjusted(v, w, c, pool, n) ==
    /\ \A i \in 1..n : w[i] \in Nat /\ c[i] \in Nat
    /\ pool = BPS - SumFunctionOnSet(c, 1..n)
    /\ \A i \in 1..(n - 1) : v[i] = (w[i] * pool) \div BPS + c[i]
    /\ v[n] = BPS - SumFunctionOnSet(v, 1..(n - 1))

\* Shares of 100% adjusted like this are shares of 100% again.
LEMMA AdjustedVector ==
    ASSUME NEW n \in Nat \ {0}, NEW w, NEW c, NEW pool \in Nat, NEW v,
           AreAdjusted(v, w, c, pool, n), SumFunctionOnSet(w, 1..n) = BPS
    PROVE  /\ \A i \in 1..n : v[i] \in Nat /\ v[i] >= (w[i] * pool) \div BPS + c[i]
           /\ SumFunctionOnSet(v, 1..n) = BPS
<1> DEFINE S == 1..(n - 1)
           kept == [i \in S |-> (w[i] * pool) \div BPS]
           K == SumFunctionOnSet(kept, S)
           W == SumFunctionOnSet(w, S)
           C == SumFunctionOnSet(c, S)
           V == SumFunctionOnSet(v, S)
           bonuses == SumFunctionOnSet(c, 1..n)
<1> USE DEF AreAdjusted
<1>0. BPS \in Nat \ {0}
  BY DEF BPS
<1>1. IsFiniteSet(S) /\ IsFiniteSet(1..n)
  BY FS_Interval
<1>2. n \in 1..n /\ \A i \in 1..n : i = n \/ i \in S
  OBVIOUS
<1>3. \A i \in S : w[i] \in Nat /\ c[i] \in Nat
  OBVIOUS
<1>4. \A i \in S : kept[i] = (pool * w[i]) \div BPS
  BY <1>3
<1>5. \A i \in S : v[i] = kept[i] + c[i] /\ kept[i] = (w[i] * pool) \div BPS
  OBVIOUS
<1>6. SumFunctionOnSet(w, 1..n) = w[n] + W /\ W \in Int
  BY SumOfVector DEF IntsOn
<1>7. bonuses = c[n] + C /\ C \in Int
  BY SumOfVector DEF IntsOn
<1>8. bonuses \in Nat
  BY <1>1, SumNonNegative
<1> HIDE DEF S, kept, W, C, bonuses
<1>9. /\ \A i \in S : kept[i] \in Nat
      /\ K \in Nat
      /\ BPS * K <= pool * W
  <2>1. AreFloors(kept, pool, w, BPS, S)
    BY <1>3, <1>4 DEF AreFloors
  <2> QED
    BY <1>0, <1>1, <2>1, FloorsFit DEF W
<1>10. V = K + C
  <2>1. IntsOn(kept, S) /\ IntsOn(c, S)
    BY <1>3, <1>9 DEF IntsOn
  <2>2. \A i \in S : v[i] = kept[i] + c[i]
    BY <1>5
  <2> QED
    BY <1>1, <2>1, <2>2, SumAdds DEF C
<1> HIDE DEF K, V
<1>11. V \in Int /\ v[n] = BPS - V /\ w[n] \in Nat /\ c[n] \in Nat
  BY <1>2, <1>7, <1>9, <1>10 DEF S, V
<1>12. W = BPS - w[n] /\ C = bonuses - c[n]
  BY <1>0, <1>6, <1>7, <1>8, <1>11
<1>13. v[n] \in Nat /\ v[n] >= (w[n] * pool) \div BPS + c[n]
  <2>1. pool = BPS - bonuses /\ BPS * K <= pool * (BPS - w[n])
    BY <1>9, <1>12 DEF bonuses
  <2>2. v[n] = BPS - (K + (bonuses - c[n]))
    BY <1>10, <1>11, <1>12
  <2>3. K \in Nat
    BY <1>9
  <2> QED
    <3>1. w[n] \in Nat /\ c[n] \in Nat
      BY <1>11
    <3>2. /\ BPS - (K + (bonuses - c[n])) \in Nat
          /\ BPS - (K + (bonuses - c[n])) >= (w[n] * pool) \div BPS + c[n]
      BY <1>0, <1>8, <2>1, <2>3, <3>1, LastShare, Zenon
    <3> QED
      BY <2>2, <3>2
<1>14. ASSUME NEW i \in S
       PROVE  v[i] \in Nat /\ v[i] >= (w[i] * pool) \div BPS + c[i]
  BY <1>3, <1>5, <1>9
<1>15. \A i \in 1..n : v[i] \in Nat /\ v[i] >= (w[i] * pool) \div BPS + c[i]
  BY <1>2, <1>13, <1>14
<1>16. SumFunctionOnSet(v, 1..n) = v[n] + V
  BY <1>15, SumOfVector DEF IntsOn, V, S
<1> QED
  BY <1>0, <1>11, <1>15, <1>16

\* The incentive adjustment of a list that makes up 100% is a list of the same
\* recipients that makes up 100%, and leaves everybody at least the floor of what
\* the bonuses left of their share, and their capped bonus.
LEMMA AdjustmentIsWhole ==
    ASSUME NEW base, IsList(base), Len(base) # 0, SumFunction(SharesOf(base)) = BPS,
           NEW raw \in [1..Len(base) -> Nat], SumFunction(raw) # 0
    PROVE  LET n == Len(base)
               adjusted == AdjustShares(base, raw)
               scaled == ScaledBonuses(raw)
               pool == BPS - SumFunctionOnSet(scaled, 1..n)
           IN  /\ IsList(adjusted) /\ Len(adjusted) = n /\ DOMAIN adjusted = 1..n
               /\ \A i \in 1..n : adjusted[i].address = base[i].address
               /\ SumFunction(SharesOf(adjusted)) = BPS
               /\ \A i \in 1..n :
                     adjusted[i].share >= (base[i].share * pool) \div BPS + scaled[i]
<1> DEFINE n == Len(base)
           w == SharesOf(base)
           scaled == ScaledBonuses(raw)
           pool == BPS - SumFunctionOnSet(scaled, 1..n)
           front == [i \in 1..(n - 1) |-> (base[i].share * pool) \div BPS + scaled[i]]
           shares == Append(front, BPS - SumFunction(front))
           adjusted == Recipients(AddressesOf(base), shares)
<1>0. n \in Nat \ {0} /\ BPS \in Nat \ {0}
  BY DEF IsList, BPS
<1>1. scaled \in [1..n -> Nat] /\ pool \in Nat
  <2> DEFINE sum == SumFunctionOnSet(scaled, 1..n)
  <2>1. scaled \in [1..n -> Nat] /\ sum \in 0..MAX_TOTAL_INCENTIVE_BPS
    BY <1>0, BonusesAreCapped
  <2> HIDE DEF sum, scaled
  <2>2. BPS - sum \in Nat
    BY <2>1 DEF MAX_TOTAL_INCENTIVE_BPS, BPS
  <2> QED
    BY <2>1, <2>2 DEF sum
<1>2. adjusted = AdjustShares(base, raw)
  <2>1. SumFunction(scaled) = SumFunctionOnSet(scaled, 1..n)
    BY <1>1 DEF SumFunction
  <2> QED
    BY <2>1 DEF AdjustShares
<1>3. /\ \A i \in 1..n : w[i] = base[i].share /\ w[i] \in Nat
      /\ SumFunctionOnSet(w, 1..n) = BPS
  BY ListShares
<1> HIDE DEF scaled, w
<1>4. \A i \in 1..(n - 1) : w[i] \in Nat /\ w[i] = base[i].share /\ scaled[i] \in Nat
  BY <1>0, <1>1, <1>3
<1>5. \A i \in 1..(n - 1) : front[i] = (w[i] * pool) \div BPS + scaled[i] /\ front[i] \in Int
  <2> HIDE DEF pool
  <2> QED
    BY <1>0, <1>1, <1>4
<1>6. front \in Seq(Int) /\ Len(front) = n - 1 /\ DOMAIN front = 1..(n - 1)
  BY <1>0, <1>5
<1>7. IsFiniteSet(1..(n - 1)) /\ IntsOn(front, 1..(n - 1))
  <2>1. IsFiniteSet(1..(n - 1))
    BY <1>0, FS_Interval
  <2> QED
    BY <1>5, <2>1 DEF IntsOn
<1>8. SumFunction(front) = SumFunctionOnSet(front, 1..(n - 1)) /\ SumFunction(front) \in Int
  BY <1>6, <1>7, SumType DEF SumFunction
<1> HIDE DEF front, pool
<1>9. /\ Len(shares) = n /\ shares[n] = BPS - SumFunction(front)
      /\ \A i \in 1..(n - 1) : shares[i] = front[i]
  BY <1>0, <1>6, <1>8
<1> HIDE DEF shares
<1>10. SumFunctionOnSet(shares, 1..(n - 1)) = SumFunctionOnSet(front, 1..(n - 1))
  BY <1>7, <1>9, SumEqual
<1>11. shares[n] = BPS - SumFunctionOnSet(shares, 1..(n - 1))
  BY <1>8, <1>9, <1>10
<1>12. \A i \in 1..(n - 1) : shares[i] = (w[i] * pool) \div BPS + scaled[i]
  BY <1>5, <1>9
<1>13. /\ \A i \in 1..n : /\ shares[i] \in Nat
                          /\ shares[i] >= (w[i] * pool) \div BPS + scaled[i]
       /\ SumFunctionOnSet(shares, 1..n) = BPS
  <2>1. \A i \in 1..n : scaled[i] \in Nat
    BY <1>1
  <2>2. pool = BPS - SumFunctionOnSet(scaled, 1..n) /\ pool \in Nat
    BY <1>1 DEF pool
  <2>3. (\A i \in 1..n : w[i] \in Nat) /\ SumFunctionOnSet(w, 1..n) = BPS
    BY <1>3
  <2>4. AreAdjusted(shares, w, scaled, pool, n)
    BY <1>11, <1>12, <2>1, <2>2, <2>3 DEF AreAdjusted
  <2> HIDE DEF n
  <2> QED
    BY <1>0, <2>2, <2>3, <2>4, AdjustedVector
<1>14. /\ Len(adjusted) = n /\ DOMAIN adjusted = 1..n
       /\ \A i \in 1..n : adjusted[i].address = base[i].address /\ adjusted[i].share = shares[i]
  BY <1>0 DEF Recipients, AddressesOf
<1> HIDE DEF adjusted
<1>15. IsList(adjusted)
  BY <1>0, <1>13, <1>14 DEF IsList
<1>16. SumFunction(SharesOf(adjusted)) = BPS
  <2>1. /\ SumFunction(SharesOf(adjusted)) = SumFunctionOnSet(SharesOf(adjusted), 1..n)
        /\ \A i \in 1..n : SharesOf(adjusted)[i] = shares[i]
    BY <1>14, <1>15, ListShares
  <2>2. IsFiniteSet(1..n)
    BY <1>0, FS_Interval
  <2>3. SumFunctionOnSet(SharesOf(adjusted), 1..n) = SumFunctionOnSet(shares, 1..n)
    <3>1. IntsOn(shares, 1..n)
      BY <1>13 DEF IntsOn
    <3> QED
      BY <2>1, <2>2, <3>1, SumEqual
  <2> QED
    BY <1>13, <2>1, <2>3
<1>17. \A i \in 1..n : adjusted[i].share >= (base[i].share * pool) \div BPS + scaled[i]
  BY <1>3, <1>13, <1>14
<1> QED
  BY <1>2, <1>14, <1>15, <1>16, <1>17 DEF scaled, pool

\* Shares that add up to at most the limit overflow on no prefix either.
LEMMA TotalFits ==
    ASSUME NEW f, Len(f) \in Nat, \A i \in 1..Len(f) : f[i] \in Nat, NEW limit \in Int,
           SumFunctionOnSet(f, 1..Len(f)) <= limit
    PROVE  AddsUpTo(f, limit)
<1> SUFFICES ASSUME NEW k \in 0..Len(f)
             PROVE  SumFunctionOnSet(f, 1..k) <= limit
  BY DEF AddsUpTo
<1>1. IsFiniteSet(1..Len(f)) /\ IsFiniteSet(1..k)
  BY FS_Interval
<1>2. 1..k \in SUBSET (1..Len(f))
  OBVIOUS
<1>3. SumFunctionOnSet(f, 1..k) \in Nat /\ SumFunctionOnSet(f, 1..Len(f)) \in Nat
  BY <1>1, <1>2, SumNonNegative
<1>4. SumFunctionOnSet(f, 1..k) <= SumFunctionOnSet(f, 1..Len(f))
  BY <1>1, <1>2, SumOfPart
<1> QED
  BY <1>3, <1>4
=============================================================================
