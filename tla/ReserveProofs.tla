--------------------------- MODULE ReserveProofs ---------------------------
(***************************************************************************)
(* Theorems about Reserve.tla, for every interest rate strategy, reserve   *)
(* factor, scale and history of calls: the bookkeeping of a reserve with   *)
(* its clock never underflows, and its normalised indices never fall.      *)
(***************************************************************************)
EXTENDS Reserve, WadRayMathProofs

-----------------------------------------------------------------------------
(* Interest over time.                                                     *)

LEMMA ProductsMonotone ==
    ASSUME NEW a \in Nat, NEW b \in Nat, NEW c \in Nat, NEW d \in Nat, a <= b, c <= d
    PROVE  a * c <= b * d
<1>1. a * c <= b * c /\ c * b <= d * b
  BY ProductMonotone
<1>2. c * b = b * c /\ d * b = b * d
  OBVIOUS
<1>3. a * c \in Nat /\ b * c \in Nat /\ b * d \in Nat
  BY ProductNat
<1> QED
  BY <1>1, <1>2, <1>3

LEMMA LinearInterest ==
    ASSUME NEW rate \in Nat, NEW elapsed \in Nat
    PROVE  \E x \in Nat : calculateLinearInterest(rate, elapsed) = x + RAY
<1> DEFINE x == (rate * elapsed) \div SECONDS_PER_YEAR
<1>1. x \in Nat
  BY ProductNat, DivBounds, YearAssumption
<1>2. calculateLinearInterest(rate, elapsed) = RAY + x
  BY DEF calculateLinearInterest
<1> HIDE DEF x
<1>3. calculateLinearInterest(rate, elapsed) = x + RAY
  BY <1>1, <1>2, ScaleAssumption
<1> QED
  BY <1>1, <1>3

LEMMA LinearInterestMonotone ==
    ASSUME NEW rate \in Nat, NEW m \in Nat, NEW n \in Nat, m <= n
    PROVE  calculateLinearInterest(rate, m) <= calculateLinearInterest(rate, n)
<1>1. rate * m <= rate * n /\ rate * m \in Nat /\ rate * n \in Nat
  BY ProductsMonotone, ProductNat
<1>2. (rate * m) \div SECONDS_PER_YEAR <= (rate * n) \div SECONDS_PER_YEAR
  BY <1>1, QuotientMonotone, YearAssumption
<1>3. (rate * m) \div SECONDS_PER_YEAR \in Nat /\ (rate * n) \div SECONDS_PER_YEAR \in Nat
  BY <1>1, DivBounds, YearAssumption
<1> QED
  BY <1>2, <1>3, ScaleAssumption DEF calculateLinearInterest

(* The terms of the series, for the two powers of the rate.                *)
Term1(rate, n) == (rate * n) \div SECONDS_PER_YEAR
Term2(p, n) == (n * (n - 1) * p) \div 2
Term3(p, n) == (n * (n - 1) * (IF n > 2 THEN n - 2 ELSE 0) * p) \div 6
Power2(rate) == rayMul(rate, rate) \div (SECONDS_PER_YEAR * SECONDS_PER_YEAR)
Power3(rate) == rayMul(Power2(rate), rate) \div SECONDS_PER_YEAR

LEMMA PowersNat ==
    ASSUME NEW rate \in Nat
    PROVE  Power2(rate) \in Nat /\ Power3(rate) \in Nat
<1>1. SECONDS_PER_YEAR * SECONDS_PER_YEAR \in Nat \ {0}
  BY YearAssumption
<1>2. rayMul(rate, rate) \in Nat
  BY RayMulNat
<1>3. Power2(rate) \in Nat
  BY <1>1, <1>2, DivBounds DEF Power2
<1>4. rayMul(Power2(rate), rate) \in Nat
  BY <1>3, RayMulNat
<1> QED
  BY <1>3, <1>4, DivBounds, YearAssumption DEF Power3

LEMMA CompoundedTerms ==
    ASSUME NEW rate \in Nat, NEW n \in Nat \ {0}
    PROVE  calculateCompoundedInterest(rate, n) =
               RAY + Term1(rate, n) + Term2(Power2(rate), n) + Term3(Power3(rate), n)
  BY DEF calculateCompoundedInterest, Term1, Term2, Term3, Power2, Power3

LEMMA TermsMonotone ==
    ASSUME NEW rate \in Nat, NEW p \in Nat, NEW q \in Nat,
           NEW m \in Nat \ {0}, NEW n \in Nat \ {0}, m <= n
    PROVE  /\ Term1(rate, m) \in Nat /\ Term1(rate, m) <= Term1(rate, n)
           /\ Term2(p, m) \in Nat /\ Term2(p, m) <= Term2(p, n)
           /\ Term3(q, m) \in Nat /\ Term3(q, m) <= Term3(q, n)
<1>1. /\ rate * m \in Nat /\ rate * n \in Nat /\ rate * m <= rate * n
  BY ProductsMonotone, ProductNat
<1>2. /\ m * (m - 1) \in Nat /\ n * (n - 1) \in Nat /\ m * (m - 1) <= n * (n - 1)
  <2>1. m - 1 \in Nat /\ n - 1 \in Nat /\ m - 1 <= n - 1
    OBVIOUS
  <2> QED
    BY <2>1, ProductsMonotone, ProductNat
<1> DEFINE two(k) == IF k > 2 THEN k - 2 ELSE 0
           a == m * (m - 1)
           b == n * (n - 1)
<1>3. two(m) \in Nat /\ two(n) \in Nat /\ two(m) <= two(n)
  OBVIOUS
<1>4. Term2(p, m) = (a * p) \div 2 /\ Term2(p, n) = (b * p) \div 2
  BY DEF Term2
<1>5. Term3(q, m) = (a * two(m) * q) \div 6 /\ Term3(q, n) = (b * two(n) * q) \div 6
  BY DEF Term3
<1>6. a \in Nat /\ b \in Nat /\ a <= b
  BY <1>2
<1> HIDE DEF a, b, two
<1>7. a * p \in Nat /\ b * p \in Nat /\ a * p <= b * p
  BY <1>6, ProductsMonotone, ProductNat
<1>8. a * two(m) \in Nat /\ b * two(n) \in Nat /\ a * two(m) <= b * two(n)
  BY <1>3, <1>6, ProductsMonotone, ProductNat
<1>9. /\ a * two(m) * q \in Nat /\ b * two(n) * q \in Nat
      /\ a * two(m) * q <= b * two(n) * q
  BY <1>8, ProductsMonotone, ProductNat
<1>10. Term1(rate, m) \in Nat /\ Term1(rate, m) <= Term1(rate, n)
  BY <1>1, QuotientMonotone, DivBounds, YearAssumption DEF Term1
<1>11. Term2(p, m) \in Nat /\ Term2(p, m) <= Term2(p, n)
  <2>1. 2 \in Nat \ {0}
    OBVIOUS
  <2> QED
    BY <1>4, <1>7, <2>1, QuotientMonotone, DivBounds
<1>12. Term3(q, m) \in Nat /\ Term3(q, m) <= Term3(q, n)
  <2>1. 6 \in Nat \ {0}
    OBVIOUS
  <2> QED
    BY <1>5, <1>9, <2>1, QuotientMonotone, DivBounds
<1> QED
  BY <1>10, <1>11, <1>12

(* Compounded interest is never less than one.                             *)
LEMMA CompoundedInterest ==
    ASSUME NEW rate \in Nat, NEW elapsed \in Nat
    PROVE  \E x \in Nat : calculateCompoundedInterest(rate, elapsed) = x + RAY
<1>1. RAY \in Nat
  BY ScaleAssumption
<1>2. CASE elapsed = 0
  <2>1. calculateCompoundedInterest(rate, elapsed) = 0 + RAY /\ 0 \in Nat
    BY <1>1, <1>2 DEF calculateCompoundedInterest
  <2> QED
    BY <2>1
<1>3. CASE elapsed # 0
  <2> DEFINE x == Term1(rate, elapsed) + Term2(Power2(rate), elapsed)
                    + Term3(Power3(rate), elapsed)
  <2>1. /\ Term1(rate, elapsed) \in Nat /\ Term2(Power2(rate), elapsed) \in Nat
        /\ Term3(Power3(rate), elapsed) \in Nat
    BY <1>3, PowersNat, TermsMonotone
  <2>2. x \in Nat
    BY <2>1
  <2>3. calculateCompoundedInterest(rate, elapsed) =
            RAY + Term1(rate, elapsed) + Term2(Power2(rate), elapsed)
              + Term3(Power3(rate), elapsed)
    BY <1>3, CompoundedTerms
  <2>4. calculateCompoundedInterest(rate, elapsed) = x + RAY
    BY <1>1, <2>1, <2>3
  <2> QED
    BY <2>2, <2>4
<1> QED
  BY <1>2, <1>3

LEMMA CompoundedNat ==
    ASSUME NEW rate \in Nat, NEW elapsed \in Nat
    PROVE  /\ calculateCompoundedInterest(rate, elapsed) \in Nat
           /\ RAY <= calculateCompoundedInterest(rate, elapsed)
  BY CompoundedInterest, ScaleAssumption

(* The binomial series, cut where it is, still grows with time: debts      *)
(* never shrink by themselves.                                             *)
LEMMA CompoundedMonotone ==
    ASSUME NEW rate \in Nat, NEW m \in Nat, NEW n \in Nat, m <= n
    PROVE  calculateCompoundedInterest(rate, m) <= calculateCompoundedInterest(rate, n)
<1>1. RAY \in Nat
  BY ScaleAssumption
<1>2. CASE m = 0
  <2>1. calculateCompoundedInterest(rate, m) = RAY
    BY <1>2 DEF calculateCompoundedInterest
  <2> QED
    BY <2>1, CompoundedNat
<1>3. CASE m # 0
  <2>1. m \in Nat \ {0} /\ n \in Nat \ {0}
    BY <1>3
  <2> DEFINE p == Power2(rate)
             q == Power3(rate)
             a1 == Term1(rate, m)
             a2 == Term2(p, m)
             a3 == Term3(q, m)
             b1 == Term1(rate, n)
             b2 == Term2(p, n)
             b3 == Term3(q, n)
  <2>2. /\ calculateCompoundedInterest(rate, m) = RAY + a1 + a2 + a3
        /\ calculateCompoundedInterest(rate, n) = RAY + b1 + b2 + b3
    BY <2>1, CompoundedTerms
  <2>3. p \in Nat /\ q \in Nat /\ n <= n
    BY PowersNat
  <2> HIDE DEF p, q
  <2>4. a1 \in Nat /\ a1 <= b1 /\ a2 \in Nat /\ a2 <= b2 /\ a3 \in Nat /\ a3 <= b3
    BY <2>1, <2>3, TermsMonotone
  <2>5. b1 \in Nat /\ b2 \in Nat /\ b3 \in Nat
    BY <2>1, <2>3, TermsMonotone
  <2> HIDE DEF a1, a2, a3, b1, b2, b3
  <2> QED
    BY <1>1, <2>2, <2>4, <2>5
<1> QED
  BY <1>2, <1>3

-----------------------------------------------------------------------------
(* Rates.                                                                  *)

(* A part of a whole is at most one.                                       *)
LEMMA RatioAtMostOne ==
    ASSUME NEW a \in Nat, NEW b \in Nat \ {0}, a <= b
    PROVE  rayDiv(a, b) \in 0..RAY
<1>1. RAY \in Nat /\ b \div 2 \in Nat /\ b \div 2 < b
  BY ScaleAssumption
<1>2. a * RAY <= b * RAY /\ a * RAY \in Nat /\ b * RAY \in Nat
  BY <1>1, ProductMonotone, ProductNat
<1>3. (a * RAY + b \div 2) \div b <= (b * RAY + b \div 2) \div b
  BY <1>1, <1>2, QuotientMonotone
<1>4. (b * RAY + b \div 2) \div b = RAY
  <2>1. RAY * b = b * RAY
    BY <1>1
  <2>2. RAY * b <= b * RAY + b \div 2 /\ b * RAY + b \div 2 < RAY * b + b
    BY <1>1, <1>2, <2>1
  <2> QED
    BY <1>1, <1>2, <2>2, DivUnique
<1>5. rayDiv(a, b) \in Nat
  BY RayDivNat
<1> QED
  BY <1>1, <1>3, <1>4, <1>5 DEF rayDiv

LEMMA WadInRays == WAD_RAY_RATIO \in Nat \ {0} /\ RAY = WAD * WAD_RAY_RATIO
<1>1. RAY \in Nat \ {0} /\ WAD \in Nat \ {0} /\ RAY % WAD = 0
  BY ScaleAssumption, TokenAssumption
<1>2. RAY = WAD * (RAY \div WAD) + (RAY % WAD) /\ RAY \div WAD \in Nat
  BY <1>1
<1>3. RAY = WAD * WAD_RAY_RATIO /\ WAD_RAY_RATIO \in Nat
  BY <1>1, <1>2 DEF WAD_RAY_RATIO
<1> QED
  BY <1>1, <1>3

LEMMA WadToRay ==
    ASSUME NEW a \in Nat
    PROVE  wadToRay(a) \in Nat /\ (a # 0 => wadToRay(a) # 0)
<1>1. WAD_RAY_RATIO \in Nat \ {0}
  BY WadInRays
<1>2. a * WAD_RAY_RATIO \in Nat
  BY <1>1, ProductNat
<1>3. ASSUME a # 0 PROVE a * WAD_RAY_RATIO # 0
  BY <1>1, <1>3
<1> QED
  BY <1>2, <1>3 DEF wadToRay

LEMMA ExcessNat ==
    ASSUME NEW ratio \in 0..RAY, NEW optimal \in 0..RAY
    PROVE  Excess(ratio, optimal) \in Nat
<1>1. RAY \in Nat
  BY ScaleAssumption
<1>2. CASE ratio <= optimal
  BY <1>2 DEF Excess
<1>3. CASE ~(ratio <= optimal)
  <2>1. ratio - optimal \in Nat /\ RAY - optimal \in Nat \ {0}
    BY <1>1, <1>3
  <2> QED
    BY <1>3, <2>1, RayDivNat DEF Excess
<1> QED
  BY <1>2, <1>3

LEMMA ClimbNat ==
    ASSUME NEW slope1 \in Nat, NEW slope2 \in Nat, NEW usage \in 0..RAY
    PROVE  Climb(slope1, slope2, usage) \in Nat
<1>1. OPTIMAL_USAGE_RATIO \in 0..RAY /\ OPTIMAL_USAGE_RATIO \in Nat \ {0} /\ usage \in Nat
  BY StrategyAssumption, ScaleAssumption
<1>2. Excess(usage, OPTIMAL_USAGE_RATIO) \in Nat
  BY <1>1, ExcessNat
<1>3. rayMul(slope2, Excess(usage, OPTIMAL_USAGE_RATIO)) \in Nat /\ rayMul(slope1, usage) \in Nat
  BY <1>1, <1>2, RayMulNat
<1>4. rayDiv(rayMul(slope1, usage), OPTIMAL_USAGE_RATIO) \in Nat
  BY <1>1, <1>3, RayDivNat
<1> QED
  BY <1>3, <1>4 DEF Climb

LEMMA OverallNat ==
    ASSUME NEW stable \in Nat, NEW variable \in Nat, NEW rate \in Nat, NEW average \in Nat
    PROVE  OverallBorrowRate(stable, variable, rate, average) \in Nat
<1>1. CASE stable + variable = 0
  BY <1>1 DEF OverallBorrowRate
<1>2. CASE stable + variable # 0
  <2>1. wadToRay(variable) \in Nat /\ wadToRay(stable) \in Nat
    BY WadToRay
  <2>2. rayMul(wadToRay(variable), rate) \in Nat /\ rayMul(wadToRay(stable), average) \in Nat
    BY <2>1, RayMulNat
  <2>3. stable + variable \in Nat /\ wadToRay(stable + variable) \in Nat \ {0}
    BY <1>2, WadToRay
  <2>4. rayMul(wadToRay(variable), rate) + rayMul(wadToRay(stable), average) \in Nat
    BY <2>2
  <2> QED
    BY <1>2, <2>3, <2>4, RayDivNat DEF OverallBorrowRate
<1> QED
  BY <1>1, <1>2

LEMMA StrategyNat ==
    /\ BaseVariableBorrowRate \in Nat /\ VariableRateSlope1 \in Nat
    /\ VariableRateSlope2 \in Nat /\ StableRateSlope1 \in Nat /\ StableRateSlope2 \in Nat
    /\ BaseStableRateOffset \in Nat /\ StableRateExcessOffset \in Nat
    /\ OPTIMAL_STABLE_TO_TOTAL_DEBT_RATIO \in 0..RAY
  BY StrategyAssumption

(* The strategy answers whatever it is asked about: no ratio it divides by *)
(* is zero and no excess negative.                                         *)
LEMMA RatesNat ==
    ASSUME NEW available \in Nat, NEW unbacked \in Nat, NEW stable \in Nat,
           NEW variable \in Nat, NEW average \in Nat,
           NEW b, b = [available |-> available, unbacked |-> unbacked, stable |-> stable,
                       variable |-> variable, averageStableRate |-> average,
                       reserveFactor |-> reserveFactor]
    PROVE  /\ calculateInterestRates(b).liquidityRate \in Nat
           /\ calculateInterestRates(b).stableRate \in Nat
           /\ calculateInterestRates(b).variableRate \in Nat
<1> DEFINE debt     == stable + variable
           usage    == IF debt = 0 THEN 0 ELSE rayDiv(debt, available + debt)
           toTotal  == IF debt = 0 THEN 0 ELSE rayDiv(stable, debt)
           rate     == BaseVariableBorrowRate
                         + Climb(VariableRateSlope1, VariableRateSlope2, usage)
           overall  == OverallBorrowRate(stable, variable, rate, average)
           supplied == SupplyUsageRatio(debt, available, unbacked)
           climbed  == Climb(StableRateSlope1, StableRateSlope2, usage)
           excess   == Excess(toTotal, OPTIMAL_STABLE_TO_TOTAL_DEBT_RATIO)
<1>1. debt \in Nat /\ stable <= debt /\ 0 \in 0..RAY
  BY ScaleAssumption
<1>2. /\ calculateInterestRates(b).liquidityRate =
             percentMul(rayMul(overall, supplied), PERCENTAGE_FACTOR - reserveFactor)
      /\ calculateInterestRates(b).stableRate =
             VariableRateSlope1 + BaseStableRateOffset + climbed
               + rayMul(StableRateExcessOffset, excess)
      /\ calculateInterestRates(b).variableRate = rate
  BY DEF calculateInterestRates
<1> HIDE DEF debt
<1>3. usage \in 0..RAY /\ toTotal \in 0..RAY /\ supplied \in Nat
  <2>1. CASE debt = 0
    BY <1>1, <2>1 DEF SupplyUsageRatio
  <2>2. CASE debt # 0
    <3>1. /\ available + debt \in Nat \ {0} /\ debt <= available + debt
          /\ debt \in Nat \ {0} /\ available + debt + unbacked \in Nat \ {0}
      BY <1>1, <2>2
    <3>2. rayDiv(debt, available + debt) \in 0..RAY
      BY <1>1, <3>1, RatioAtMostOne
    <3>3. rayDiv(stable, debt) \in 0..RAY
      BY <1>1, <3>1, RatioAtMostOne
    <3>4. rayDiv(debt, available + debt + unbacked) \in Nat
      BY <1>1, <3>1, RayDivNat
    <3> QED
      BY <2>2, <3>2, <3>3, <3>4 DEF SupplyUsageRatio
  <2> QED
    BY <2>1, <2>2
<1> HIDE DEF usage, toTotal, supplied
<1>4. rate \in Nat
  <2>1. Climb(VariableRateSlope1, VariableRateSlope2, usage) \in Nat
    BY <1>3, StrategyNat, ClimbNat
  <2> QED
    BY <2>1, StrategyNat
<1>5. climbed \in Nat
  BY <1>3, StrategyNat, ClimbNat
<1>6. rayMul(StableRateExcessOffset, excess) \in Nat
  <2>1. excess \in Nat
    BY <1>3, StrategyNat, ExcessNat
  <2> HIDE DEF excess
  <2> QED
    BY <2>1, StrategyNat, RayMulNat
<1> HIDE DEF rate, climbed, excess
<1>7. overall \in Nat
  BY <1>4, OverallNat
<1> HIDE DEF overall
<1>8. rayMul(overall, supplied) \in Nat
  BY <1>3, <1>7, RayMulNat
<1>9. PERCENTAGE_FACTOR - reserveFactor \in Nat
  BY ScaleAssumption, ReserveAssumption
<1>10. calculateInterestRates(b).liquidityRate \in Nat
  BY <1>2, <1>8, <1>9, PercentMulNat
<1> QED
  BY <1>2, <1>4, <1>5, <1>6, <1>10, StrategyNat

-----------------------------------------------------------------------------
(* The stable debt token.                                                  *)

TokenInv(t) ==
    /\ now \in Nat
    /\ t \in Token
    /\ t.supplyTimestamp <= now
    /\ \A u \in Users : t.userTimestamp[u] <= now

LEMMA TokenFacts ==
    ASSUME NEW t, TokenInv(t)
    PROVE  /\ t.supply \in Nat /\ t.avgStableRate \in Nat /\ t.supplyTimestamp \in Nat
           /\ t.reported.supply \in Nat /\ t.reported.avgStableRate \in Nat
           /\ now - t.supplyTimestamp \in Nat
           /\ \A u \in Users :
                 /\ t.principal[u] \in Nat /\ t.userRate[u] \in Nat
                 /\ now - t.userTimestamp[u] \in Nat
<1>1. t.supply \in Nat /\ t.avgStableRate \in Nat /\ t.supplyTimestamp \in Nat
      /\ t.reported \in [supply : Nat, avgStableRate : Nat] /\ now \in Nat
  BY DEF TokenInv, Token
<1>2. ASSUME NEW u \in Users
      PROVE  t.principal[u] \in Nat /\ t.userRate[u] \in Nat /\ t.userTimestamp[u] \in Nat
             /\ t.userTimestamp[u] <= now
  BY DEF TokenInv, Token
<1> QED
  BY <1>1, <1>2 DEF TokenInv

LEMMA StableBalanceNat ==
    ASSUME NEW t, TokenInv(t), NEW u \in Users
    PROVE  StableBalanceOf(t, u) \in Nat
<1>1. t.principal[u] \in Nat /\ t.userRate[u] \in Nat /\ now - t.userTimestamp[u] \in Nat
  BY TokenFacts
<1>2. calculateCompoundedInterest(t.userRate[u], now - t.userTimestamp[u]) \in Nat
  BY <1>1, CompoundedNat
<1>3. rayMul(t.principal[u],
             calculateCompoundedInterest(t.userRate[u], now - t.userTimestamp[u])) \in Nat
  BY <1>1, <1>2, RayMulNat
<1> QED
  BY <1>3 DEF StableBalanceOf

LEMMA StableTotalNat ==
    ASSUME NEW t, TokenInv(t)
    PROVE  StableTotalSupply(t) \in Nat
<1>1. t.supply \in Nat /\ t.avgStableRate \in Nat /\ now - t.supplyTimestamp \in Nat
  BY TokenFacts
<1>2. calculateCompoundedInterest(t.avgStableRate, now - t.supplyTimestamp) \in Nat
  BY <1>1, CompoundedNat
<1>3. rayMul(t.supply,
             calculateCompoundedInterest(t.avgStableRate, now - t.supplyTimestamp)) \in Nat
  BY <1>1, <1>2, RayMulNat
<1> QED
  BY <1>3 DEF StableTotalSupply

LEMMA MergedRateNat ==
    ASSUME NEW debt1 \in Nat, NEW rate1 \in Nat, NEW debt2 \in Nat \ {0}, NEW rate2 \in Nat
    PROVE  MergedRate(debt1, rate1, debt2, rate2) \in Nat
<1>1. wadToRay(debt1) \in Nat /\ wadToRay(debt2) \in Nat
  BY WadToRay
<1>2. rayMul(rate1, wadToRay(debt1)) \in Nat /\ rayMul(rate2, wadToRay(debt2)) \in Nat
  BY <1>1, RayMulNat
<1>3. rayMul(rate1, wadToRay(debt1)) + rayMul(rate2, wadToRay(debt2)) \in Nat
  BY <1>2
<1>4. debt1 + debt2 \in Nat \ {0}
  OBVIOUS
<1>5. wadToRay(debt1 + debt2) \in Nat \ {0}
  BY <1>4, WadToRay
<1> QED
  BY <1>3, <1>5, RayDivNat DEF MergedRate

(* The token after a mint or a burn, given what it is set to.              *)
Rebuilt(t, u, principal, rate, timestamp, supply, average, next) ==
    [t EXCEPT !.principal[u] = principal,
              !.userRate[u] = rate,
              !.userTimestamp[u] = timestamp,
              !.supply = supply,
              !.avgStableRate = average,
              !.supplyTimestamp = now,
              !.reported = [supply |-> next, avgStableRate |-> average]]

LEMMA TokenRebuilt ==
    ASSUME NEW t, TokenInv(t), NEW u \in Users,
           NEW principal \in Nat, NEW rate \in Nat, NEW timestamp \in Nat, timestamp <= now,
           NEW supply \in Nat, NEW average \in Nat, NEW next \in Nat
    PROVE  /\ TokenInv(Rebuilt(t, u, principal, rate, timestamp, supply, average, next))
           /\ Rebuilt(t, u, principal, rate, timestamp, supply, average, next).supplyTimestamp = now
<1> SUFFICES ASSUME NEW s, s = Rebuilt(t, u, principal, rate, timestamp, supply, average, next)
             PROVE  TokenInv(s) /\ s.supplyTimestamp = now
  OBVIOUS
<1>1. now \in Nat /\ timestamp \in Nat /\ timestamp <= now
  BY DEF TokenInv
<1>2. t \in Token
  BY DEF TokenInv
<1> DEFINE principals == [t.principal EXCEPT ![u] = principal]
           rates == [t.userRate EXCEPT ![u] = rate]
           timestamps == [t.userTimestamp EXCEPT ![u] = timestamp]
<1>3. /\ principals \in [Users -> Nat] /\ rates \in [Users -> Nat]
      /\ timestamps \in [Users -> Nat]
  BY <1>1, <1>2 DEF Token
<1>4. s = [principal |-> principals, userRate |-> rates, userTimestamp |-> timestamps,
           supply |-> supply, avgStableRate |-> average, supplyTimestamp |-> now,
           reported |-> [supply |-> next, avgStableRate |-> average]]
  BY <1>2 DEF Token, Rebuilt
<1>5. \A v \in Users : timestamps[v] <= now
  BY <1>1, <1>2 DEF TokenInv, Token
<1> HIDE DEF principals, rates, timestamps
<1>6. s \in Token /\ s.supplyTimestamp = now
  BY <1>1, <1>3, <1>4 DEF Token
<1> QED
  BY <1>1, <1>4, <1>5, <1>6 DEF TokenInv

LEMMA MintedType ==
    ASSUME NEW t, TokenInv(t), NEW u \in Users, NEW amount \in Nat \ {0}, NEW rate \in Nat
    PROVE  TokenInv(Minted(t, u, amount, rate)) /\ Minted(t, u, amount, rate).supplyTimestamp = now
<1> DEFINE balance == StableBalanceOf(t, u)
           previous == StableTotalSupply(t)
           userRate == MergedRate(balance, t.userRate[u], amount, rate)
           average == MergedRate(previous, t.avgStableRate, amount, rate)
<1>1. Minted(t, u, amount, rate) =
          Rebuilt(t, u, balance + amount, userRate, now, previous + amount, average,
                  previous + amount)
  BY DEF Minted, Rebuilt
<1>2. balance \in Nat /\ previous \in Nat /\ t.userRate[u] \in Nat /\ t.avgStableRate \in Nat
  BY StableBalanceNat, StableTotalNat, TokenFacts
<1> HIDE DEF balance, previous
<1>3. userRate \in Nat /\ average \in Nat
  BY <1>2, MergedRateNat
<1>4. balance + amount \in Nat /\ previous + amount \in Nat
  BY <1>2
<1> DEFINE principal == balance + amount
           timestamp == now
           supply == previous + amount
           next == previous + amount
<1>5. Minted(t, u, amount, rate) =
          Rebuilt(t, u, principal, userRate, timestamp, supply, average, next)
  BY <1>1
<1>6. principal \in Nat /\ supply \in Nat /\ next \in Nat /\ timestamp \in Nat /\ timestamp <= now
  BY <1>4 DEF TokenInv
<1> HIDE DEF userRate, average, principal, timestamp, supply, next
<1>7. TokenInv(Rebuilt(t, u, principal, userRate, timestamp, supply, average, next))
  BY <1>3, <1>6, TokenRebuilt
<1>8. Rebuilt(t, u, principal, userRate, timestamp, supply, average, next).supplyTimestamp = now
  BY <1>3, <1>6, TokenRebuilt
<1> QED
  BY <1>5, <1>7, <1>8

LEMMA BurnedType ==
    ASSUME NEW t, TokenInv(t), NEW u \in Users, NEW amount \in 0..StableBalanceOf(t, u)
    PROVE  TokenInv(Burned(t, u, amount)) /\ Burned(t, u, amount).supplyTimestamp = now
<1> DEFINE balance == StableBalanceOf(t, u)
           previous == StableTotalSupply(t)
           carried == rayMul(t.avgStableRate, wadToRay(previous))
           paid == RateRepaid(t, u, amount)
           next == IF previous <= amount THEN 0 ELSE previous - amount
           average == IF previous <= amount \/ paid >= carried THEN 0
                      ELSE rayDiv(carried - paid, wadToRay(next))
           left == PrincipalLeft(t, u, amount)
           supply == SupplyLeft(previous, amount, paid, carried)
           rate == IF amount = balance THEN 0 ELSE t.userRate[u]
           timestamp == IF amount = balance THEN 0 ELSE now
<1>1. Burned(t, u, amount) =
          Rebuilt(t, u, left, rate, timestamp, supply, average, next)
  BY DEF Burned, Rebuilt
<1>2. /\ balance \in Nat /\ previous \in Nat /\ amount \in Nat
      /\ t.userRate[u] \in Nat /\ t.avgStableRate \in Nat
  BY StableBalanceNat, StableTotalNat, TokenFacts
<1>3. left \in Nat
  BY <1>2 DEF PrincipalLeft
<1> HIDE DEF balance, previous
<1>4. wadToRay(previous) \in Nat /\ wadToRay(amount) \in Nat
  BY <1>2, WadToRay
<1>5. carried \in Nat /\ paid \in Nat
  BY <1>2, <1>4, RayMulNat DEF RateRepaid
<1>6. next \in Nat /\ (~(previous <= amount) => next # 0)
  BY <1>2
<1> HIDE DEF carried, paid, next
<1>7. supply \in Nat
  BY <1>2 DEF SupplyLeft
<1>8. average \in Nat
  <2>1. CASE previous <= amount \/ paid >= carried
    BY <2>1
  <2>2. CASE ~(previous <= amount \/ paid >= carried)
    <3>1. carried - paid \in Nat
      BY <1>5, <2>2
    <3>2. wadToRay(next) \in Nat \ {0}
      BY <1>6, <2>2, WadToRay
    <3>3. rayDiv(carried - paid, wadToRay(next)) \in Nat
      BY <3>1, <3>2, RayDivNat
    <3> QED
      BY <2>2, <3>3
  <2> QED
    BY <2>1, <2>2
<1>9. rate \in Nat /\ timestamp \in Nat /\ timestamp <= now
  BY <1>2 DEF TokenInv
<1> HIDE DEF left, supply, average, rate, timestamp
<1>10. TokenInv(Rebuilt(t, u, left, rate, timestamp, supply, average, next))
  BY <1>3, <1>6, <1>7, <1>8, <1>9, TokenRebuilt
<1>11. Rebuilt(t, u, left, rate, timestamp, supply, average, next).supplyTimestamp = now
  BY <1>3, <1>6, <1>7, <1>8, <1>9, TokenRebuilt
<1> QED
  BY <1>1, <1>10, <1>11

-----------------------------------------------------------------------------
(* The reserve.                                                            *)

(* Its indices start at one and only grow, which keeps every division by   *)
(* an index defined; and it has not been updated in the future.            *)
RecordInv(r) ==
    /\ r \in ReserveData
    /\ RAY <= r.liquidityIndex /\ RAY <= r.variableBorrowIndex
    /\ r.lastUpdateTimestamp <= now

(* The token changes only in calls that update the reserve: the interest   *)
(* it has charged since is that of the reserve's time away.                *)
BooksInv(r, t) == RecordInv(r) /\ TokenInv(t) /\ t.supplyTimestamp <= r.lastUpdateTimestamp

ReserveInv == BooksInv(reserve, token) /\ calls \in 0..MaxCalls

LEMMA RecordFacts ==
    ASSUME NEW r, RecordInv(r), now \in Nat
    PROVE  /\ r.liquidityIndex \in Nat \ {0} /\ r.variableBorrowIndex \in Nat \ {0}
           /\ RAY <= r.liquidityIndex /\ RAY <= r.variableBorrowIndex
           /\ r.currentLiquidityRate \in Nat /\ r.currentVariableBorrowRate \in Nat
           /\ r.currentStableBorrowRate \in Nat
           /\ r.lastUpdateTimestamp \in Nat /\ r.lastUpdateTimestamp <= now
           /\ r.accruedToTreasury \in Nat /\ r.unbacked \in Nat
           /\ r.scaledSupply \in Nat /\ r.scaledVariableDebt \in Nat /\ r.liquidity \in Nat
           /\ Elapsed(r) \in Nat
<1>1. /\ r.liquidityIndex \in Nat /\ r.variableBorrowIndex \in Nat
      /\ r.currentLiquidityRate \in Nat /\ r.currentVariableBorrowRate \in Nat
      /\ r.currentStableBorrowRate \in Nat /\ r.lastUpdateTimestamp \in Nat
      /\ r.accruedToTreasury \in Nat /\ r.unbacked \in Nat
      /\ r.scaledSupply \in Nat /\ r.scaledVariableDebt \in Nat /\ r.liquidity \in Nat
  BY DEF RecordInv, ReserveData
<1>2. /\ RAY <= r.liquidityIndex /\ RAY <= r.variableBorrowIndex
      /\ r.lastUpdateTimestamp <= now
  BY DEF RecordInv
<1>3. Elapsed(r) \in Nat
  BY <1>1, <1>2 DEF Elapsed
<1> QED
  BY <1>1, <1>2, <1>3, ScaleAssumption

(* Caught up with the block or not, an index does not fall.                *)
LEMMA NextIndices ==
    ASSUME NEW r, RecordInv(r), now \in Nat
    PROVE  /\ NextLiquidityIndex(r) \in Nat /\ r.liquidityIndex <= NextLiquidityIndex(r)
           /\ NextVariableBorrowIndex(r) \in Nat
           /\ r.variableBorrowIndex <= NextVariableBorrowIndex(r)
<1>1. /\ r.liquidityIndex \in Nat /\ r.variableBorrowIndex \in Nat /\ Elapsed(r) \in Nat
      /\ r.currentLiquidityRate \in Nat /\ r.currentVariableBorrowRate \in Nat
  BY RecordFacts
<1>2. PICK x \in Nat :
          calculateLinearInterest(r.currentLiquidityRate, Elapsed(r)) = x + RAY
  BY <1>1, LinearInterest
<1>3. PICK y \in Nat :
          calculateCompoundedInterest(r.currentVariableBorrowRate, Elapsed(r)) = y + RAY
  BY <1>1, CompoundedInterest
<1>4. x + RAY \in Nat /\ y + RAY \in Nat
  BY ScaleAssumption
<1>5. getNormalizedIncome(r) \in Nat /\ r.liquidityIndex <= getNormalizedIncome(r)
  BY <1>1, <1>2, <1>4, RayMulNat, RayMulGrows DEF getNormalizedIncome
<1>6. getNormalizedDebt(r) \in Nat /\ r.variableBorrowIndex <= getNormalizedDebt(r)
  BY <1>1, <1>3, <1>4, RayMulNat, RayMulGrows DEF getNormalizedDebt
<1> QED
  BY <1>1, <1>5, <1>6 DEF NextLiquidityIndex, NextVariableBorrowIndex

(* The debt at the last update, whose interest is already charged, is      *)
(* never more than the debt now: the subtraction does not underflow.       *)
LEMMA StableDebtGrows ==
    ASSUME NEW r, NEW t, BooksInv(r, t)
    PROVE  /\ StableDebtAtLastUpdate(r, t) \in Nat
           /\ StableDebtAtLastUpdate(r, t) <= StableTotalSupply(t)
<1>1. /\ now \in Nat /\ t.supply \in Nat /\ t.avgStableRate \in Nat /\ t.supplyTimestamp \in Nat
      /\ r.lastUpdateTimestamp \in Nat /\ r.lastUpdateTimestamp <= now
      /\ t.supplyTimestamp <= r.lastUpdateTimestamp
  BY TokenFacts, RecordFacts DEF BooksInv, TokenInv
<1> DEFINE m == r.lastUpdateTimestamp - t.supplyTimestamp
           n == now - t.supplyTimestamp
           then == calculateCompoundedInterest(t.avgStableRate, m)
           present == calculateCompoundedInterest(t.avgStableRate, n)
<1>2. m \in Nat /\ n \in Nat /\ m <= n
  BY <1>1
<1> HIDE DEF m, n
<1>3. then \in Nat /\ RAY <= then /\ present \in Nat /\ then <= present
  BY <1>1, <1>2, CompoundedNat, CompoundedMonotone
<1>4. StableDebtAtLastUpdate(r, t) = rayMul(t.supply, then)
  BY DEF StableDebtAtLastUpdate, m
<1>5. StableTotalSupply(t) = IF t.supply = 0 THEN 0 ELSE rayMul(t.supply, present)
  BY DEF StableTotalSupply, n
<1> HIDE DEF then, present
<1>6. rayMul(t.supply, then) \in Nat
  BY <1>1, <1>3, RayMulNat
<1>7. CASE t.supply = 0
  <2>1. rayMul(t.supply, then) = 0
    BY <1>1, <1>3, <1>7, RayMulZero
  <2> QED
    BY <1>4, <1>5, <1>7, <2>1
<1>8. CASE t.supply # 0
  <2>1. rayMul(t.supply, then) <= rayMul(t.supply, present)
    BY <1>1, <1>3, RayMulMonotone
  <2> QED
    BY <1>4, <1>5, <1>6, <1>8, <2>1
<1> QED
  BY <1>7, <1>8

(* Interest is never negative, and neither is the treasury's share of it.  *)
LEMMA TreasuryShareNat ==
    ASSUME NEW r, NEW t, BooksInv(r, t)
    PROVE  DebtAccrued(r, t) \in Nat /\ TreasuryShare(r, t) \in Nat
<1>1. RecordInv(r) /\ TokenInv(t) /\ now \in Nat
  BY DEF BooksInv, TokenInv
<1>2. /\ r.scaledVariableDebt \in Nat /\ r.variableBorrowIndex \in Nat
      /\ r.liquidityIndex \in Nat \ {0}
  BY <1>1, RecordFacts
<1>3. /\ NextLiquidityIndex(r) \in Nat /\ r.liquidityIndex <= NextLiquidityIndex(r)
      /\ NextVariableBorrowIndex(r) \in Nat
      /\ r.variableBorrowIndex <= NextVariableBorrowIndex(r)
  BY <1>1, NextIndices
<1> DEFINE variable == rayMul(r.scaledVariableDebt, r.variableBorrowIndex)
           variableNow == rayMul(r.scaledVariableDebt, NextVariableBorrowIndex(r))
           stable == StableDebtAtLastUpdate(r, t)
           stableNow == StableTotalSupply(t)
<1>4. variable \in Nat /\ variableNow \in Nat /\ variable <= variableNow
  BY <1>2, <1>3, RayMulNat, RayMulMonotone
<1>5. stable \in Nat /\ stableNow \in Nat /\ stable <= stableNow
  BY <1>1, StableDebtGrows, StableTotalNat
<1>6. DebtAccrued(r, t) = variableNow + stableNow - variable - stable
  BY DEF DebtAccrued
<1> HIDE DEF variable, variableNow, stable, stableNow
<1>7. DebtAccrued(r, t) \in Nat
  BY <1>4, <1>5, <1>6
<1>8. percentMul(DebtAccrued(r, t), reserveFactor) \in Nat
  <2>1. reserveFactor \in Nat
    BY ReserveAssumption, ScaleAssumption
  <2> QED
    BY <1>7, <2>1, PercentMulNat
<1>9. NextLiquidityIndex(r) \in Nat \ {0}
  BY <1>2, <1>3
<1>10. rayDiv(percentMul(DebtAccrued(r, t), reserveFactor), NextLiquidityIndex(r)) \in Nat
  BY <1>8, <1>9, RayDivNat
<1> QED
  BY <1>7, <1>10 DEF TreasuryShare

(* Updating keeps the books, and dates them.                               *)
LEMMA UpdatedType ==
    ASSUME NEW r, NEW t, BooksInv(r, t)
    PROVE  /\ RecordInv(UpToDate(r, t))
           /\ UpToDate(r, t).lastUpdateTimestamp = now
<1>1. RecordInv(r) /\ TokenInv(t) /\ now \in Nat
  BY DEF BooksInv, TokenInv
<1>2. CASE r.lastUpdateTimestamp = now
  BY <1>1, <1>2 DEF UpToDate
<1>3. CASE r.lastUpdateTimestamp # now
  <2> DEFINE income == NextLiquidityIndex(r)
             debt == NextVariableBorrowIndex(r)
             treasury == r.accruedToTreasury + TreasuryShare(r, t)
             s == [r EXCEPT !.liquidityIndex = income, !.variableBorrowIndex = debt,
                            !.accruedToTreasury = treasury, !.lastUpdateTimestamp = now]
  <2>1. r \in ReserveData
    BY <1>1 DEF RecordInv
  <2>2. UpToDate(r, t) = s
    BY <1>3, <2>1 DEF UpToDate, ReserveData
  <2>3. /\ r.liquidityIndex \in Nat /\ r.variableBorrowIndex \in Nat
        /\ RAY <= r.liquidityIndex /\ RAY <= r.variableBorrowIndex
        /\ r.accruedToTreasury \in Nat /\ RAY \in Nat
    BY <1>1, RecordFacts, ScaleAssumption
  <2>4. /\ income \in Nat /\ r.liquidityIndex <= income
        /\ debt \in Nat /\ r.variableBorrowIndex <= debt
    BY <1>1, NextIndices
  <2>5. treasury \in Nat
    BY <2>3, TreasuryShareNat
  <2> HIDE DEF income, debt, treasury
  <2>6. RAY <= income /\ RAY <= debt
    BY <2>3, <2>4
  <2>7. s \in ReserveData
    BY <1>1, <2>1, <2>4, <2>5 DEF ReserveData
  <2>8. s.liquidityIndex = income /\ s.variableBorrowIndex = debt /\ s.lastUpdateTimestamp = now
    BY <2>1 DEF ReserveData
  <2> HIDE DEF s
  <2>9. RecordInv(s)
    BY <1>1, <2>6, <2>7, <2>8 DEF RecordInv
  <2> QED
    BY <2>2, <2>8, <2>9
<1> QED
  BY <1>2, <1>3

(* New rates leave the rest of the record as it is.                        *)
LEMMA RatedType ==
    ASSUME NEW r, RecordInv(r), now \in Nat, NEW stable \in Nat, NEW average \in Nat
    PROVE  /\ RecordInv(Rated(r, stable, average))
           /\ Rated(r, stable, average).liquidityIndex = r.liquidityIndex
           /\ Rated(r, stable, average).variableBorrowIndex = r.variableBorrowIndex
           /\ Rated(r, stable, average).lastUpdateTimestamp = r.lastUpdateTimestamp
<1> DEFINE variable == rayMul(r.scaledVariableDebt, r.variableBorrowIndex)
           b == Borrowed(r, stable, average)
           rates == calculateInterestRates(b)
<1>1. /\ r.scaledVariableDebt \in Nat /\ r.variableBorrowIndex \in Nat
      /\ r.liquidity \in Nat /\ r.unbacked \in Nat
  BY RecordFacts
<1>2. variable \in Nat
  BY <1>1, RayMulNat
<1> DEFINE available == r.liquidity
           unbacked == r.unbacked
<1>3. b = [available |-> available, unbacked |-> unbacked, stable |-> stable,
           variable |-> variable, averageStableRate |-> average,
           reserveFactor |-> reserveFactor]
  BY DEF Borrowed
<1>4. available \in Nat /\ unbacked \in Nat
  BY <1>1
<1> HIDE DEF b, variable, available, unbacked
<1>5. /\ rates.liquidityRate \in Nat /\ rates.stableRate \in Nat
      /\ rates.variableRate \in Nat
  BY <1>2, <1>3, <1>4, RatesNat
<1>6. Rated(r, stable, average) =
          [r EXCEPT !.currentLiquidityRate = rates.liquidityRate,
                    !.currentStableBorrowRate = rates.stableRate,
                    !.currentVariableBorrowRate = rates.variableRate]
  BY DEF Rated, b
<1> HIDE DEF rates
<1>7. r \in ReserveData
  BY DEF RecordInv
<1>8. Rated(r, stable, average) \in ReserveData
  BY <1>5, <1>6, <1>7 DEF ReserveData
<1>9. /\ Rated(r, stable, average).liquidityIndex = r.liquidityIndex
      /\ Rated(r, stable, average).variableBorrowIndex = r.variableBorrowIndex
      /\ Rated(r, stable, average).lastUpdateTimestamp = r.lastUpdateTimestamp
  BY <1>6, <1>7 DEF ReserveData
<1> QED
  BY <1>8, <1>9 DEF RecordInv

-----------------------------------------------------------------------------
(* Suppliers earn only on what is on the books.                            *)

LEMMA RayMulOfNothing ==
    ASSUME NEW b \in Nat
    PROVE  rayMul(0, b) = 0
<1>1. HALF_RAY \in Nat /\ HALF_RAY < RAY /\ RAY \in Nat \ {0}
  BY ScaleAssumption DEF HALF_RAY
<1>2. 0 * b + HALF_RAY = HALF_RAY /\ 0 * RAY <= HALF_RAY /\ HALF_RAY < 0 * RAY + RAY
  BY <1>1
<1>3. HALF_RAY \div RAY = 0
  BY <1>1, <1>2, DivUnique
<1> QED
  BY <1>2, <1>3 DEF rayMul

LEMMA PercentOfNothing ==
    ASSUME NEW p \in Nat
    PROVE  percentMul(0, p) = 0
<1> DEFINE half == HALF_PERCENTAGE_FACTOR
<1>1. half \in Nat /\ half < PERCENTAGE_FACTOR /\ PERCENTAGE_FACTOR \in Nat \ {0}
  BY ScaleAssumption DEF HALF_PERCENTAGE_FACTOR
<1>2. 0 * p + half = half /\ 0 * PERCENTAGE_FACTOR <= half
      /\ half < 0 * PERCENTAGE_FACTOR + PERCENTAGE_FACTOR
  BY <1>1
<1>3. half \div PERCENTAGE_FACTOR = 0
  BY <1>1, <1>2, DivUnique
<1> QED
  BY <1>2, <1>3 DEF percentMul

(* Without variable debt, and without stable debt or at an average of 0,   *)
(* no income is paid.                                                      *)
LEMMA NothingEarned ==
    ASSUME NEW r, RecordInv(r), now \in Nat, NEW stable \in Nat, NEW average \in Nat,
           r.scaledVariableDebt = 0, stable = 0 \/ average = 0
    PROVE  Rated(r, stable, average).currentLiquidityRate = 0
<1> DEFINE b == Borrowed(r, stable, average)
           rates == calculateInterestRates(b)
           usage == IF b.stable + b.variable = 0 THEN 0
                    ELSE rayDiv(b.stable + b.variable, b.available + (b.stable + b.variable))
           rate == BaseVariableBorrowRate
                     + Climb(VariableRateSlope1, VariableRateSlope2, usage)
           supplied == SupplyUsageRatio(b.stable + b.variable, b.available, b.unbacked)
           overall == OverallBorrowRate(b.stable, b.variable, rate, b.averageStableRate)
           kept == PERCENTAGE_FACTOR - reserveFactor
<1>1. /\ r \in ReserveData /\ r.variableBorrowIndex \in Nat /\ r.liquidity \in Nat
      /\ r.unbacked \in Nat
  BY RecordFacts DEF RecordInv
<1>2. b.variable = 0 /\ b.stable = stable /\ b.averageStableRate = average
      /\ b.available = r.liquidity /\ b.unbacked = r.unbacked
  BY <1>1, RayMulOfNothing DEF Borrowed
<1>3. rates.liquidityRate = percentMul(rayMul(overall, supplied), kept)
  BY <1>2 DEF calculateInterestRates, Borrowed
<1>4. Rated(r, stable, average).currentLiquidityRate = rates.liquidityRate
  BY <1>1 DEF Rated, ReserveData
<1> HIDE DEF rates
<1>5. rate \in Nat /\ supplied \in Nat
  <2> DEFINE available == r.liquidity
             unbackedNow == r.unbacked
  <2>1. available \in Nat /\ unbackedNow \in Nat /\ b.available = available
        /\ b.unbacked = unbackedNow
    BY <1>1, <1>2
  <2> HIDE DEF b, available, unbackedNow
  <2>2. stable # 0 => rayDiv(stable, available + stable) \in 0..RAY
    BY <2>1, RatioAtMostOne
  <2>3. usage \in 0..RAY
    <3>1. usage = (IF stable = 0 THEN 0 ELSE rayDiv(stable, available + stable))
      BY <1>2, <2>1
    <3> QED
      BY <2>2, <3>1, ScaleAssumption
  <2>4. supplied \in Nat
    <3>1. supplied = (IF stable = 0 THEN 0
                      ELSE rayDiv(stable, available + stable + unbackedNow))
      BY <1>2, <2>1 DEF SupplyUsageRatio
    <3>2. stable # 0 => available + stable + unbackedNow \in Nat \ {0}
      BY <2>1
    <3> QED
      BY <3>1, <3>2, RayDivNat
  <2> HIDE DEF usage
  <2>5. Climb(VariableRateSlope1, VariableRateSlope2, usage) \in Nat
    BY <2>3, StrategyNat, ClimbNat
  <2> QED
    BY <2>4, <2>5, StrategyNat
<1> HIDE DEF rate, supplied
<1>6. overall = 0
  <2>1. wadToRay(0) = 0
    BY WadInRays DEF wadToRay
  <2>2. rayMul(wadToRay(0), rate) = 0
    BY <1>5, <2>1, RayMulOfNothing
  <2>3. CASE stable = 0
    BY <1>2, <2>3 DEF OverallBorrowRate
  <2>4. CASE stable # 0
    <3>1. average = 0
      BY <2>4
    <3>2. rayMul(wadToRay(stable), average) = 0
      <4>1. wadToRay(stable) \in Nat
        BY WadToRay
      <4>2. rayMul(wadToRay(stable), 0) = rayMul(0, wadToRay(stable))
        BY <4>1 DEF rayMul
      <4> QED
        BY <3>1, <4>1, <4>2, RayMulOfNothing
    <3>3. wadToRay(stable + 0) \in Nat \ {0}
      BY <2>4, WadToRay
    <3>4. overall = rayDiv(0, wadToRay(stable + 0))
      BY <1>2, <2>2, <2>4, <3>2 DEF OverallBorrowRate
    <3> QED
      BY <3>3, <3>4, RayDivOfNothing
  <2> QED
    BY <2>3, <2>4
<1>7. kept \in Nat
  BY ScaleAssumption, ReserveAssumption
<1> HIDE DEF overall, kept
<1> QED
  BY <1>3, <1>4, <1>5, <1>6, <1>7, RayMulOfNothing, PercentOfNothing

(* After a burn which resets the total, the average is zero too.           *)
OnBooks(t) == t.supply = 0 => t.reported.supply = 0 \/ t.reported.avgStableRate = 0

LEMMA BurnedOnBooks ==
    ASSUME NEW t, TokenInv(t), NEW u \in Users, NEW amount \in 0..StableBalanceOf(t, u)
    PROVE  OnBooks(Burned(t, u, amount))
<1> DEFINE previous == StableTotalSupply(t)
           carried == rayMul(t.avgStableRate, wadToRay(previous))
           paid == RateRepaid(t, u, amount)
           next == IF previous <= amount THEN 0 ELSE previous - amount
           average == IF previous <= amount \/ paid >= carried THEN 0
                      ELSE rayDiv(carried - paid, wadToRay(next))
<1>1. /\ Burned(t, u, amount).supply = SupplyLeft(previous, amount, paid, carried)
      /\ Burned(t, u, amount).reported = [supply |-> next, avgStableRate |-> average]
  BY DEF Burned, TokenInv, Token
<1>2. previous \in Nat /\ amount \in Nat
  BY StableTotalNat, StableBalanceNat
<1> HIDE DEF previous, carried, paid
<1>3. CASE previous <= amount \/ paid >= carried
  BY <1>1, <1>3 DEF OnBooks
<1>4. CASE ~(previous <= amount \/ paid >= carried)
  BY <1>1, <1>2, <1>4 DEF OnBooks, SupplyLeft
<1> QED
  BY <1>3, <1>4

LEMMA MintedOnBooks ==
    ASSUME NEW t, TokenInv(t), NEW u \in Users, NEW amount \in Nat \ {0}, NEW rate
    PROVE  OnBooks(Minted(t, u, amount, rate))
<1>1. Minted(t, u, amount, rate).supply = StableTotalSupply(t) + amount
  BY DEF Minted, TokenInv, Token
<1> QED
  BY <1>1, StableTotalNat DEF OnBooks

(* The rate left behind earns only on what is then on the books.           *)
EarnsOnBooks(r, t) ==
    r.currentLiquidityRate # 0 => t.supply # 0 \/ r.scaledVariableDebt # 0

LEMMA StableTotalOfNothing ==
    ASSUME NEW t, TokenInv(t)
    PROVE  StableTotalSupply(t) = 0 <=> t.supply = 0
<1> DEFINE grown == calculateCompoundedInterest(t.avgStableRate, now - t.supplyTimestamp)
           supply == t.supply
<1>1. supply \in Nat /\ t.avgStableRate \in Nat /\ now - t.supplyTimestamp \in Nat
  BY TokenFacts
<1>2. \E x \in Nat : grown = x + RAY
  BY <1>1, CompoundedInterest
<1>3. grown \in Nat /\ grown >= RAY
  BY <1>2, ScaleAssumption
<1>4. StableTotalSupply(t) = (IF supply = 0 THEN 0 ELSE rayMul(supply, grown))
  BY DEF StableTotalSupply
<1> HIDE DEF grown, supply
<1>5. rayMul(supply, grown) = 0 <=> supply = 0
  BY <1>1, <1>3, RayMulZero
<1>6. StableTotalSupply(t) = 0 <=> supply = 0
  BY <1>4, <1>5
<1> QED
  BY <1>6 DEF supply

LEMMA RatedScaled ==
    ASSUME NEW r, RecordInv(r), NEW stable, NEW average
    PROVE  Rated(r, stable, average).scaledVariableDebt = r.scaledVariableDebt
  BY DEF RecordInv, ReserveData, Rated

(* What a call leaves of the token.                                        *)
Minting(t) ==
    \E u \in Users, amount \in Nat \ {0}, rate \in Nat : t = Minted(token, u, amount, rate)
Burning(t) ==
    \E u \in Users : \E amount \in 0..StableBalanceOf(token, u) : t = Burned(token, u, amount)
Rebalancing(t) ==
    \E u \in Users, rate \in Nat :
        LET debt == StableBalanceOf(token, u)
        IN  debt # 0 /\ t = Minted(Burned(token, u, debt), u, debt, rate)
TokenCall(t) == Minting(t) \/ Burning(t) \/ Rebalancing(t)

LEMMA TokenCallType ==
    ASSUME TokenInv(token), NEW t, TokenCall(t)
    PROVE  TokenInv(t) /\ OnBooks(t)
<1>1. CASE Minting(t)
  BY <1>1, MintedType, MintedOnBooks DEF Minting
<1>2. CASE Burning(t)
  BY <1>2, BurnedType, BurnedOnBooks DEF Burning
<1>3. CASE Rebalancing(t)
  <2>1. PICK u \in Users, rate \in Nat :
            /\ StableBalanceOf(token, u) # 0
            /\ t = Minted(Burned(token, u, StableBalanceOf(token, u)), u,
                          StableBalanceOf(token, u), rate)
    BY <1>3 DEF Rebalancing
  <2> DEFINE debt == StableBalanceOf(token, u)
             burned == Burned(token, u, debt)
  <2>2. debt \in Nat \ {0} /\ debt \in 0..StableBalanceOf(token, u)
    BY <2>1, StableBalanceNat
  <2>3. TokenInv(burned)
    BY <2>2, BurnedType
  <2> HIDE DEF burned, debt
  <2>4. t = Minted(burned, u, debt, rate)
    BY <2>1 DEF burned, debt
  <2> QED
    BY <2>2, <2>3, <2>4, MintedType, MintedOnBooks
<1> QED
  BY <1>1, <1>2, <1>3 DEF TokenCall

LEMMA OtherCallEarns ==
    ASSUME ReserveInv, NEW r, RecordInv(r), OtherCall(r)
    PROVE  EarnsOnBooks(reserve, token)'
<1> DEFINE stable == StableTotalSupply(token)
           average == token.avgStableRate
<1>1. TokenInv(token) /\ now \in Nat
  BY DEF ReserveInv, BooksInv, TokenInv
<1>2. stable \in Nat /\ average \in Nat /\ (stable = 0 <=> token.supply = 0)
  BY <1>1, StableTotalNat, TokenFacts, StableTotalOfNothing
<1>3. token' = token /\ reserve' = Rated(r, stable, average)
  BY DEF OtherCall, Call
<1> HIDE DEF stable, average
<1>4. CASE stable = 0 /\ r.scaledVariableDebt = 0
  BY <1>1, <1>2, <1>3, <1>4, NothingEarned DEF EarnsOnBooks
<1>5. CASE ~(stable = 0 /\ r.scaledVariableDebt = 0)
  <2>1. reserve'.scaledVariableDebt = r.scaledVariableDebt
    BY <1>3, RatedScaled
  <2> QED
    BY <1>2, <1>3, <1>5, <2>1 DEF EarnsOnBooks
<1> QED
  BY <1>4, <1>5

LEMMA StableCallEarns ==
    ASSUME ReserveInv, NEW r, RecordInv(r), NEW t, TokenInv(t), OnBooks(t), StableCall(r, t)
    PROVE  EarnsOnBooks(reserve, token)'
<1> DEFINE stable == t.reported.supply
           average == t.reported.avgStableRate
<1>1. now \in Nat
  BY DEF ReserveInv, BooksInv, TokenInv
<1>2. stable \in Nat /\ average \in Nat
  BY TokenFacts
<1>3. token' = t /\ reserve' = Rated(r, stable, average)
  BY DEF StableCall, Call
<1>4. t.supply = 0 => stable = 0 \/ average = 0
  BY DEF OnBooks
<1> HIDE DEF stable, average
<1>5. CASE t.supply = 0 /\ r.scaledVariableDebt = 0
  BY <1>1, <1>2, <1>3, <1>4, <1>5, NothingEarned DEF EarnsOnBooks
<1>6. CASE ~(t.supply = 0 /\ r.scaledVariableDebt = 0)
  <2>1. reserve'.scaledVariableDebt = r.scaledVariableDebt
    BY <1>3, RatedScaled
  <2> QED
    BY <1>3, <1>6, <2>1 DEF EarnsOnBooks
<1> QED
  BY <1>5, <1>6

-----------------------------------------------------------------------------
(* What is true of every call: the books stay, dated now, and the indices  *)
(* are those the reserve was brought up to.                                *)
CallKept(r) ==
    /\ ReserveInv' /\ now' = now
    /\ token' = token \/ TokenCall(token')
    /\ EarnsOnBooks(reserve, token)'
    /\ reserve'.lastUpdateTimestamp = now
    /\ reserve'.liquidityIndex = r.liquidityIndex
    /\ reserve'.variableBorrowIndex = r.variableBorrowIndex

LEMMA CallKeeps ==
    ASSUME ReserveInv, NEW r, RecordInv(r), r.lastUpdateTimestamp = now,
           NEW t, TokenInv(t), NEW stable \in Nat, NEW average \in Nat,
           Call(t), reserve' = Rated(r, stable, average),
           t = token \/ TokenCall(t), EarnsOnBooks(reserve, token)'
    PROVE  CallKept(r)
<1> DEFINE s == Rated(r, stable, average)
<1>1. now \in Nat /\ calls \in 0..MaxCalls /\ MaxCalls \in Nat
  BY TokenAssumption DEF TokenInv, ReserveInv
<1>2. /\ RecordInv(s) /\ s.lastUpdateTimestamp = now
      /\ s.liquidityIndex = r.liquidityIndex
      /\ s.variableBorrowIndex = r.variableBorrowIndex
  BY <1>1, RatedType
<1>3. /\ now' = now /\ token' = t /\ reserve' = s /\ calls' = calls + 1 /\ calls < MaxCalls
  BY DEF Call
<1> HIDE DEF s
<1>4. RecordInv(reserve)' /\ TokenInv(token)'
  BY <1>2, <1>3 DEF RecordInv, TokenInv
<1>5. (token.supplyTimestamp <= reserve.lastUpdateTimestamp)'
  BY <1>2, <1>3 DEF TokenInv
<1>6. calls' \in 0..MaxCalls
  BY <1>1, <1>3
<1>7. ReserveInv'
  BY <1>4, <1>5, <1>6 DEF ReserveInv, BooksInv
<1> QED
  BY <1>2, <1>3, <1>7 DEF CallKept

LEMMA OtherCallKeeps ==
    ASSUME ReserveInv, NEW r, RecordInv(r), r.lastUpdateTimestamp = now, OtherCall(r)
    PROVE  CallKept(r)
<1>1. TokenInv(token)
  BY DEF ReserveInv, BooksInv
<1> DEFINE stable == StableTotalSupply(token)
           average == token.avgStableRate
<1>2. stable \in Nat /\ average \in Nat
  BY <1>1, StableTotalNat, TokenFacts
<1>3. Call(token) /\ reserve' = Rated(r, stable, average)
  BY DEF OtherCall
<1>4. EarnsOnBooks(reserve, token)'
  BY OtherCallEarns
<1> HIDE DEF stable, average
<1> QED
  BY <1>1, <1>2, <1>3, <1>4, CallKeeps

LEMMA StableCallKeeps ==
    ASSUME ReserveInv, NEW r, RecordInv(r), r.lastUpdateTimestamp = now,
           NEW t, TokenCall(t), StableCall(r, t)
    PROVE  CallKept(r)
<1> DEFINE stable == t.reported.supply
           average == t.reported.avgStableRate
<1>1. TokenInv(t) /\ OnBooks(t)
  BY TokenCallType DEF ReserveInv, BooksInv
<1>2. EarnsOnBooks(reserve, token)'
  BY <1>1, StableCallEarns
<1>3. stable \in Nat /\ average \in Nat
  BY <1>1, TokenFacts
<1>4. Call(t) /\ reserve' = Rated(r, stable, average)
  BY DEF StableCall
<1> HIDE DEF stable, average
<1> QED
  BY <1>1, <1>2, <1>3, <1>4, CallKeeps

(* A call moves what the aToken holds, what it backs and the scaled        *)
(* totals, and nothing else of the record.                                 *)
BalancesMoved(r, s) ==
    /\ s \in ReserveData
    /\ s.liquidityIndex = r.liquidityIndex
    /\ s.variableBorrowIndex = r.variableBorrowIndex
    /\ s.lastUpdateTimestamp = r.lastUpdateTimestamp

LEMMA MovedRecord ==
    ASSUME NEW r, RecordInv(r), NEW liquidity \in Nat, NEW unbacked \in Nat,
           NEW supply \in Nat, NEW debt \in Nat
    PROVE  /\ BalancesMoved(r, [r EXCEPT !.liquidity = liquidity])
           /\ BalancesMoved(r, [r EXCEPT !.scaledVariableDebt = debt])
           /\ BalancesMoved(r, [r EXCEPT !.liquidity = liquidity, !.scaledSupply = supply])
           /\ BalancesMoved(r, [r EXCEPT !.liquidity = liquidity, !.scaledVariableDebt = debt])
           /\ BalancesMoved(r, [r EXCEPT !.unbacked = unbacked, !.scaledSupply = supply])
  BY DEF RecordInv, BalancesMoved, ReserveData

LEMMA MovedType ==
    ASSUME NEW r, RecordInv(r), NEW s, BalancesMoved(r, s)
    PROVE  RecordInv(s)
  BY DEF RecordInv, BalancesMoved

(* What every action starts from.                                          *)
LEMMA Present ==
    ASSUME ReserveInv
    PROVE  /\ RecordInv(UpToDateReserve) /\ UpToDateReserve.lastUpdateTimestamp = now
           /\ TokenInv(token) /\ now \in Nat
  BY UpdatedType DEF ReserveInv, BooksInv, UpToDateReserve, TokenInv

LEMMA OtherCallFrom ==
    ASSUME ReserveInv, NEW s, BalancesMoved(UpToDateReserve, s), OtherCall(s)
    PROVE  CallKept(UpToDateReserve)
<1>1. RecordInv(s) /\ s.lastUpdateTimestamp = now
  BY Present, MovedType DEF BalancesMoved
<1>2. CallKept(s)
  BY <1>1, OtherCallKeeps
<1> QED
  BY <1>2 DEF CallKept, BalancesMoved

LEMMA StableCallFrom ==
    ASSUME ReserveInv, NEW s, BalancesMoved(UpToDateReserve, s),
           NEW t, TokenCall(t), StableCall(s, t)
    PROVE  CallKept(UpToDateReserve)
<1>1. RecordInv(s) /\ s.lastUpdateTimestamp = now
  BY Present, MovedType DEF BalancesMoved
<1>2. CallKept(s)
  BY <1>1, StableCallKeeps
<1> QED
  BY <1>2 DEF CallKept, BalancesMoved

-----------------------------------------------------------------------------
(* The pool's calls, one lemma each.                                       *)

LEMMA PresentFacts ==
    ASSUME ReserveInv
    PROVE  /\ UpToDateReserve.liquidityIndex \in Nat \ {0}
           /\ UpToDateReserve.variableBorrowIndex \in Nat \ {0}
           /\ UpToDateReserve.currentStableBorrowRate \in Nat
           /\ UpToDateReserve.liquidity \in Nat /\ UpToDateReserve.unbacked \in Nat
           /\ UpToDateReserve.scaledSupply \in Nat
           /\ UpToDateReserve.scaledVariableDebt \in Nat
  BY Present, RecordFacts

LEMMA SupplyKeeps ==
    ASSUME ReserveInv, NEW amount \in Nat, Supply(amount)
    PROVE  CallKept(UpToDateReserve)
<1> DEFINE r == UpToDateReserve
           liquidity == r.liquidity + amount
           scaled == rayDiv(amount, r.liquidityIndex)
           supply == r.scaledSupply + scaled
           s == [r EXCEPT !.liquidity = liquidity, !.scaledSupply = supply]
<1>1. scaled \in Nat
  BY PresentFacts, RayDivNat
<1>2. OtherCall(s)
  BY DEF Supply
<1> HIDE DEF scaled
<1>3. liquidity \in Nat /\ supply \in Nat
  BY <1>1, PresentFacts
<1> HIDE DEF liquidity, supply
<1>4. BalancesMoved(r, s)
  BY <1>3, Present, MovedRecord
<1> HIDE DEF s
<1> QED
  BY <1>2, <1>4, OtherCallFrom

LEMMA WithdrawKeeps ==
    ASSUME ReserveInv, NEW amount \in Nat, Withdraw(amount)
    PROVE  CallKept(UpToDateReserve)
<1> DEFINE r == UpToDateReserve
           liquidity == r.liquidity - amount
           scaled == rayDiv(amount, r.liquidityIndex)
           supply == r.scaledSupply - scaled
           s == [r EXCEPT !.liquidity = liquidity, !.scaledSupply = supply]
<1>1. scaled \in 1..r.scaledSupply /\ amount <= r.liquidity
  BY DEF Withdraw
<1>2. OtherCall(s)
  BY DEF Withdraw
<1> HIDE DEF scaled
<1>3. liquidity \in Nat /\ supply \in Nat
  BY <1>1, PresentFacts
<1> HIDE DEF liquidity, supply
<1>4. BalancesMoved(r, s)
  BY <1>3, Present, MovedRecord
<1> HIDE DEF s
<1> QED
  BY <1>2, <1>4, OtherCallFrom

LEMMA BorrowVariableKeeps ==
    ASSUME ReserveInv, NEW amount \in Nat, BorrowVariable(amount)
    PROVE  CallKept(UpToDateReserve)
<1> DEFINE r == UpToDateReserve
           liquidity == r.liquidity - amount
           debt == r.scaledVariableDebt + rayDiv(amount, r.variableBorrowIndex)
           s == [r EXCEPT !.liquidity = liquidity, !.scaledVariableDebt = debt]
<1>1. amount <= r.liquidity
  BY DEF BorrowVariable
<1>2. OtherCall(s)
  BY DEF BorrowVariable
<1>3. liquidity \in Nat /\ debt \in Nat
  BY <1>1, PresentFacts, RayDivNat
<1> HIDE DEF liquidity, debt
<1>4. BalancesMoved(r, s)
  BY <1>3, Present, MovedRecord
<1> HIDE DEF s
<1> QED
  BY <1>2, <1>4, OtherCallFrom

LEMMA RepayVariableKeeps ==
    ASSUME ReserveInv, NEW amount \in Nat, RepayVariable(amount)
    PROVE  CallKept(UpToDateReserve)
<1> DEFINE r == UpToDateReserve
           liquidity == r.liquidity + amount
           scaled == rayDiv(amount, r.variableBorrowIndex)
           debt == r.scaledVariableDebt - scaled
           s == [r EXCEPT !.liquidity = liquidity, !.scaledVariableDebt = debt]
<1>1. scaled \in 1..r.scaledVariableDebt
  BY DEF RepayVariable
<1>2. OtherCall(s)
  BY DEF RepayVariable
<1> HIDE DEF scaled
<1>3. liquidity \in Nat /\ debt \in Nat
  BY <1>1, PresentFacts
<1> HIDE DEF liquidity, debt
<1>4. BalancesMoved(r, s)
  BY <1>3, Present, MovedRecord
<1> HIDE DEF s
<1> QED
  BY <1>2, <1>4, OtherCallFrom

LEMMA MintUnbackedKeeps ==
    ASSUME ReserveInv, NEW amount \in Nat, MintUnbacked(amount)
    PROVE  CallKept(UpToDateReserve)
<1> DEFINE r == UpToDateReserve
           unbacked == r.unbacked + amount
           scaled == rayDiv(amount, r.liquidityIndex)
           supply == r.scaledSupply + scaled
           s == [r EXCEPT !.unbacked = unbacked, !.scaledSupply = supply]
<1>1. scaled \in Nat
  BY PresentFacts, RayDivNat
<1>2. OtherCall(s)
  BY DEF MintUnbacked
<1> HIDE DEF scaled
<1>3. unbacked \in Nat /\ supply \in Nat
  BY <1>1, PresentFacts
<1> HIDE DEF unbacked, supply
<1>4. BalancesMoved(r, s)
  BY <1>3, Present, MovedRecord
<1> HIDE DEF s
<1> QED
  BY <1>2, <1>4, OtherCallFrom

LEMMA BorrowStableKeeps ==
    ASSUME ReserveInv, NEW u \in Users, NEW amount \in Nat \ {0}, BorrowStable(u, amount)
    PROVE  CallKept(UpToDateReserve)
<1> DEFINE r == UpToDateReserve
           liquidity == r.liquidity - amount
           rate == r.currentStableBorrowRate
           s == [r EXCEPT !.liquidity = liquidity]
           t == Minted(token, u, amount, rate)
<1>1. amount <= r.liquidity /\ StableCall(s, t)
  BY DEF BorrowStable
<1>2. liquidity \in Nat /\ rate \in Nat
  BY <1>1, PresentFacts
<1> HIDE DEF liquidity, rate
<1>3. BalancesMoved(r, s) /\ TokenCall(t)
  BY <1>2, Present, MovedRecord DEF TokenCall, Minting
<1> HIDE DEF s, t
<1> QED
  BY <1>1, <1>3, StableCallFrom

LEMMA RepayStableKeeps ==
    ASSUME ReserveInv, NEW u \in Users, NEW amount \in Nat, RepayStable(u, amount)
    PROVE  CallKept(UpToDateReserve)
<1> DEFINE r == UpToDateReserve
           liquidity == r.liquidity + amount
           s == [r EXCEPT !.liquidity = liquidity]
           t == Burned(token, u, amount)
<1>1. amount \in 1..StableBalanceOf(token, u) /\ StableCall(s, t)
  BY DEF RepayStable
<1>2. liquidity \in Nat
  BY PresentFacts
<1>3. amount \in 0..StableBalanceOf(token, u)
  BY <1>1, Present, StableBalanceNat
<1> HIDE DEF liquidity
<1>4. BalancesMoved(r, s) /\ TokenCall(t)
  BY <1>2, <1>3, Present, MovedRecord DEF TokenCall, Burning
<1> HIDE DEF s, t
<1> QED
  BY <1>1, <1>4, StableCallFrom

LEMMA SwapToVariableKeeps ==
    ASSUME ReserveInv, NEW u \in Users, SwapToVariable(u)
    PROVE  CallKept(UpToDateReserve)
<1> DEFINE r == UpToDateReserve
           owed == StableBalanceOf(token, u)
           debt == r.scaledVariableDebt + rayDiv(owed, r.variableBorrowIndex)
           s == [r EXCEPT !.scaledVariableDebt = debt]
           t == Burned(token, u, owed)
<1>1. StableCall(s, t)
  BY DEF SwapToVariable
<1>2. owed \in Nat /\ owed \in 0..StableBalanceOf(token, u)
  BY Present, StableBalanceNat
<1> HIDE DEF owed
<1>3. debt \in Nat
  BY <1>2, PresentFacts, RayDivNat
<1> HIDE DEF debt
<1>4. BalancesMoved(r, s) /\ TokenCall(t)
  BY <1>2, <1>3, Present, MovedRecord, PresentFacts DEF TokenCall, Burning
<1> HIDE DEF s, t
<1> QED
  BY <1>1, <1>4, StableCallFrom

(* Nothing scaled is nothing: a debt whose scaled amount is burned is one. *)
LEMMA ScaledZero ==
    ASSUME NEW index \in Nat \ {0}
    PROVE  rayDiv(0, index) = 0
<1> DEFINE half == index \div 2
<1>1. half \in Nat /\ 0 * index <= half /\ half < 0 * index + index
  OBVIOUS
<1>2. 0 * RAY = 0 /\ 0 \in Nat
  BY ScaleAssumption
<1>3. half \div index = 0
  BY <1>1, <1>2, DivUnique
<1> QED
  BY <1>1, <1>2, <1>3 DEF rayDiv

LEMMA SwapToStableKeeps ==
    ASSUME ReserveInv, NEW u \in Users, NEW owed \in Nat, SwapToStable(u, owed)
    PROVE  CallKept(UpToDateReserve)
<1> DEFINE r == UpToDateReserve
           scaled == rayDiv(owed, r.variableBorrowIndex)
           debt == r.scaledVariableDebt - scaled
           rate == r.currentStableBorrowRate
           s == [r EXCEPT !.scaledVariableDebt = debt]
           t == Minted(token, u, owed, rate)
<1>1. scaled \in 1..r.scaledVariableDebt /\ StableCall(s, t)
  BY DEF SwapToStable
<1>2. owed # 0
  BY <1>1, PresentFacts, ScaledZero
<1> HIDE DEF scaled
<1>3. debt \in Nat /\ rate \in Nat
  BY <1>1, PresentFacts
<1> HIDE DEF debt, rate
<1>4. BalancesMoved(r, s) /\ TokenCall(t)
  BY <1>2, <1>3, Present, MovedRecord, PresentFacts DEF TokenCall, Minting
<1> HIDE DEF s, t
<1> QED
  BY <1>1, <1>4, StableCallFrom

LEMMA RebalanceKeeps ==
    ASSUME ReserveInv, NEW u \in Users, RebalanceStableBorrowRate(u)
    PROVE  CallKept(UpToDateReserve)
<1> DEFINE r == UpToDateReserve
           owed == StableBalanceOf(token, u)
           rate == r.currentStableBorrowRate
           t == Minted(Burned(token, u, owed), u, owed, rate)
<1>1. owed # 0 /\ StableCall(r, t)
  BY DEF RebalanceStableBorrowRate
<1>2. rate \in Nat
  BY PresentFacts
<1> HIDE DEF rate
<1>3. TokenCall(t)
  BY <1>1, <1>2 DEF TokenCall, Rebalancing
<1>4. BalancesMoved(r, r)
  BY Present DEF RecordInv, BalancesMoved
<1> HIDE DEF t
<1> QED
  BY <1>1, <1>3, <1>4, StableCallFrom

-----------------------------------------------------------------------------
(* The theorems.                                                           *)

LEMMA InitialReserve == ReserveInit => ReserveInv
<1> SUFFICES ASSUME ReserveInit PROVE ReserveInv
  OBVIOUS
<1>1. TokenInv(token) /\ calls \in 0..MaxCalls /\ token.supplyTimestamp = 0
  BY TokenAssumption DEF ReserveInit, TokenInit, EmptyToken, TokenInv, Token
<1>2. RecordInv(reserve) /\ reserve.lastUpdateTimestamp = 0
  BY ScaleAssumption DEF ReserveInit, TokenInit, RecordInv, ReserveData
<1> QED
  BY <1>1, <1>2 DEF ReserveInv, BooksInv

(* A step is a call, or time passing.                                      *)
LEMMA ReserveSteps ==
    ASSUME ReserveInv, ReserveNext
    PROVE  CallKept(UpToDateReserve) \/ (Tick /\ UNCHANGED reserve)
<1>1. /\ Amounts \subseteq Nat \ {0}
      /\ \A u \in Users : StableBalanceOf(token, u) \in Nat
  BY TokenAssumption, Present, StableBalanceNat
<1>2. VariableRepayments(UpToDateReserve) \subseteq Nat
  <2>1. rayMul(UpToDateReserve.scaledVariableDebt,
               UpToDateReserve.variableBorrowIndex) \in Nat
    BY PresentFacts, RayMulNat
  <2> QED
    BY <1>1, <2>1 DEF VariableRepayments
<1>3. ASSUME NEW x \in Amounts,
             Supply(x) \/ Withdraw(x) \/ BorrowVariable(x) \/ MintUnbacked(x)
      PROVE  CallKept(UpToDateReserve)
  BY <1>1, <1>3, SupplyKeeps, WithdrawKeeps, BorrowVariableKeeps, MintUnbackedKeeps
<1>4. ASSUME NEW x \in VariableRepayments(UpToDateReserve), RepayVariable(x)
      PROVE  CallKept(UpToDateReserve)
  BY <1>2, <1>4, RepayVariableKeeps
<1>5. ASSUME NEW u \in Users, NEW x \in Amounts, BorrowStable(u, x)
      PROVE  CallKept(UpToDateReserve)
  BY <1>1, <1>5, BorrowStableKeeps
<1>6. ASSUME NEW u \in Users, NEW x \in Amounts \cup {StableBalanceOf(token, u)},
             RepayStable(u, x)
      PROVE  CallKept(UpToDateReserve)
  BY <1>1, <1>6, RepayStableKeeps
<1>7. ASSUME NEW u \in Users, SwapToVariable(u)
      PROVE  CallKept(UpToDateReserve)
  BY <1>7, SwapToVariableKeeps
<1>8. ASSUME NEW u \in Users, NEW debt \in VariableRepayments(UpToDateReserve),
             SwapToStable(u, debt)
      PROVE  CallKept(UpToDateReserve)
  BY <1>2, <1>8, SwapToStableKeeps
<1>9. ASSUME NEW u \in Users, RebalanceStableBorrowRate(u)
      PROVE  CallKept(UpToDateReserve)
  BY <1>9, RebalanceKeeps
<1> QED
  BY <1>3, <1>4, <1>5, <1>6, <1>7, <1>8, <1>9 DEF ReserveNext

LEMMA TimeKeeps ==
    ASSUME ReserveInv, Tick /\ UNCHANGED reserve
    PROVE  ReserveInv' /\ now' = now + 1 /\ token' = token /\ reserve' = reserve
<1>1. now' = now + 1 /\ token' = token /\ reserve' = reserve /\ calls' = calls /\ now \in Nat
  BY Present DEF Tick
<1>2. TokenInv(token)'
  <2>1. /\ token \in Token /\ token.supplyTimestamp <= now /\ token.supplyTimestamp \in Nat
        /\ \A u \in Users : token.userTimestamp[u] <= now /\ token.userTimestamp[u] \in Nat
    BY DEF ReserveInv, BooksInv, TokenInv, Token
  <2> QED
    BY <1>1, <2>1 DEF TokenInv
<1>3. RecordInv(reserve)'
  <2>1. /\ reserve \in ReserveData /\ reserve.lastUpdateTimestamp <= now
        /\ reserve.lastUpdateTimestamp \in Nat
        /\ RAY <= reserve.liquidityIndex /\ RAY <= reserve.variableBorrowIndex
    BY DEF ReserveInv, BooksInv, RecordInv, ReserveData
  <2> QED
    BY <1>1, <2>1 DEF RecordInv
<1>4. ReserveInv'
  BY <1>1, <1>2, <1>3 DEF ReserveInv, BooksInv
<1> QED
  BY <1>1, <1>4

LEMMA ReserveInductive == ReserveInv /\ [ReserveNext]_reserveVars => ReserveInv'
<1> SUFFICES ASSUME ReserveInv, [ReserveNext]_reserveVars PROVE ReserveInv'
  OBVIOUS
<1>1. CASE ReserveNext
  BY <1>1, ReserveSteps, TimeKeeps DEF CallKept
<1>2. CASE UNCHANGED reserveVars
  BY <1>2 DEF reserveVars, tokenVars, ReserveInv, BooksInv, RecordInv, TokenInv
<1> QED
  BY <1>1, <1>2

(* No subtraction of a reserve's books goes below zero and no division by  *)
(* an index is undefined, whatever the strategy, the reserve factor, the   *)
(* rates and the calls: neither the treasury's share of the interest       *)
(* (ReserveLogic._accrueToTreasury) nor what is left of a debt, of the     *)
(* total or of the average when one is repaid (StableDebtToken.burn).      *)
THEOREM ReserveTypeCorrect == ReserveSpec => []ReserveTypeOK
<1>1. ReserveInv => ReserveTypeOK
  <2> SUFFICES ASSUME ReserveInv PROVE ReserveTypeOK
    OBVIOUS
  <2>1. TokenTypeOK
    BY DEF ReserveInv, BooksInv, TokenInv, TokenTypeOK
  <2>2. reserve \in ReserveData /\ UpToDateReserve \in ReserveData
    BY Present DEF ReserveInv, BooksInv, RecordInv
  <2> QED
    BY <2>1, <2>2 DEF ReserveTypeOK
<1> QED
  BY <1>1, InitialReserve, ReserveInductive, PTL DEF ReserveSpec

(* Time alone moves a reserve's normalised indices, and only up.           *)
IncomeIndex == UpToDateReserve.liquidityIndex
VariableIndex == UpToDateReserve.variableBorrowIndex

Seen ==
    /\ IncomeIndex = IF reserve.lastUpdateTimestamp = now THEN reserve.liquidityIndex
                     ELSE NextLiquidityIndex(reserve)
    /\ VariableIndex = IF reserve.lastUpdateTimestamp = now THEN reserve.variableBorrowIndex
                       ELSE NextVariableBorrowIndex(reserve)

LEMMA SeenAtPresent == ReserveInv => Seen
<1> SUFFICES ASSUME ReserveInv PROVE Seen
  OBVIOUS
<1>1. reserve \in ReserveData
  BY DEF ReserveInv, BooksInv, RecordInv
<1> QED
  BY <1>1 DEF Seen, IncomeIndex, VariableIndex, UpToDateReserve, UpToDate, ReserveData

LEMMA SeenNext == ReserveInv' => Seen'
  BY SeenAtPresent, PTL

(* A unit of time later neither index is lower.                            *)
LEMMA TimeRaises ==
    ASSUME ReserveInv, Tick /\ UNCHANGED reserve
    PROVE  IncomeIndex <= IncomeIndex' /\ VariableIndex <= VariableIndex'
<1> DEFINE r == reserve
           m == Elapsed(r)
           n == m + 1
           l == calculateLinearInterest(r.currentLiquidityRate, m)
           lNext == calculateLinearInterest(r.currentLiquidityRate, n)
           c == calculateCompoundedInterest(r.currentVariableBorrowRate, m)
           cNext == calculateCompoundedInterest(r.currentVariableBorrowRate, n)
<1>1. /\ RecordInv(r) /\ now \in Nat
      /\ r.liquidityIndex \in Nat /\ r.variableBorrowIndex \in Nat
      /\ r.currentLiquidityRate \in Nat /\ r.currentVariableBorrowRate \in Nat
      /\ r.lastUpdateTimestamp \in Nat /\ r.lastUpdateTimestamp <= now /\ m \in Nat
  BY Present, RecordFacts DEF ReserveInv, BooksInv
<1>2. ReserveInv' /\ now' = now + 1 /\ reserve' = reserve
  BY TimeKeeps
<1>3. Elapsed(reserve)' = n
  BY <1>1, <1>2 DEF Elapsed
<1>4. m <= n /\ n \in Nat
  BY <1>1
<1> HIDE DEF m, n
<1>5. l <= lNext /\ c <= cNext
  BY <1>1, <1>4, LinearInterestMonotone, CompoundedMonotone
<1>6. /\ \E x \in Nat : l = x + RAY
      /\ \E x \in Nat : lNext = x + RAY
      /\ \E x \in Nat : c = x + RAY
      /\ \E x \in Nat : cNext = x + RAY
  BY <1>1, <1>4, LinearInterest, CompoundedInterest
<1> HIDE DEF l, lNext, c, cNext
<1>7. l \in Nat /\ lNext \in Nat /\ c \in Nat /\ cNext \in Nat
  BY <1>6, ScaleAssumption
<1>8. /\ getNormalizedIncome(r) = rayMul(l, r.liquidityIndex)
      /\ getNormalizedDebt(r) = rayMul(c, r.variableBorrowIndex)
  BY DEF getNormalizedIncome, getNormalizedDebt, l, c, m
<1>9. /\ getNormalizedIncome(reserve)' = rayMul(lNext, r.liquidityIndex)
      /\ getNormalizedDebt(reserve)' = rayMul(cNext, r.variableBorrowIndex)
  BY <1>2, <1>3 DEF getNormalizedIncome, getNormalizedDebt, lNext, cNext
<1>10. /\ IncomeIndex' = (IF r.currentLiquidityRate = 0 THEN r.liquidityIndex
                     ELSE rayMul(lNext, r.liquidityIndex))
       /\ VariableIndex' = (IF r.scaledVariableDebt = 0 THEN r.variableBorrowIndex
                        ELSE rayMul(cNext, r.variableBorrowIndex))
  <2>1. ReserveInv' /\ (reserve.lastUpdateTimestamp # now)'
    BY <1>1, <1>2
  <2>2. /\ IncomeIndex' = NextLiquidityIndex(reserve)'
        /\ VariableIndex' = NextVariableBorrowIndex(reserve)'
    BY <2>1, SeenNext DEF Seen
  <2> QED
    BY <1>2, <1>9, <2>2 DEF NextLiquidityIndex, NextVariableBorrowIndex
<1>11. /\ r.liquidityIndex <= rayMul(lNext, r.liquidityIndex)
       /\ rayMul(l, r.liquidityIndex) <= rayMul(lNext, r.liquidityIndex)
       /\ r.variableBorrowIndex <= rayMul(cNext, r.variableBorrowIndex)
       /\ rayMul(c, r.variableBorrowIndex) <= rayMul(cNext, r.variableBorrowIndex)
  <2> DEFINE i == r.liquidityIndex
             j == r.variableBorrowIndex
  <2>1. i \in Nat /\ j \in Nat
    BY <1>1
  <2> HIDE DEF i, j
  <2>2. i <= rayMul(lNext, i) /\ j <= rayMul(cNext, j)
    BY <1>6, <2>1, RayMulGrows
  <2>3. rayMul(i, l) <= rayMul(i, lNext) /\ rayMul(j, c) <= rayMul(j, cNext)
    BY <1>5, <1>7, <2>1, RayMulMonotone
  <2>4. /\ rayMul(i, l) = rayMul(l, i) /\ rayMul(i, lNext) = rayMul(lNext, i)
        /\ rayMul(j, c) = rayMul(c, j) /\ rayMul(j, cNext) = rayMul(cNext, j)
    BY <1>7, <2>1 DEF rayMul
  <2> QED
    BY <2>2, <2>3, <2>4 DEF i, j
<1>12. /\ IncomeIndex = r.liquidityIndex
          \/ IncomeIndex = (IF r.currentLiquidityRate = 0 THEN r.liquidityIndex
                       ELSE rayMul(l, r.liquidityIndex))
       /\ VariableIndex = r.variableBorrowIndex
          \/ VariableIndex = (IF r.scaledVariableDebt = 0 THEN r.variableBorrowIndex
                          ELSE rayMul(c, r.variableBorrowIndex))
  BY <1>8, SeenAtPresent DEF Seen, NextLiquidityIndex, NextVariableBorrowIndex
<1> QED
  BY <1>1, <1>10, <1>11, <1>12

(* A call finds the indices where the block has them, and leaves them.     *)
LEMMA CallsLeaveIndices ==
    ASSUME ReserveInv, CallKept(UpToDateReserve)
    PROVE  now' = now /\ IncomeIndex' = IncomeIndex /\ VariableIndex' = VariableIndex
<1>1. /\ ReserveInv' /\ now' = now
      /\ (reserve.lastUpdateTimestamp = now)'
      /\ reserve'.liquidityIndex = IncomeIndex /\ reserve'.variableBorrowIndex = VariableIndex
  BY DEF CallKept, IncomeIndex, VariableIndex
<1>2. /\ IncomeIndex' = reserve'.liquidityIndex
      /\ VariableIndex' = reserve'.variableBorrowIndex
  BY <1>1, SeenNext DEF Seen
<1> QED
  BY <1>1, <1>2

(* Seen at the present block, a reserve's indices never fall, and no call  *)
(* moves either: neither when it stores them (ReserveLogic.updateState),   *)
(* nor by the rates it leaves behind (updateInterestRates).                *)
IndicesOnlyAccrue ==
    [][/\ IncomeIndex <= IncomeIndex' /\ VariableIndex <= VariableIndex'
       /\ now' = now => IncomeIndex' = IncomeIndex /\ VariableIndex' = VariableIndex]_reserveVars

THEOREM IndicesOnlyEverAccrue == ReserveSpec => IndicesOnlyAccrue
<1>1. ASSUME ReserveInv, ReserveNext
      PROVE  /\ IncomeIndex <= IncomeIndex' /\ VariableIndex <= VariableIndex'
             /\ now' = now => IncomeIndex' = IncomeIndex /\ VariableIndex' = VariableIndex
  <2>1. CASE CallKept(UpToDateReserve)
    <3>1. IncomeIndex \in Nat /\ VariableIndex \in Nat
      BY <1>1, PresentFacts DEF IncomeIndex, VariableIndex
    <3> QED
      BY <1>1, <2>1, <3>1, CallsLeaveIndices
  <2>2. CASE Tick /\ UNCHANGED reserve
    <3>1. now' # now
      BY <1>1, <2>2, TimeKeeps, Present
    <3> QED
      BY <1>1, <2>2, <3>1, TimeRaises
  <2> QED
    BY <1>1, <2>1, <2>2, ReserveSteps
<1>2. ReserveInv /\ [ReserveNext]_reserveVars
      => [/\ IncomeIndex <= IncomeIndex' /\ VariableIndex <= VariableIndex'
          /\ now' = now => IncomeIndex' = IncomeIndex /\ VariableIndex' = VariableIndex]_reserveVars
  BY <1>1
<1> QED
  BY <1>2, InitialReserve, ReserveInductive, PTL DEF ReserveSpec, IndicesOnlyAccrue

(* What Pool assumes when it lets the indices of a reserve grow.           *)
Earning == EarnsOnBooks(reserve, token)

LEMMA EarningInductive ==
    /\ ReserveInit => Earning
    /\ ReserveInv /\ Earning /\ [ReserveNext]_reserveVars => Earning'
<1>1. ReserveInit => Earning
  BY DEF ReserveInit, Earning, EarnsOnBooks
<1>2. ASSUME ReserveInv, Earning, ReserveNext PROVE Earning'
  <2>1. CASE CallKept(UpToDateReserve)
    BY <2>1 DEF CallKept, Earning
  <2>2. CASE Tick /\ UNCHANGED reserve
    BY <1>2, <2>2 DEF Tick, Earning, EarnsOnBooks
  <2> QED
    BY <1>2, <2>1, <2>2, ReserveSteps
<1>3. ASSUME Earning, UNCHANGED reserveVars PROVE Earning'
  BY <1>3 DEF reserveVars, tokenVars, Earning, EarnsOnBooks
<1> QED
  BY <1>1, <1>2, <1>3

(* What is seen of a reserve in any state, hence also after a step.        *)
Standing ==
    /\ IncomeIndex \in Nat /\ VariableIndex \in Nat
    /\ reserve.currentLiquidityRate = 0 => IncomeIndex = reserve.liquidityIndex
    /\ reserve.scaledVariableDebt = 0 => VariableIndex = reserve.variableBorrowIndex
    /\ StableTotalSupply(token) = 0 <=> token.supply = 0

LEMMA StandingHolds == ReserveInv => Standing
<1> SUFFICES ASSUME ReserveInv PROVE Standing
  OBVIOUS
<1>1. IncomeIndex \in Nat /\ VariableIndex \in Nat
  BY PresentFacts DEF IncomeIndex, VariableIndex
<1>2. StableTotalSupply(token) = 0 <=> token.supply = 0
  BY Present, StableTotalOfNothing
<1> QED
  BY <1>1, <1>2, SeenAtPresent
     DEF Standing, Seen, NextLiquidityIndex, NextVariableBorrowIndex

LEMMA StandingNext == ReserveInv' => Standing'
  BY StandingHolds, PTL

LEMMA AccruesFromOne == ReserveInit => Accrued!AccruedInit
<1> SUFFICES ASSUME ReserveInit PROVE Accrued!AccruedInit
  OBVIOUS
<1>1. IncomeIndex = RAY /\ VariableIndex = RAY
  BY InitialReserve, StandingHolds DEF ReserveInit, Standing
<1>2. StableTotalSupply(token) = 0
  BY DEF ReserveInit, TokenInit, EmptyToken, StableTotalSupply
<1>3. reserve.scaledVariableDebt = 0
  BY DEF ReserveInit
<1> QED
  BY <1>1, <1>2, <1>3 DEF Accrued!AccruedInit, IncomeIndex, VariableIndex

LEMMA TimeAccrues ==
    ASSUME ReserveInv, Standing, Standing', Earning, Tick /\ UNCHANGED reserve
    PROVE  Accrued!TimePasses
<1>1. now' = now + 1 /\ now \in Nat /\ token' = token /\ reserve' = reserve
  BY TimeKeeps, Present
<1>2. IncomeIndex <= IncomeIndex' /\ VariableIndex <= VariableIndex'
  BY TimeRaises
<1>3. IncomeIndex \in Nat /\ IncomeIndex' \in Nat /\ VariableIndex \in Nat /\ VariableIndex' \in Nat
  BY DEF Standing
<1>4. (StableTotalSupply(token) # 0)' <=> StableTotalSupply(token) # 0
  BY <1>1 DEF Standing
<1>5. IncomeIndex' > IncomeIndex => StableTotalSupply(token) # 0 \/ reserve.scaledVariableDebt # 0
  BY <1>1, <1>3 DEF Standing, Earning, EarnsOnBooks
<1>6. VariableIndex' > VariableIndex => reserve.scaledVariableDebt # 0
  BY <1>1, <1>3 DEF Standing
<1> QED
  BY <1>1, <1>2, <1>3, <1>4, <1>5, <1>6 DEF Accrued!TimePasses, IncomeIndex, VariableIndex

(* A reserve, with its clock, rates and lazily stored indices, is one of   *)
(* those the pool relies on (AccruedIndices): its normalised indices never *)
(* fall, suppliers earn only while one of the debt tokens has a supply,    *)
(* the borrow index moves only under a variable debt, and no call moves    *)
(* either (ReserveLogic.updateState, updateInterestRates).                 *)
THEOREM ReserveAccrues == ReserveSpec => IndicesAccrue
<1>1. ASSUME ReserveInv, ReserveInv', Earning, [ReserveNext]_reserveVars
      PROVE  [Accrued!TimePasses \/ Accrued!CallMade]_(Accrued!accruedVars)
  <2>1. CASE ReserveNext /\ CallKept(UpToDateReserve)
    BY <1>1, <2>1, CallsLeaveIndices DEF Accrued!CallMade, IncomeIndex, VariableIndex
  <2>2. CASE Tick /\ UNCHANGED reserve
    BY <1>1, <2>2, TimeAccrues, StandingHolds, StandingNext
  <2>3. CASE UNCHANGED reserveVars
    BY <2>3 DEF reserveVars, tokenVars, Accrued!accruedVars, UpToDateReserve, UpToDate,
                NextLiquidityIndex, NextVariableBorrowIndex, getNormalizedIncome,
                getNormalizedDebt, Elapsed, TreasuryShare, DebtAccrued,
                StableDebtAtLastUpdate, StableTotalSupply
  <2> QED
    BY <1>1, <2>1, <2>2, <2>3, ReserveSteps
<1>2. ReserveInv /\ ReserveInv' /\ Earning /\ [ReserveNext]_reserveVars
      => [Accrued!TimePasses \/ Accrued!CallMade]_(Accrued!accruedVars)
  BY <1>1
<1> QED
  BY <1>2, InitialReserve, ReserveInductive, EarningInductive, AccruesFromOne, PTL
     DEF ReserveSpec, IndicesAccrue, Accrued!AccruedSpec

-----------------------------------------------------------------------------
(* The stable token's total, beside its debts.                             *)

LEMMA RayMulOne ==
    ASSUME NEW x \in Nat
    PROVE  rayMul(x, RAY) = x
<1>1. HALF_RAY \in Nat /\ HALF_RAY < RAY /\ RAY \in Nat \ {0}
  BY ScaleAssumption DEF HALF_RAY
<1>2. x * RAY + HALF_RAY \in Nat /\ x * RAY <= x * RAY + HALF_RAY
      /\ x * RAY + HALF_RAY < x * RAY + RAY
  BY <1>1, ProductNat
<1>3. (x * RAY + HALF_RAY) \div RAY = x
  BY <1>1, <1>2, DivUnique
<1> QED
  BY <1>3 DEF rayMul

(* A debt that was just touched has not accrued anything yet.              *)
LEMMA JustTouched ==
    ASSUME NEW rate, now \in Nat
    PROVE  calculateCompoundedInterest(rate, now - now) = RAY
<1>1. now - now = 0
  OBVIOUS
<1> QED
  BY <1>1 DEF calculateCompoundedInterest

(* What is seen of a token after a mint or a burn.                         *)
Touched(t, s, u, principal, rate, supply, average) ==
    /\ s.supply = supply /\ s.avgStableRate = average
    /\ StableTotalSupply(s) = supply
    /\ StableBalanceOf(s, u) = principal /\ s.userRate[u] = rate
    /\ \A v \in Users \ {u} :
          StableBalanceOf(s, v) = StableBalanceOf(t, v) /\ s.userRate[v] = t.userRate[v]

LEMMA RebuiltTouched ==
    ASSUME NEW t, TokenInv(t), NEW u \in Users,
           NEW principal \in Nat, NEW rate \in Nat, NEW timestamp,
           timestamp = now \/ principal = 0,
           NEW supply \in Nat, NEW average \in Nat, NEW next,
           NEW s, s = Rebuilt(t, u, principal, rate, timestamp, supply, average, next)
    PROVE  Touched(t, s, u, principal, rate, supply, average)
<1>1. now \in Nat /\ t \in Token
  BY DEF TokenInv
<1>2. /\ s.supply = supply /\ s.avgStableRate = average /\ s.supplyTimestamp = now
      /\ s.principal[u] = principal /\ s.userRate[u] = rate /\ s.userTimestamp[u] = timestamp
      /\ \A v \in Users \ {u} :
            /\ s.principal[v] = t.principal[v] /\ s.userRate[v] = t.userRate[v]
            /\ s.userTimestamp[v] = t.userTimestamp[v]
  BY <1>1 DEF Rebuilt, Token
<1>3. StableTotalSupply(s) = supply
  BY <1>1, <1>2, JustTouched, RayMulOne DEF StableTotalSupply
<1>4. StableBalanceOf(s, u) = principal
  BY <1>1, <1>2, JustTouched, RayMulOne DEF StableBalanceOf
<1>5. \A v \in Users \ {u} : StableBalanceOf(s, v) = StableBalanceOf(t, v)
  BY <1>2 DEF StableBalanceOf
<1> QED
  BY <1>2, <1>3, <1>4, <1>5 DEF Touched

LEMMA MintedTouches ==
    ASSUME NEW t, TokenInv(t), NEW u \in Users, NEW amount \in Nat \ {0}, NEW rate \in Nat
    PROVE  Touched(t, Minted(t, u, amount, rate), u,
                   StableBalanceOf(t, u) + amount,
                   MergedRate(StableBalanceOf(t, u), t.userRate[u], amount, rate),
                   StableTotalSupply(t) + amount,
                   MergedRate(StableTotalSupply(t), t.avgStableRate, amount, rate))
<1> DEFINE balance == StableBalanceOf(t, u)
           previous == StableTotalSupply(t)
           principal == balance + amount
           next == previous + amount
           userRate == MergedRate(balance, t.userRate[u], amount, rate)
           average == MergedRate(previous, t.avgStableRate, amount, rate)
           s == Minted(t, u, amount, rate)
<1>1. s = Rebuilt(t, u, principal, userRate, now, next, average, next)
  BY DEF Minted, Rebuilt
<1>2. balance \in Nat /\ previous \in Nat /\ t.userRate[u] \in Nat /\ t.avgStableRate \in Nat
  BY StableBalanceNat, StableTotalNat, TokenFacts
<1>3. principal \in Nat /\ next \in Nat
  BY <1>2
<1>4. userRate \in Nat /\ average \in Nat
  <2> HIDE DEF balance, previous
  <2> QED
    BY <1>2, MergedRateNat
<1> HIDE DEF principal, next, userRate, average, s
<1>5. Touched(t, s, u, principal, userRate, next, average)
  BY <1>1, <1>3, <1>4, RebuiltTouched
<1> QED
  BY <1>5 DEF principal, next, userRate, average, s

LEMMA BurnedTouches ==
    ASSUME NEW t, TokenInv(t), NEW u \in Users, NEW amount \in 0..StableBalanceOf(t, u)
    PROVE  Touched(t, Burned(t, u, amount), u,
                   StableBalanceOf(t, u) - amount,
                   IF amount = StableBalanceOf(t, u) THEN 0 ELSE t.userRate[u],
                   Burned(t, u, amount).supply, Burned(t, u, amount).avgStableRate)
<1> DEFINE balance == StableBalanceOf(t, u)
           previous == StableTotalSupply(t)
           carried == rayMul(t.avgStableRate, wadToRay(previous))
           paid == rayMul(t.userRate[u], wadToRay(amount))
           next == IF previous <= amount THEN 0 ELSE previous - amount
           average == IF previous <= amount \/ paid >= carried THEN 0
                      ELSE rayDiv(carried - paid, wadToRay(next))
           left == balance - amount
           supply == SupplyLeft(previous, amount, paid, carried)
           rate == IF amount = balance THEN 0 ELSE t.userRate[u]
           timestamp == IF amount = balance THEN 0 ELSE now
           s == Burned(t, u, amount)
<1>1. s = Rebuilt(t, u, left, rate, timestamp, supply, average, next)
  BY DEF Burned, Rebuilt, PrincipalLeft, RateRepaid
<1>2. balance \in Nat /\ amount \in Nat /\ t.userRate[u] \in Nat
  BY StableBalanceNat, TokenFacts
<1>3. s.supply = supply /\ s.avgStableRate = average
  BY <1>1 DEF Rebuilt, TokenInv, Token
<1>4. supply \in Nat /\ average \in Nat
  <2>1. s \in Token
    BY BurnedType DEF TokenInv
  <2> QED
    BY <1>3, <2>1 DEF Token
<1> HIDE DEF s, balance, supply, average, next
<1>5. left \in Nat /\ (timestamp = now \/ left = 0) /\ rate \in Nat
  BY <1>2 DEF balance
<1> HIDE DEF left, rate, timestamp
<1>6. Touched(t, s, u, left, rate, supply, average)
  BY <1>1, <1>4, <1>5, RebuiltTouched
<1> QED
  BY <1>3, <1>6 DEF s, left, rate, balance

(* A burn that leaves a total leaves the old one less what it burned.      *)
LEMMA BurnedTotal ==
    ASSUME NEW t, TokenInv(t), NEW u \in Users, NEW amount \in 0..StableBalanceOf(t, u),
           Burned(t, u, amount).supply # 0
    PROVE  /\ amount < StableTotalSupply(t)
           /\ rayMul(t.userRate[u], wadToRay(amount))
                < rayMul(t.avgStableRate, wadToRay(StableTotalSupply(t)))
           /\ Burned(t, u, amount).supply = StableTotalSupply(t) - amount
           /\ Burned(t, u, amount).avgStableRate
                = rayDiv(rayMul(t.avgStableRate, wadToRay(StableTotalSupply(t)))
                           - rayMul(t.userRate[u], wadToRay(amount)),
                         wadToRay(StableTotalSupply(t) - amount))
<1> DEFINE previous == StableTotalSupply(t)
           carried == rayMul(t.avgStableRate, wadToRay(previous))
           paid == rayMul(t.userRate[u], wadToRay(amount))
           next == IF previous <= amount THEN 0 ELSE previous - amount
           average == IF previous <= amount \/ paid >= carried THEN 0
                      ELSE rayDiv(carried - paid, wadToRay(next))
           s == Burned(t, u, amount)
<1>1. s.supply = SupplyLeft(previous, amount, paid, carried) /\ s.avgStableRate = average
  BY DEF Burned, RateRepaid, TokenInv, Token
<1>2. /\ previous \in Nat /\ amount \in Nat
      /\ t.userRate[u] \in Nat /\ t.avgStableRate \in Nat
  BY StableBalanceNat, StableTotalNat, TokenFacts
<1>3. carried \in Nat /\ paid \in Nat
  <2> HIDE DEF previous
  <2>1. wadToRay(previous) \in Nat /\ wadToRay(amount) \in Nat
    BY <1>2, WadToRay
  <2> QED
    BY <1>2, <2>1, RayMulNat
<1>4. s.supply # 0
  OBVIOUS
<1> HIDE DEF carried, paid, s, previous
<1>5. ~(previous <= amount) /\ ~(paid >= carried)
  BY <1>1, <1>4 DEF SupplyLeft
<1>6. amount < previous /\ paid < carried
  BY <1>2, <1>3, <1>5
<1>7. s.supply = previous - amount
      /\ s.avgStableRate = rayDiv(carried - paid, wadToRay(previous - amount))
  BY <1>1, <1>5 DEF SupplyLeft
<1> QED
  BY <1>6, <1>7 DEF s, previous, carried, paid

-----------------------------------------------------------------------------
(* The rates, up to rounding.                                              *)

(* An average of n products, rounded each, over a debt.                    *)
LEMMA AverageRounds ==
    ASSUME NEW sum \in Nat, NEW exact \in Int, NEW n \in Nat, NEW debt \in Nat \ {0},
           2 * (sum * RAY - exact * WAD_RAY_RATIO) <= n * RAY,
           2 * (exact * WAD_RAY_RATIO - sum * RAY) <= n * RAY
    PROVE  /\ 2 * (rayDiv(sum, wadToRay(debt)) * debt - exact) <= n * WAD + debt
           /\ 2 * (exact - rayDiv(sum, wadToRay(debt)) * debt) <= n * WAD + debt
<1> DEFINE k == WAD_RAY_RATIO
           whole == debt * k
           rate == rayDiv(sum, whole)
<1>1. k \in Nat \ {0} /\ WAD \in Nat /\ RAY \in Nat /\ RAY = WAD * k
  BY WadInRays, ScaleAssumption
<1> HIDE DEF k
<1>2. whole \in Nat \ {0}
  BY <1>1
<1>3. rayDiv(sum, wadToRay(debt)) = rate
  BY DEF wadToRay, k
<1> HIDE DEF whole
<1>4. rate \in Nat
  BY <1>2, RayDivNat
<1>5. /\ rate * whole - sum * RAY <= whole \div 2
      /\ sum * RAY - rate * whole <= whole \div 2
  BY <1>2, RayDivRounds
<1> HIDE DEF rate
<1> DEFINE m == rate * debt
           p == sum * RAY
           e == exact * k
<1>6. m \in Nat /\ p \in Nat /\ e \in Int /\ rate * whole = m * k /\ rate * whole \in Nat
  BY <1>1, <1>2, <1>4, ProductNat DEF whole
<1>7. n * RAY = (n * WAD) * k /\ n * WAD \in Nat
  BY <1>1
<1>8. 2 * (p - e) <= (n * WAD) * k /\ 2 * (e - p) <= (n * WAD) * k
  BY <1>7 DEF k
<1> HIDE DEF m, p, e
<1>9. 2 * (m * k - p) <= debt * k /\ 2 * (p - m * k) <= debt * k
  <2>1. m * k - p <= whole \div 2 /\ p - m * k <= whole \div 2
    BY <1>5, <1>6 DEF p
  <2>2. 2 * (whole \div 2) <= whole /\ whole \div 2 \in Nat
    BY <1>2
  <2>3. m * k \in Nat
    BY <1>1, <1>6, ProductNat
  <2> QED
    BY <1>2, <1>6, <2>1, <2>2, <2>3 DEF whole
<1>10. 2 * (m * k - e) <= (n * WAD + debt) * k /\ 2 * (e - m * k) <= (n * WAD + debt) * k
  <2> DEFINE a == (n * WAD) * k
             b == debt * k
             c == m * k
  <2>1. a \in Nat /\ b \in Nat /\ c \in Nat /\ (n * WAD + debt) * k = a + b
    BY <1>1, <1>6, <1>7
  <2>2. 2 * (c - p) <= b /\ 2 * (p - c) <= b /\ 2 * (p - e) <= a /\ 2 * (e - p) <= a
    BY <1>8, <1>9
  <2> HIDE DEF a, b, c
  <2>3. 2 * (c - e) <= a + b /\ 2 * (e - c) <= a + b
    BY <1>6, <2>1, <2>2
  <2> QED
    BY <2>1, <2>3 DEF c
<1>11. 2 * (m - exact) <= n * WAD + debt /\ 2 * (exact - m) <= n * WAD + debt
  <2> DEFINE x == 2 * (m - exact)
             y == 2 * (exact - m)
             z == n * WAD + debt
  <2>1. x \in Int /\ y \in Int /\ z \in Int
    BY <1>6, <1>7
  <2>2. 2 * (m * k - e) = x * k /\ 2 * (e - m * k) = y * k
    BY <1>1, <1>6 DEF e
  <2>3. x * k <= z * k /\ y * k <= z * k
    BY <1>10, <2>2
  <2> HIDE DEF x, y, z
  <2>4. ASSUME NEW a \in Int, NEW b \in Int, a * k <= b * k PROVE a <= b
    BY <1>1, <2>4
  <2>5. x <= z /\ y <= z
    BY <2>1, <2>3, <2>4
  <2> QED
    BY <2>5 DEF x, y, z
<1> QED
  BY <1>3, <1>11 DEF m

(* A rate times a debt, in ray.                                            *)
LEMMA ProductRounds ==
    ASSUME NEW rate \in Nat, NEW debt \in Nat
    PROVE  /\ rayMul(rate, wadToRay(debt)) \in Nat
           /\ 2 * (rayMul(rate, wadToRay(debt)) * RAY - (rate * debt) * WAD_RAY_RATIO) <= RAY
           /\ 2 * ((rate * debt) * WAD_RAY_RATIO - rayMul(rate, wadToRay(debt)) * RAY) <= RAY
<1> DEFINE k == WAD_RAY_RATIO
           whole == wadToRay(debt)
           q == rayMul(rate, whole)
<1>1. k \in Nat \ {0} /\ RAY \in Nat /\ HALF_RAY \in Nat /\ 2 * HALF_RAY <= RAY
  BY WadInRays, ScaleAssumption DEF HALF_RAY
<1>2. whole \in Nat
  BY WadToRay
<1>3. rate * whole = (rate * debt) * k /\ rate * whole \in Nat
  <2>1. whole = debt * k
    BY DEF wadToRay
  <2> HIDE DEF k, whole
  <2> QED
    BY <1>1, <1>2, <2>1, ProductNat
<1> HIDE DEF whole, k
<1>4. q \in Nat
  BY <1>2, RayMulNat
<1>5. q * RAY <= rate * whole + HALF_RAY /\ rate * whole + 1 <= q * RAY + HALF_RAY
  BY <1>2, RayMulRounds
<1> HIDE DEF q
<1>6. q * RAY \in Nat
  BY <1>1, <1>4, ProductNat
<1> DEFINE a == q * RAY
           b == (rate * debt) * k
<1>7. a \in Nat /\ b \in Nat /\ a <= b + HALF_RAY /\ b + 1 <= a + HALF_RAY
  BY <1>3, <1>5, <1>6
<1> HIDE DEF a, b
<1>8. 2 * (a - b) <= RAY /\ 2 * (b - a) <= RAY
  BY <1>1, <1>7
<1> QED
  BY <1>4, <1>8 DEF a, b, k, q, whole

LEMMA MergedRounds ==
    ASSUME NEW debt1 \in Nat, NEW rate1 \in Nat, NEW debt2 \in Nat \ {0}, NEW rate2 \in Nat
    PROVE  LET merged == MergedRate(debt1, rate1, debt2, rate2) * (debt1 + debt2)
               exact  == rate1 * debt1 + rate2 * debt2
           IN  /\ 2 * (merged - exact) <= 2 * WAD + (debt1 + debt2)
               /\ 2 * (exact - merged) <= 2 * WAD + (debt1 + debt2)
<1> DEFINE k == WAD_RAY_RATIO
           p1 == rayMul(rate1, wadToRay(debt1))
           p2 == rayMul(rate2, wadToRay(debt2))
           e1 == rate1 * debt1
           e2 == rate2 * debt2
           exact == e1 + e2
           sum == p1 + p2
           debt == debt1 + debt2
<1>1. k \in Nat /\ RAY \in Nat
  BY WadInRays, ScaleAssumption
<1>2. /\ p1 \in Nat /\ 2 * (p1 * RAY - e1 * k) <= RAY /\ 2 * (e1 * k - p1 * RAY) <= RAY
      /\ p2 \in Nat /\ 2 * (p2 * RAY - e2 * k) <= RAY /\ 2 * (e2 * k - p2 * RAY) <= RAY
  BY ProductRounds
<1>3. MergedRate(debt1, rate1, debt2, rate2) = rayDiv(sum, wadToRay(debt))
  BY DEF MergedRate
<1>4. e1 \in Nat /\ e2 \in Nat /\ debt \in Nat \ {0}
  BY ProductNat
<1> HIDE DEF k, p1, p2, e1, e2, debt
<1>5. sum * RAY = p1 * RAY + p2 * RAY /\ exact * k = e1 * k + e2 * k
      /\ p1 * RAY \in Nat /\ p2 * RAY \in Nat /\ e1 * k \in Nat /\ e2 * k \in Nat
  BY <1>1, <1>2, <1>4
<1>6. sum \in Nat /\ exact \in Int
  BY <1>2, <1>4
<1> HIDE DEF sum, exact
<1>7. 2 * (sum * RAY - exact * k) <= 2 * RAY /\ 2 * (exact * k - sum * RAY) <= 2 * RAY
  BY <1>1, <1>2, <1>5
<1>8. /\ 2 * (rayDiv(sum, wadToRay(debt)) * debt - exact) <= 2 * WAD + debt
      /\ 2 * (exact - rayDiv(sum, wadToRay(debt)) * debt) <= 2 * WAD + debt
  <2> DEFINE n == 2
  <2>1. n \in Nat
    OBVIOUS
  <2>2. 2 * (sum * RAY - exact * WAD_RAY_RATIO) <= n * RAY
        /\ 2 * (exact * WAD_RAY_RATIO - sum * RAY) <= n * RAY
    BY <1>7 DEF k
  <2> HIDE DEF n
  <2>3. /\ 2 * (rayDiv(sum, wadToRay(debt)) * debt - exact) <= n * WAD + debt
        /\ 2 * (exact - rayDiv(sum, wadToRay(debt)) * debt) <= n * WAD + debt
    BY <1>4, <1>6, <2>1, <2>2, AverageRounds
  <2> QED
    BY <2>3 DEF n
<1> QED
  BY <1>3, <1>8 DEF exact, e1, e2, debt

(* The average a burn leaves, over the total it leaves.                    *)
LEMMA BurnedRounds ==
    ASSUME NEW t, TokenInv(t), NEW u \in Users, NEW amount \in 0..StableBalanceOf(t, u),
           Burned(t, u, amount).supply # 0
    PROVE  LET s     == Burned(t, u, amount)
               left  == s.avgStableRate * s.supply
               exact == InterestOnTotal(t) - t.userRate[u] * amount
           IN  /\ 2 * (left - exact) <= 2 * WAD + s.supply
               /\ 2 * (exact - left) <= 2 * WAD + s.supply
<1> DEFINE k == WAD_RAY_RATIO
           s == Burned(t, u, amount)
           previous == StableTotalSupply(t)
           carried == rayMul(t.avgStableRate, wadToRay(previous))
           paid == rayMul(t.userRate[u], wadToRay(amount))
           e1 == t.avgStableRate * previous
           e2 == t.userRate[u] * amount
           exact == e1 - e2
           sum == carried - paid
           debt == previous - amount
<1>1. k \in Nat /\ RAY \in Nat
  BY WadInRays, ScaleAssumption
<1>2. /\ previous \in Nat /\ amount \in Nat
      /\ t.userRate[u] \in Nat /\ t.avgStableRate \in Nat
  BY StableBalanceNat, StableTotalNat, TokenFacts
<1>3. /\ amount < previous /\ paid < carried
      /\ s.supply = debt /\ s.avgStableRate = rayDiv(sum, wadToRay(debt))
  BY BurnedTotal
<1>4. InterestOnTotal(t) - t.userRate[u] * amount = exact
  BY DEF InterestOnTotal
<1> HIDE DEF k, previous, s
<1>5. carried \in Nat /\ 2 * (carried * RAY - e1 * k) <= RAY /\ 2 * (e1 * k - carried * RAY) <= RAY
  BY <1>2, ProductRounds DEF k
<1>6. paid \in Nat /\ 2 * (paid * RAY - e2 * k) <= RAY /\ 2 * (e2 * k - paid * RAY) <= RAY
  BY <1>2, ProductRounds DEF k
<1>7. e1 \in Nat /\ e2 \in Nat /\ debt \in Nat \ {0} /\ sum \in Nat
  BY <1>2, <1>3, <1>5, <1>6, ProductNat
<1> HIDE DEF carried, paid, e1, e2, debt
<1>8. sum * RAY = carried * RAY - paid * RAY /\ exact * k = e1 * k - e2 * k
      /\ carried * RAY \in Nat /\ paid * RAY \in Nat /\ e1 * k \in Nat /\ e2 * k \in Nat
  BY <1>1, <1>5, <1>6, <1>7
<1>9. exact \in Int
  BY <1>7
<1> HIDE DEF sum, exact
<1>10. 2 * (sum * RAY - exact * k) <= 2 * RAY /\ 2 * (exact * k - sum * RAY) <= 2 * RAY
  BY <1>1, <1>5, <1>6, <1>8
<1>11. /\ 2 * (rayDiv(sum, wadToRay(debt)) * debt - exact) <= 2 * WAD + debt
       /\ 2 * (exact - rayDiv(sum, wadToRay(debt)) * debt) <= 2 * WAD + debt
  <2> DEFINE n == 2
  <2>1. n \in Nat
    OBVIOUS
  <2>2. 2 * (sum * RAY - exact * WAD_RAY_RATIO) <= n * RAY
        /\ 2 * (exact * WAD_RAY_RATIO - sum * RAY) <= n * RAY
    BY <1>10 DEF k
  <2> HIDE DEF n
  <2>3. /\ 2 * (rayDiv(sum, wadToRay(debt)) * debt - exact) <= n * WAD + debt
        /\ 2 * (exact - rayDiv(sum, wadToRay(debt)) * debt) <= n * WAD + debt
    BY <1>7, <1>9, <2>1, <2>2, AverageRounds
  <2> QED
    BY <2>3 DEF n
<1> QED
  BY <1>3, <1>4, <1>11 DEF s

-----------------------------------------------------------------------------
(* A call moves the total as it moves one user's debt.                     *)
MovesAsDebt(t, s, u) ==
    /\ \A v \in Users \ {u} :
          StableBalanceOf(s, v) = StableBalanceOf(t, v) /\ s.userRate[v] = t.userRate[v]
    /\ StableTotalSupply(s) - StableTotalSupply(t) = StableBalanceOf(s, u) - StableBalanceOf(t, u)

(* Twice the error, so that a mint and a burn may add up to a rebalance.   *)
MovesAsInterest(t, s, u, slack) ==
    LET moved == InterestOnTotal(s) - InterestOnTotal(t)
        owed  == Interest(s, u) - Interest(t, u)
    IN  /\ moved \in Int /\ owed \in Int
        /\ 2 * (moved - owed) <= slack /\ 2 * (owed - moved) <= slack

LEMMA MintMoves ==
    ASSUME NEW t, TokenInv(t), NEW u \in Users, NEW amount \in Nat \ {0}, NEW rate \in Nat
    PROVE  /\ MovesAsDebt(t, Minted(t, u, amount, rate), u)
           /\ MovesAsInterest(t, Minted(t, u, amount, rate), u,
                              4 * WAD + StableTotalSupply(t) + StableBalanceOf(t, u) + 2 * amount)
<1> DEFINE s == Minted(t, u, amount, rate)
           balance == StableBalanceOf(t, u)
           previous == StableTotalSupply(t)
           userRate == MergedRate(balance, t.userRate[u], amount, rate)
           average == MergedRate(previous, t.avgStableRate, amount, rate)
           owed == balance + amount
           total == previous + amount
<1>1. /\ balance \in Nat /\ previous \in Nat
      /\ t.userRate[u] \in Nat /\ t.avgStableRate \in Nat /\ WAD \in Nat
  BY StableBalanceNat, StableTotalNat, TokenFacts, ScaleAssumption
<1>2. /\ StableTotalSupply(s) = total /\ s.avgStableRate = average
      /\ StableBalanceOf(s, u) = owed /\ s.userRate[u] = userRate
      /\ \A v \in Users \ {u} :
            StableBalanceOf(s, v) = StableBalanceOf(t, v) /\ s.userRate[v] = t.userRate[v]
  BY MintedTouches DEF Touched
<1>3. /\ InterestOnTotal(s) = average * total /\ Interest(s, u) = userRate * owed
      /\ InterestOnTotal(t) = t.avgStableRate * previous
      /\ Interest(t, u) = t.userRate[u] * balance
  BY <1>2 DEF InterestOnTotal, Interest
<1> HIDE DEF s
<1>4. MovesAsDebt(t, s, u)
  <2> HIDE DEF balance, previous
  <2> QED
    BY <1>1, <1>2 DEF MovesAsDebt, balance, previous
<1> HIDE DEF balance, previous
<1>5. MovesAsInterest(t, s, u, 4 * WAD + previous + balance + 2 * amount)
  <2> DEFINE a == average * total
             b == userRate * owed
             c == t.avgStableRate * previous
             d == t.userRate[u] * balance
             e == rate * amount
  <2>1. /\ 2 * (a - (c + e)) <= 2 * WAD + total /\ 2 * ((c + e) - a) <= 2 * WAD + total
        /\ 2 * (b - (d + e)) <= 2 * WAD + owed /\ 2 * ((d + e) - b) <= 2 * WAD + owed
    BY <1>1, MergedRounds
  <2>2. total \in Nat /\ owed \in Nat
    BY <1>1
  <2>3. a \in Nat /\ b \in Nat /\ c \in Nat /\ d \in Nat /\ e \in Nat
    <3>1. userRate \in Nat /\ average \in Nat
      BY <1>1, MergedRateNat
    <3> HIDE DEF userRate, average, total, owed
    <3> QED
      BY <1>1, <2>2, <3>1, ProductNat
  <2>4. 4 * WAD + previous + balance + 2 * amount = (2 * WAD + total) + (2 * WAD + owed)
    BY <1>1
  <2> HIDE DEF a, b, c, d, e, total, owed
  <2> DEFINE moved == a - c
             charged == b - d
  <2>5. /\ moved \in Int /\ charged \in Int
        /\ 2 * (moved - charged) <= (2 * WAD + total) + (2 * WAD + owed)
        /\ 2 * (charged - moved) <= (2 * WAD + total) + (2 * WAD + owed)
    BY <1>1, <2>1, <2>2, <2>3
  <2>6. /\ InterestOnTotal(s) = a /\ Interest(s, u) = b
        /\ InterestOnTotal(t) = c /\ Interest(t, u) = d
    BY <1>3 DEF a, b, c, d
  <2> QED
    BY <2>4, <2>5, <2>6 DEF MovesAsInterest
<1> QED
  BY <1>4, <1>5 DEF s, balance, previous

LEMMA BurnMoves ==
    ASSUME NEW t, TokenInv(t), NEW u \in Users, NEW amount \in 0..StableBalanceOf(t, u),
           Burned(t, u, amount).supply # 0
    PROVE  /\ MovesAsDebt(t, Burned(t, u, amount), u)
           /\ MovesAsInterest(t, Burned(t, u, amount), u, 2 * WAD + StableTotalSupply(t) - amount)
<1> DEFINE s == Burned(t, u, amount)
           balance == StableBalanceOf(t, u)
           previous == StableTotalSupply(t)
           owed == balance - amount
           total == previous - amount
           rate == t.userRate[u]
           after == IF amount = balance THEN 0 ELSE rate
<1>1. /\ balance \in Nat /\ previous \in Nat /\ amount \in Nat /\ amount <= balance
      /\ rate \in Nat /\ t.avgStableRate \in Nat /\ WAD \in Nat
  BY StableBalanceNat, StableTotalNat, TokenFacts, ScaleAssumption
<1>2. /\ StableTotalSupply(s) = s.supply
      /\ StableBalanceOf(s, u) = owed /\ s.userRate[u] = after
      /\ \A v \in Users \ {u} :
            StableBalanceOf(s, v) = StableBalanceOf(t, v) /\ s.userRate[v] = t.userRate[v]
  BY BurnedTouches DEF Touched
<1>3. amount < previous /\ s.supply = total
  BY BurnedTotal
<1>4. /\ InterestOnTotal(s) = s.avgStableRate * s.supply /\ Interest(s, u) = after * owed
      /\ Interest(t, u) = rate * balance
  BY <1>2 DEF InterestOnTotal, Interest
<1>5. /\ 2 * (s.avgStableRate * s.supply - (InterestOnTotal(t) - rate * amount))
           <= 2 * WAD + s.supply
      /\ 2 * ((InterestOnTotal(t) - rate * amount) - s.avgStableRate * s.supply)
           <= 2 * WAD + s.supply
  BY BurnedRounds
<1>6. s.avgStableRate \in Nat /\ s.supply \in Nat /\ InterestOnTotal(t) \in Nat
  <2>1. s.avgStableRate \in Nat /\ s.supply \in Nat
    BY BurnedType, TokenFacts
  <2>2. t.avgStableRate * previous \in Nat
    <3> HIDE DEF previous
    <3> QED
      BY <1>1, ProductNat
  <2> QED
    BY <2>1, <2>2 DEF InterestOnTotal
<1> HIDE DEF s, balance, previous, rate
<1>7. MovesAsDebt(t, s, u)
  BY <1>1, <1>2, <1>3 DEF MovesAsDebt, balance, previous
<1>8. after * owed = rate * balance - rate * amount
  <2>1. CASE amount = balance
    BY <1>1, <2>1
  <2>2. CASE amount # balance
    BY <1>1, <2>2
  <2> QED
    BY <2>1, <2>2
<1>9. MovesAsInterest(t, s, u, 2 * WAD + previous - amount)
  <2> DEFINE a == s.avgStableRate * s.supply
             b == after * owed
             c == InterestOnTotal(t)
             d == rate * balance
             e == rate * amount
             left == s.supply
  <2>1. /\ 2 * (a - (c - e)) <= 2 * WAD + left /\ 2 * ((c - e) - a) <= 2 * WAD + left
    BY <1>5
  <2>2. a \in Nat /\ c \in Nat /\ d \in Nat /\ e \in Nat /\ b = d - e
        /\ left \in Nat /\ 2 * WAD + left = 2 * WAD + previous - amount
    BY <1>1, <1>3, <1>6, <1>8, ProductNat
  <2> HIDE DEF a, b, c, d, e, left
  <2> DEFINE moved == a - c
             charged == b - d
  <2>3. /\ moved \in Int /\ charged \in Int
        /\ 2 * (moved - charged) <= 2 * WAD + left /\ 2 * (charged - moved) <= 2 * WAD + left
    BY <1>1, <2>1, <2>2
  <2>4. /\ InterestOnTotal(s) = a /\ Interest(s, u) = b
        /\ InterestOnTotal(t) = c /\ Interest(t, u) = d
    BY <1>4 DEF a, b, c, d
  <2> QED
    BY <2>2, <2>3, <2>4 DEF MovesAsInterest
<1> QED
  BY <1>7, <1>9 DEF s, previous

LEMMA RebalanceMoves ==
    ASSUME NEW t, TokenInv(t), NEW u \in Users, NEW rate \in Nat,
           NEW debt \in Nat \ {0}, debt = StableBalanceOf(t, u),
           Burned(t, u, debt).supply # 0
    PROVE  LET s == Minted(Burned(t, u, debt), u, debt, rate)
           IN  /\ MovesAsDebt(t, s, u)
               /\ MovesAsInterest(t, s, u, 6 * WAD + 2 * StableTotalSupply(s) + debt)
<1> DEFINE m == Burned(t, u, debt)
           s == Minted(m, u, debt, rate)
           previous == StableTotalSupply(t)
<1>1. debt \in 0..StableBalanceOf(t, u) /\ WAD \in Nat
  BY ScaleAssumption
<1>2. TokenInv(m) /\ StableBalanceOf(m, u) = debt - debt /\ StableTotalSupply(m) = m.supply
  BY <1>1, BurnedType, BurnedTouches DEF Touched
<1>3. m.supply = previous - debt
  BY <1>1, BurnedTotal
<1>4. MovesAsDebt(t, m, u) /\ MovesAsInterest(t, m, u, 2 * WAD + previous - debt)
  BY <1>1, BurnMoves
<1>5. previous \in Nat
  BY StableTotalNat
<1> HIDE DEF m, previous
<1>6. /\ MovesAsDebt(m, s, u)
      /\ MovesAsInterest(m, s, u, 4 * WAD + (previous - debt) + (debt - debt) + 2 * debt)
  BY <1>2, <1>3, MintMoves
<1>7. StableTotalSupply(s) = previous /\ StableBalanceOf(s, u) = debt
  <2>1. /\ StableTotalSupply(s) = StableTotalSupply(m) + debt
        /\ StableBalanceOf(s, u) = StableBalanceOf(m, u) + debt
    BY <1>2, MintedTouches DEF Touched
  <2> QED
    BY <1>2, <1>3, <1>5, <2>1
<1> HIDE DEF s
<1>8. MovesAsDebt(t, s, u)
  <2>1. StableTotalSupply(s) - StableTotalSupply(t) = StableBalanceOf(s, u) - StableBalanceOf(t, u)
    BY <1>5, <1>7 DEF previous
  <2> QED
    BY <1>4, <1>6, <2>1 DEF MovesAsDebt
<1>9. MovesAsInterest(t, s, u, 6 * WAD + 2 * previous + debt)
  <2> DEFINE moved1 == InterestOnTotal(m) - InterestOnTotal(t)
             owed1 == Interest(m, u) - Interest(t, u)
             moved2 == InterestOnTotal(s) - InterestOnTotal(m)
             owed2 == Interest(s, u) - Interest(m, u)
  <2>1. /\ InterestOnTotal(t) \in Int /\ Interest(t, u) \in Int
        /\ InterestOnTotal(m) \in Int /\ Interest(m, u) \in Int
        /\ InterestOnTotal(s) \in Int /\ Interest(s, u) \in Int
    <3>1. TokenInv(s)
      BY <1>2, MintedType DEF s
    <3>2. ASSUME NEW x, TokenInv(x) PROVE InterestOnTotal(x) \in Int /\ Interest(x, u) \in Int
      <4>1. /\ x.avgStableRate \in Nat /\ x.userRate[u] \in Nat
            /\ StableTotalSupply(x) \in Nat /\ StableBalanceOf(x, u) \in Nat
        BY <3>2, TokenFacts, StableTotalNat, StableBalanceNat
      <4> QED
        BY <4>1, ProductNat DEF InterestOnTotal, Interest
    <3> QED
      BY <1>2, <3>1, <3>2
  <2>2. /\ moved1 \in Int /\ owed1 \in Int /\ moved2 \in Int /\ owed2 \in Int
        /\ 2 * (moved1 - owed1) <= 2 * WAD + previous - debt
        /\ 2 * (owed1 - moved1) <= 2 * WAD + previous - debt
        /\ 2 * (moved2 - owed2) <= 4 * WAD + (previous - debt) + (debt - debt) + 2 * debt
        /\ 2 * (owed2 - moved2) <= 4 * WAD + (previous - debt) + (debt - debt) + 2 * debt
    BY <1>4, <1>6 DEF MovesAsInterest
  <2> DEFINE moved == InterestOnTotal(s) - InterestOnTotal(t)
             owed == Interest(s, u) - Interest(t, u)
  <2>3. moved = moved1 + moved2 /\ owed = owed1 + owed2
    BY <2>1
  <2> HIDE DEF moved1, moved2, owed1, owed2
  <2>4. /\ moved \in Int /\ owed \in Int
        /\ 2 * (moved - owed) <= 6 * WAD + 2 * previous + debt
        /\ 2 * (owed - moved) <= 6 * WAD + 2 * previous + debt
    BY <1>1, <1>5, <2>2, <2>3
  <2> QED
    BY <2>4 DEF MovesAsInterest
<1> QED
  BY <1>7, <1>8, <1>9 DEF s, m

(* The token after a call, seen in the block of the call.                  *)
LEMMA SeenInBlock ==
    ASSUME NEW s, token' = s, now' = now
    PROVE  /\ token.supply' = s.supply
           /\ StableTotalSupply(token)' = StableTotalSupply(s)
           /\ InterestOnTotal(token)' = InterestOnTotal(s)
           /\ \A u \in Users : /\ StableBalanceOf(token, u)' = StableBalanceOf(s, u)
                               /\ token.userRate[u]' = s.userRate[u]
                               /\ Interest(token, u)' = Interest(s, u)
  BY DEF StableTotalSupply, StableBalanceOf, InterestOnTotal, Interest

Moves(u) ==
    /\ OnlyDebtOf(u)
    /\ StableTotalSupply(token)' - StableTotalSupply(token)
         = StableBalanceOf(token, u)' - StableBalanceOf(token, u)
    /\ LET moved == InterestOnTotal(token)' - InterestOnTotal(token)
           owed  == Interest(token, u)' - Interest(token, u)
       IN  moved - owed \in (-InterestSlack(u))..InterestSlack(u)

LEMMA MovesSeen ==
    ASSUME NEW s, TokenInv(s), token' = s, now' = now, NEW u \in Users, NEW slack \in Int,
           MovesAsDebt(token, s, u), MovesAsInterest(token, s, u, slack),
           slack <= 2 * (StableTotalSupply(s) + StableBalanceOf(s, u) + 3 * WAD)
    PROVE  Moves(u)
<1> DEFINE total == StableTotalSupply(s)
           owes == StableBalanceOf(s, u)
           moved == InterestOnTotal(s) - InterestOnTotal(token)
           owed == Interest(s, u) - Interest(token, u)
           bound == total + owes + 3 * WAD
<1>1. total \in Nat /\ owes \in Nat /\ WAD \in Nat
  BY StableTotalNat, StableBalanceNat, ScaleAssumption
<1>2. OnlyDebtOf(u)
  BY SeenInBlock DEF MovesAsDebt, OnlyDebtOf, DebtKept
<1>3. StableTotalSupply(token)' - StableTotalSupply(token)
        = StableBalanceOf(token, u)' - StableBalanceOf(token, u)
  BY SeenInBlock DEF MovesAsDebt
<1>4. /\ moved \in Int /\ owed \in Int
      /\ 2 * (moved - owed) <= slack /\ 2 * (owed - moved) <= slack /\ slack <= 2 * bound
  BY DEF MovesAsInterest
<1>5. /\ InterestOnTotal(token)' - InterestOnTotal(token) = moved
      /\ Interest(token, u)' - Interest(token, u) = owed
      /\ InterestSlack(u) = bound
  BY SeenInBlock DEF InterestSlack
<1>6. bound \in Nat
  <2> HIDE DEF total, owes
  <2> QED
    BY <1>1
<1> HIDE DEF total, owes, moved, owed, bound
<1>7. moved - owed \in (-bound)..bound
  BY <1>4, <1>6
<1> QED
  BY <1>2, <1>3, <1>5, <1>7 DEF Moves

(* A rebalance is told by the debts it leaves as they were.                *)
LEMMA CallMoves ==
    ASSUME TokenInv(token), NEW s, TokenCall(s), token' = s, now' = now, CallKeepsTotal
    PROVE  \E u \in Users : Moves(u)
<1>1. TokenInv(s) /\ s.supply # 0 /\ WAD \in Nat
  BY TokenCallType, SeenInBlock, ScaleAssumption DEF CallKeepsTotal
<1>2. CASE Minting(s)
  <2>1. PICK u \in Users, amount \in Nat \ {0}, rate \in Nat : s = Minted(token, u, amount, rate)
    BY <1>2 DEF Minting
  <2> DEFINE previous == StableTotalSupply(token)
             balance == StableBalanceOf(token, u)
             slack == 4 * WAD + previous + balance + 2 * amount
  <2>2. MovesAsDebt(token, s, u) /\ MovesAsInterest(token, s, u, slack)
    BY <2>1, MintMoves
  <2>3. StableTotalSupply(s) = previous + amount /\ StableBalanceOf(s, u) = balance + amount
    BY <2>1, MintedTouches DEF Touched
  <2>4. previous \in Nat /\ balance \in Nat
    BY StableTotalNat, StableBalanceNat
  <2> HIDE DEF previous, balance
  <2>5. slack \in Int /\ slack <= 2 * ((previous + amount) + (balance + amount) + 3 * WAD)
    BY <1>1, <2>4
  <2> HIDE DEF slack
  <2> QED
    BY <1>1, <2>2, <2>3, <2>5, MovesSeen
<1>3. CASE Burning(s)
  <2>1. PICK u \in Users : \E amount \in 0..StableBalanceOf(token, u) : s = Burned(token, u, amount)
    BY <1>3 DEF Burning
  <2>2. PICK amount \in 0..StableBalanceOf(token, u) : s = Burned(token, u, amount)
    BY <2>1
  <2> DEFINE previous == StableTotalSupply(token)
             slack == 2 * WAD + previous - amount
             owes == StableBalanceOf(s, u)
  <2>3. MovesAsDebt(token, s, u) /\ MovesAsInterest(token, s, u, slack)
    BY <1>1, <2>2, BurnMoves
  <2>4. StableTotalSupply(s) = s.supply /\ s.supply = previous - amount /\ amount < previous
    BY <1>1, <2>2, BurnedTouches, BurnedTotal DEF Touched
  <2>5. previous \in Nat /\ owes \in Nat /\ amount \in Nat
    BY <1>1, StableTotalNat, StableBalanceNat
  <2> HIDE DEF previous, owes
  <2>6. slack \in Int /\ slack <= 2 * ((previous - amount) + owes + 3 * WAD)
    BY <1>1, <2>4, <2>5
  <2> HIDE DEF slack
  <2> QED
    BY <1>1, <2>3, <2>4, <2>6, MovesSeen DEF owes
<1>4. CASE Rebalancing(s)
  <2>1. PICK u \in Users, rate \in Nat :
            /\ StableBalanceOf(token, u) # 0
            /\ s = Minted(Burned(token, u, StableBalanceOf(token, u)), u,
                          StableBalanceOf(token, u), rate)
    BY <1>4 DEF Rebalancing
  <2> DEFINE debt == StableBalanceOf(token, u)
             m == Burned(token, u, debt)
             total == StableTotalSupply(s)
             slack == 6 * WAD + 2 * total + debt
  <2>2. debt \in Nat \ {0} /\ debt \in 0..StableBalanceOf(token, u)
    BY <2>1, StableBalanceNat
  <2>3. s = Minted(m, u, debt, rate)
    BY <2>1
  <2>4. /\ TokenInv(m) /\ StableBalanceOf(m, u) = debt - debt
        /\ \A v \in Users \ {u} : StableBalanceOf(m, v) = StableBalanceOf(token, v)
    BY <2>2, BurnedType, BurnedTouches DEF Touched
  <2> HIDE DEF debt, m
  <2>5. /\ StableBalanceOf(s, u) = (debt - debt) + debt
        /\ \A v \in Users \ {u} : StableBalanceOf(s, v) = StableBalanceOf(m, v)
    BY <2>2, <2>3, <2>4, MintedTouches DEF Touched
  <2>6. StableBalanceOf(s, u) = debt
    BY <2>2, <2>5
  <2>7. \A v \in Users : StableBalanceOf(s, v) = StableBalanceOf(token, v)
    BY <2>4, <2>5, <2>6 DEF debt
  <2>8. m.supply # 0
    <3>1. \A v \in Users : DebtKept(v)
      BY <2>7, SeenInBlock DEF DebtKept
    <3> QED
      BY <3>1 DEF CallKeepsTotal, m, debt
  <2>9. MovesAsDebt(token, s, u) /\ MovesAsInterest(token, s, u, slack)
    BY <2>2, <2>3, <2>8, RebalanceMoves DEF debt, m
  <2>10. total \in Nat
    BY <1>1, StableTotalNat
  <2> HIDE DEF total
  <2>11. slack \in Int /\ slack <= 2 * (total + debt + 3 * WAD)
    BY <1>1, <2>2, <2>10
  <2> HIDE DEF slack
  <2> QED
    BY <1>1, <2>6, <2>9, <2>11, MovesSeen DEF total
<1> QED
  BY <1>2, <1>3, <1>4 DEF TokenCall

LEMMA StepMoves ==
    ASSUME ReserveInv, [ReserveNext]_reserveVars, CallKeepsTotal
    PROVE  \E u \in Users : Moves(u)
<1>1. token' # token
  BY DEF CallKeepsTotal
<1>2. ReserveNext
  BY <1>1 DEF reserveVars, tokenVars
<1>3. CallKept(UpToDateReserve)
  BY <1>1, <1>2, ReserveSteps DEF Tick
<1>4. TokenCall(token') /\ now' = now
  BY <1>1, <1>3 DEF CallKept
<1>5. TokenInv(token)
  BY DEF ReserveInv, BooksInv
<1> QED
  BY <1>4, <1>5, CallMoves

(* Every call of the pool moves the total of the stable debts by as much   *)
(* as it moves the debts themselves, that is, the debt of the one user it  *)
(* is about, whatever the rates and however long ago anybody was last      *)
(* touched, unless burn resets the total (StableDebtToken.mint and burn).  *)
THEOREM TotalFollowsDebts == ReserveSpec => SupplyFollowsDebts
<1>1. ReserveInv /\ [ReserveNext]_reserveVars
      => [CallKeepsTotal
          => \E u \in Users :
                /\ OnlyDebtOf(u)
                /\ StableTotalSupply(token)' - StableTotalSupply(token)
                     = StableBalanceOf(token, u)' - StableBalanceOf(token, u)]_tokenVars
  BY StepMoves DEF Moves
<1> QED
  BY <1>1, InitialReserve, ReserveInductive, PTL DEF ReserveSpec, SupplyFollowsDebts

(* And it moves the interest the reserve counts on, which suppliers are    *)
(* paid from, by as much as the interest its debtor is charged, up to half *)
(* a unit of rate for the debt and a unit for the total.                   *)
THEOREM AverageFollowsItsDebts == ReserveSpec => AverageFollowsRates
<1>1. ReserveInv /\ [ReserveNext]_reserveVars
      => [CallKeepsTotal
          => \E u \in Users :
                LET moved == InterestOnTotal(token)' - InterestOnTotal(token)
                    owed  == Interest(token, u)' - Interest(token, u)
                IN  OnlyDebtOf(u)
                    /\ moved - owed \in (-InterestSlack(u))..InterestSlack(u)]_tokenVars
  BY StepMoves DEF Moves
<1> QED
  BY <1>1, InitialReserve, ReserveInductive, PTL DEF ReserveSpec, AverageFollowsRates

=============================================================================
