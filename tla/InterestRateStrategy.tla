------------------------ MODULE InterestRateStrategy ------------------------
(***************************************************************************)
(* pool/DefaultReserveInterestRateStrategy.sol: the three rates of a       *)
(* reserve, from how much of it is borrowed and how.  Rates and ratios are *)
(* in ray.  The strategy keeps no state: its parameters are constants.     *)
(***************************************************************************)
EXTENDS WadRayMath

CONSTANTS
    OPTIMAL_USAGE_RATIO, OPTIMAL_STABLE_TO_TOTAL_DEBT_RATIO,
    BaseVariableBorrowRate,
    VariableRateSlope1, VariableRateSlope2,
    StableRateSlope1, StableRateSlope2,
    BaseStableRateOffset, StableRateExcessOffset

ASSUME StrategyAssumption ==
    /\ OPTIMAL_USAGE_RATIO \in 1..RAY
    /\ OPTIMAL_STABLE_TO_TOTAL_DEBT_RATIO \in 0..RAY
    /\ \A rate \in {BaseVariableBorrowRate, VariableRateSlope1, VariableRateSlope2,
                    StableRateSlope1, StableRateSlope2, BaseStableRateOffset,
                    StableRateExcessOffset} : rate \in Nat

(* How far "ratio" is past "optimal", of the way from there to one.        *)
Excess(ratio, optimal) ==
    IF ratio <= optimal THEN 0 ELSE rayDiv(ratio - optimal, RAY - optimal)

(* A rate that climbs slope1 up to the optimal usage, slope2 past it.      *)
Climb(slope1, slope2, usage) ==
    IF usage > OPTIMAL_USAGE_RATIO
    THEN slope1 + rayMul(slope2, Excess(usage, OPTIMAL_USAGE_RATIO))
    ELSE rayDiv(rayMul(slope1, usage), OPTIMAL_USAGE_RATIO)

(* The rate debtors pay on average: each kind of debt at its own.          *)
OverallBorrowRate(stable, variable, variableRate, averageStableRate) ==
    IF stable + variable = 0 THEN 0
    ELSE rayDiv(rayMul(wadToRay(variable), variableRate)
                  + rayMul(wadToRay(stable), averageStableRate),
                wadToRay(stable + variable))

(* Slip: what has been minted unbacked does not dilute the income.         *)
UsageRatioOfBacked(debt, available, unbacked) ==
    IF debt = 0 THEN 0 ELSE rayDiv(debt, available + debt)
(* The share of the suppliers' claims that is lent out.                    *)
SupplyUsageRatio(debt, available, unbacked) ==
    IF debt = 0 THEN 0 ELSE rayDiv(debt, available + debt + unbacked)

(* "b" is what the pool asks about: [available, unbacked, stable, variable *)
(* : amounts, averageStableRate, reserveFactor].                           *)
calculateInterestRates(b) ==
    LET debt     == b.stable + b.variable
        usage    == IF debt = 0 THEN 0 ELSE rayDiv(debt, b.available + debt)
        toTotal  == IF debt = 0 THEN 0 ELSE rayDiv(b.stable, debt)
        variable == BaseVariableBorrowRate
                      + Climb(VariableRateSlope1, VariableRateSlope2, usage)
        overall  == OverallBorrowRate(b.stable, b.variable, variable, b.averageStableRate)
    IN  [liquidityRate |->
             percentMul(rayMul(overall, SupplyUsageRatio(debt, b.available, b.unbacked)),
                        PERCENTAGE_FACTOR - b.reserveFactor),
         stableRate |->
             VariableRateSlope1 + BaseStableRateOffset
               + Climb(StableRateSlope1, StableRateSlope2, usage)
               + rayMul(StableRateExcessOffset,
                        Excess(toTotal, OPTIMAL_STABLE_TO_TOTAL_DEBT_RATIO)),
         variableRate |-> variable]

=============================================================================
