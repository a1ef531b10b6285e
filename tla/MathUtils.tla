----------------------------- MODULE MathUtils -----------------------------
(***************************************************************************)
(* libraries/math/MathUtils.sol: interest over "elapsed" units of time at  *)
(* a yearly rate in ray.  Linear for suppliers; for borrowers the first    *)
(* three terms of the binomial series of (1 + rate per second)^elapsed.    *)
(***************************************************************************)
EXTENDS WadRayMath

CONSTANT SECONDS_PER_YEAR

ASSUME YearAssumption == SECONDS_PER_YEAR \in Nat \ {0}

calculateLinearInterest(rate, elapsed) ==
    RAY + (rate * elapsed) \div SECONDS_PER_YEAR

calculateCompoundedInterest(rate, elapsed) ==
    IF elapsed = 0 THEN RAY
    ELSE LET expMinusOne == elapsed - 1
             expMinusTwo == IF elapsed > 2 THEN elapsed - 2 ELSE 0
             basePowerTwo == rayMul(rate, rate) \div (SECONDS_PER_YEAR * SECONDS_PER_YEAR)
             basePowerThree == rayMul(basePowerTwo, rate) \div SECONDS_PER_YEAR
         IN  RAY + (rate * elapsed) \div SECONDS_PER_YEAR
                 + (elapsed * expMinusOne * basePowerTwo) \div 2
                 + (elapsed * expMinusOne * expMinusTwo * basePowerThree) \div 6

=============================================================================
