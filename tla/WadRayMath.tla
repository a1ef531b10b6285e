----------------------------- MODULE WadRayMath -----------------------------
(***************************************************************************)
(* The fixed-point arithmetic every amount of the protocol goes through:   *)
(* libraries/math/WadRayMath.sol and libraries/math/PercentageMath.sol.    *)
(*                                                                         *)
(* The scales are constants, so that TLC can work with small ones and the  *)
(* theorems hold for 10^27, 10^18 and 10^4.  Every operation rounds half   *)
(* up, as the Solidity does.  The Solidity reverts when an intermediate    *)
(* product passes 2^256; the modules that use these operators bound their  *)
(* values far below that (uint128 balances and indices), so the revert is  *)
(* not modelled.  A division by zero reverts: callers state it in a guard. *)
(***************************************************************************)
EXTENDS Integers

CONSTANTS
    RAY,                \* one, on the scale of indices and rates
    WAD,                \* one, on the scale of health factors
    PERCENTAGE_FACTOR   \* 100%, on the scale of LTVs, thresholds and fees

ASSUME ScaleAssumption ==
    /\ RAY \in Nat \ {0} /\ RAY % 2 = 0
    /\ WAD \in Nat \ {0} /\ WAD % 2 = 0
    /\ PERCENTAGE_FACTOR \in Nat \ {0} /\ PERCENTAGE_FACTOR % 2 = 0

HALF_RAY == RAY \div 2
HALF_PERCENTAGE_FACTOR == PERCENTAGE_FACTOR \div 2

(* Wad to ray loses nothing: the ratio of the scales is whole.             *)
WAD_RAY_RATIO == RAY \div WAD
wadToRay(a) == a * WAD_RAY_RATIO

rayMul(a, b) == (a * b + HALF_RAY) \div RAY
rayDiv(a, b) == (a * RAY + b \div 2) \div b
(* What a scaled balance may gain or lose, in units of the asset, when an  *)
(* amount is written to it: nothing at an index of one ray.                *)
Rounding(index) == (index - 1) \div RAY

wadDiv(a, b) == (a * WAD + b \div 2) \div b

percentMul(value, percentage) ==
    (value * percentage + HALF_PERCENTAGE_FACTOR) \div PERCENTAGE_FACTOR

percentDiv(value, percentage) ==
    (value * PERCENTAGE_FACTOR + percentage \div 2) \div percentage

=============================================================================
