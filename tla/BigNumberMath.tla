--------------------------- MODULE BigNumberMath ---------------------------
(***************************************************************************)
(* The arithmetic of the test oracle: ethers' BigNumber with the methods   *)
(* helpers/utils/wadraymath.ts adds to it.  It is the contracts' fixed     *)
(* point (WadRayMath) on numbers that may be negative, whose division      *)
(* truncates towards zero where TLA+'s rounds down.                        *)
(***************************************************************************)
EXTENDS Integers

CONSTANTS
    RAY,                \* one, on the scale of indices and rates
    WAD,                \* one, on the scale of amounts
    PERCENTAGE_FACTOR   \* 100%

Magnitude(a) == IF a < 0 THEN -a ELSE a

(* BigNumber.div.                                                          *)
div(a, b) == (Magnitude(a) \div Magnitude(b)) * (IF (a < 0) = (b < 0) THEN 1 ELSE -1)

rayMul(a, b) == div(div(RAY, 2) + a * b, RAY)
rayDiv(a, b) == div(div(b, 2) + a * RAY, b)
percentMul(a, bps) == div(div(PERCENTAGE_FACTOR, 2) + a * bps, PERCENTAGE_FACTOR)

wadToRay(a) == a * div(RAY, WAD)

=============================================================================
