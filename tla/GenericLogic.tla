---------------------------- MODULE GenericLogic ----------------------------
(***************************************************************************)
(* GenericLogic.calculateUserAccountData: the value of a position and its  *)
(* health factor.  A position is passed as a record, because handlers ask  *)
(* for the health of states between two of their writes:                   *)
(*   [collateral, borrowing : sets of reserves, eMode : category,          *)
(*    balance, debt : amounts per reserve]                                 *)
(* A user without any flag needs no case of its own: every sum is over an  *)
(* empty set, the debt is 0 and the health factor is the largest uint256.  *)
(***************************************************************************)
EXTENDS PoolStorage

Position(u) ==
    [collateral |-> usingAsCollateral[u],
     borrowing  |-> borrowing[u],
     eMode      |-> eModeCategory[u],
     balance    |-> [r \in Reserves |-> BalanceOf(u, r)],
     debt       |-> [r \in Reserves |-> DebtOf(u, r)]]

IsInEModeCategory(eMode, r) == eMode # NoCategory /\ config[r].eModeCategory = eMode

HasPriceSource(eMode) ==
    eMode # NoCategory /\ eModeCategories[eMode].priceSource # NoAsset

AssetPrice(eMode, r) ==
    IF HasPriceSource(eMode) /\ IsInEModeCategory(eMode, r)
    THEN price[eModeCategories[eMode].priceSource]
    ELSE price[r]

Ltv(eMode, r) ==
    IF IsInEModeCategory(eMode, r) THEN eModeCategories[eMode].ltv
                                   ELSE config[r].ltv

LiquidationThreshold(eMode, r) ==
    IF IsInEModeCategory(eMode, r) THEN eModeCategories[eMode].liquidationThreshold
                                   ELSE config[r].liquidationThreshold

(* Collateral counts while its own liquidation threshold is not zero, debt *)
(* counts while its borrowing flag is set.                                 *)
CountedCollateral(p) == {r \in p.collateral : config[r].liquidationThreshold # 0}

BalanceInBase(p, r) == (p.balance[r] * AssetPrice(p.eMode, r)) \div config[r].unit
DebtInBase(p, r)    == (p.debt[r] * AssetPrice(p.eMode, r)) \div config[r].unit

TotalCollateral(p) == MapThenSumSet(LAMBDA r : BalanceInBase(p, r), CountedCollateral(p))
TotalDebt(p)       == MapThenSumSet(LAMBDA r : DebtInBase(p, r), p.borrowing)

(* The average over the collateral, weighted by value and rounded down.    *)
Average(p, Rate(_)) ==
    LET total == TotalCollateral(p)
    IN  IF total = 0 THEN 0
        ELSE MapThenSumSet(LAMBDA r : BalanceInBase(p, r) * Rate(r),
                           CountedCollateral(p)) \div total

AverageLtv(p) ==
    Average(p, LAMBDA r : IF config[r].ltv = 0 THEN 0 ELSE Ltv(p.eMode, r))
AverageLiquidationThreshold(p) ==
    Average(p, LAMBDA r : LiquidationThreshold(p.eMode, r))

HasZeroLtvCollateral(p) == \E r \in CountedCollateral(p) : config[r].ltv = 0

HealthFactor(p) ==
    IF TotalDebt(p) = 0 THEN MaxUint256
    ELSE wadDiv(percentMul(TotalCollateral(p), AverageLiquidationThreshold(p)),
                TotalDebt(p))

=============================================================================
