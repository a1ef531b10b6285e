--------------------------- MODULE ValidationLogic --------------------------
(***************************************************************************)
(* ValidationLogic.sol: what each call requires before, and in some cases  *)
(* after, it changes the state.  A failed requirement reverts the whole    *)
(* call, so a handler of Pool.tla is enabled exactly when they all hold.   *)
(* A definition introduced by "Slip:" is a plausible error in the one that *)
(* follows it, used by the mutation runs and by no action.                 *)
(***************************************************************************)
EXTENDS GenericLogic

CONSTANTS
    MaxStableLoanPercent,               \* _maxStableRateBorrowSizePercent
    CLOSE_FACTOR_HF_THRESHOLD           \* 0.95 WAD, also the
                                        \* MINIMUM_HEALTH_FACTOR_LIQUIDATION_THRESHOLD

HEALTH_FACTOR_LIQUIDATION_THRESHOLD == WAD

STABLE == "stable"
VARIABLE_ == "variable"
InterestRateModes == {STABLE, VARIABLE_}

ASSUME ValidationAssumption ==
    /\ MaxStableLoanPercent \in Nat
    /\ CLOSE_FACTOR_HF_THRESHOLD \in 1..WAD

(* Slip: a pause is not looked at.                                        *)
ActiveOnly(r) == config[r].active
Operational(r) == config[r].active /\ ~config[r].paused

(* Slip: a frozen reserve takes supplies.                                 *)
ValidateSupplyThawed(r, amount) ==
    /\ amount # 0
    /\ Operational(r)
    /\ \/ config[r].supplyCap = 0
       \/ rayMul(aTokenSupply[r] + accruedToTreasury[r], liquidityIndex[r]) + amount
            <= config[r].supplyCap * config[r].unit
ValidateSupply(r, amount) ==
    /\ amount # 0
    /\ Operational(r) /\ ~config[r].frozen
    /\ \/ config[r].supplyCap = 0
       \/ rayMul(aTokenSupply[r] + accruedToTreasury[r], liquidityIndex[r]) + amount
            <= config[r].supplyCap * config[r].unit

ValidateWithdraw(r, amount, userBalance) ==
    amount # 0 /\ amount <= userBalance /\ Operational(r)

ValidateHealthFactor(p) == HealthFactor(p) >= HEALTH_FACTOR_LIQUIDATION_THRESHOLD

(* Slip: a collateral of LTV zero does not go first.                      *)
ValidateHFOnly(p, r) == ValidateHealthFactor(p)
ValidateHFAndLtv(p, r) ==
    ValidateHealthFactor(p) /\ (HasZeroLtvCollateral(p) => config[r].ltv = 0)

WithinBorrowCap(r, amount) ==
    \/ config[r].borrowCap = 0
    \/ rayMul(variableDebtSupply[r], variableBorrowIndex[r]) + TotalStableDebt(r) + amount
         <= config[r].borrowCap * config[r].unit

(* The debt in isolation mode counts whole units of the debt ceiling.      *)
CeilingAmount(r, amount) == amount \div config[r].ceilingUnit

(* Slip: the total is compared before the borrow is added.                *)
WithinDebtCeilingBefore(u, r, amount) ==
    \A c \in Reserves : InIsolationModeOn(c, usingAsCollateral[u]) =>
        /\ config[r].borrowableInIsolation
        /\ isolationModeTotalDebt[c] <= config[c].debtCeiling
WithinDebtCeiling(u, r, amount) ==
    \A c \in Reserves : InIsolationModeOn(c, usingAsCollateral[u]) =>
        /\ config[r].borrowableInIsolation
        /\ isolationModeTotalDebt[c] + CeilingAmount(r, amount) <= config[c].debtCeiling

(* Slip: the debt there is already is left out.                           *)
CollateralCoversNewDebt(p, r, amount) ==
    LET amountInBase == (AssetPrice(p.eMode, r) * amount) \div config[r].unit
    IN  /\ TotalCollateral(p) # 0
        /\ AverageLtv(p) # 0
        /\ HealthFactor(p) > HEALTH_FACTOR_LIQUIDATION_THRESHOLD
        /\ percentDiv(amountInBase, AverageLtv(p)) <= TotalCollateral(p)
CollateralCoversBorrow(p, r, amount) ==
    LET amountInBase == (AssetPrice(p.eMode, r) * amount) \div config[r].unit
    IN  /\ TotalCollateral(p) # 0
        /\ AverageLtv(p) # 0
        /\ HealthFactor(p) > HEALTH_FACTOR_LIQUIDATION_THRESHOLD
        /\ percentDiv(TotalDebt(p) + amountInBase, AverageLtv(p)) <= TotalCollateral(p)

(* A stable debt larger than the caller's own supply of the asset, and no  *)
(* more than a share of what the reserve has available.                    *)
NotOwnCollateral(u, r, debt) ==
    \/ r \notin usingAsCollateral[u]
    \/ config[r].ltv = 0
    \/ debt > BalanceOf(u, r)

ValidateStableBorrow(u, r, amount) ==
    /\ config[r].stableBorrowingEnabled
    /\ NotOwnCollateral(u, r, amount)
    /\ amount <= percentMul(liquidity[r], MaxStableLoanPercent)

(* Slip: a siloed asset may be added to other debts.                      *)
ValidateNextToSiloed(u, r) ==
    borrowing[u] # {} /\ Siloed(borrowing[u]) => borrowing[u] = {r}
ValidateSiloedBorrow(u, r) ==
    borrowing[u] # {} =>
        IF Siloed(borrowing[u]) THEN borrowing[u] = {r}
                                ELSE ~config[r].siloedBorrowing

ValidateBorrow(u, r, amount, mode, eMode) ==
    /\ amount # 0
    /\ Operational(r) /\ ~config[r].frozen
    /\ config[r].borrowingEnabled
    /\ sentinelUp
    /\ WithinBorrowCap(r, amount)
    /\ WithinDebtCeiling(u, r, amount)
    /\ eMode # NoCategory => config[r].eModeCategory = eMode
    /\ CollateralCoversBorrow([Position(u) EXCEPT !.eMode = eMode], r, amount)
    /\ mode = STABLE => ValidateStableBorrow(u, r, amount)
    /\ ValidateSiloedBorrow(u, r)

ValidateRepay(r, amount, mode, stable, variable) ==
    /\ amount # 0
    /\ Operational(r)
    /\ IF mode = STABLE THEN stable # 0 ELSE variable # 0

ValidateSwapRateMode(u, r, mode) ==
    /\ Operational(r) /\ ~config[r].frozen
    /\ IF mode = STABLE
       THEN stableDebt[u][r] # 0
       ELSE /\ VariableDebtOf(u, r) # 0
            /\ config[r].stableBorrowingEnabled
            /\ NotOwnCollateral(u, r, DebtOf(u, r))

(* Slip: an isolated asset may join other collateral.                     *)
ValidateNotIsolated(collateral, r) ==
    config[r].ltv # 0 /\ (collateral = {} \/ ~InIsolationMode(collateral))
(* An isolated asset becomes collateral only of a user with no collateral, *)
(* and no asset joins an isolated one.                                     *)
ValidateUseAsCollateral(collateral, r) ==
    /\ config[r].ltv # 0
    /\ \/ collateral = {}
       \/ ~InIsolationMode(collateral) /\ config[r].debtCeiling = 0

(* Collateral switched on as a side effect of a call by "sender".          *)
ValidateAutomaticUseAsCollateral(collateral, r, sender) ==
    /\ config[r].debtCeiling # 0 => sender \in IsolatedSuppliers
    /\ ValidateUseAsCollateral(collateral, r)

(* Slip: the debts are not looked at.                                     *)
ValidateCategoryOnly(u, categoryId) ==
    categoryId # NoCategory => eModeCategories[categoryId].liquidationThreshold # 0
ValidateSetUserEMode(u, categoryId) ==
    categoryId # NoCategory =>
        /\ eModeCategories[categoryId].liquidationThreshold # 0
        /\ \A r \in borrowing[u] : config[r].eModeCategory = categoryId

ValidateLiquidationCall(u, rc, rd) ==
    /\ rc \in usingAsCollateral[u]
    /\ config[rc].liquidationThreshold # 0
    /\ DebtOf(u, rd) # 0
    /\ Operational(rc) /\ Operational(rd)
    /\ HealthFactor(Position(u)) < HEALTH_FACTOR_LIQUIDATION_THRESHOLD
    /\ sentinelUp \/ HealthFactor(Position(u)) < CLOSE_FACTOR_HF_THRESHOLD

=============================================================================
