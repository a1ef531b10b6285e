---------------------------- MODULE Calculations ----------------------------
(***************************************************************************)
(* The test oracle, helpers/utils/calculations.ts: from what was read of a *)
(* reserve and of a user before a transaction, and the time it was mined   *)
(* at, what must be read of them after it.  It is written independently of *)
(* the contracts, in BigNumber, and is the specification the scenario      *)
(* tests hold them to (the module Scenario).                               *)
(*                                                                         *)
(* The records are ReserveData and UserReserveData of                      *)
(* utils/interfaces/index.ts, without the fields that name the reserve.    *)
(* The TypeScript fills an empty record; here the expected record is the   *)
(* one read before with the fields the function assigns replaced.          *)
(***************************************************************************)
EXTENDS BigNumberMath

CONSTANTS
    ONE_YEAR,           \* in units of time
    MAX_UINT_AMOUNT,    \* stands for "all of it"
    (* reservesParams: what the market was deployed with                   *)
    OPTIMAL_USAGE_RATIO, OPTIMAL_STABLE_TO_TOTAL_DEBT_RATIO,
    BaseVariableBorrowRate, VariableRateSlope1, VariableRateSlope2,
    StableRateSlope1, StableRateSlope2, StableRateExcessOffset,
    marketStableRate,   \* the strategy's base stable rate
    reserveFactor

Stable == "1"       \* RateMode
Variable == "2"

-----------------------------------------------------------------------------
(* Interest and indices.                                                   *)

calcLinearInterest(rate, current, last) == div(rate * (current - last), ONE_YEAR) + RAY

(* Three terms of the binomial expansion.                                  *)
Compounded(rate, elapsed, basePowerTwo) ==
    LET expMinusOne == elapsed - 1
        expMinusTwo == IF elapsed > 2 THEN elapsed - 2 ELSE 0
        basePowerThree == div(rayMul(basePowerTwo, rate), ONE_YEAR)
    IN  RAY + div(rate * elapsed, ONE_YEAR)
            + div(elapsed * expMinusOne * basePowerTwo, 2)
            + div(elapsed * expMinusOne * expMinusTwo * basePowerThree, 6)

calcCompoundedInterest(rate, current, last) ==
    IF current = last THEN RAY
    ELSE Compounded(rate, current - last, div(rayMul(rate, rate), ONE_YEAR * ONE_YEAR))

calcExpectedReserveNormalizedIncome(d, current) ==
    IF d.liquidityRate = 0 THEN d.liquidityIndex
    ELSE rayMul(calcLinearInterest(d.liquidityRate, current, d.lastUpdateTimestamp),
                d.liquidityIndex)

calcExpectedReserveNormalizedDebt(rate, index, last, current) ==
    IF rate = 0 THEN index ELSE rayMul(calcCompoundedInterest(rate, current, last), index)

(* The indices to be stored: keyed on the usage and on the total owed,     *)
(* where the contract keys on the rate and on the scaled total.            *)
calcExpectedLiquidityIndex(d, at) ==
    IF d.supplyUsageRatio = 0 THEN d.liquidityIndex
    ELSE rayMul(calcLinearInterest(d.liquidityRate, at, d.lastUpdateTimestamp),
                d.liquidityIndex)

calcExpectedVariableBorrowIndex(d, at) ==
    IF d.totalVariableDebt = 0 THEN d.variableBorrowIndex
    ELSE rayMul(calcCompoundedInterest(d.variableBorrowRate, at, d.lastUpdateTimestamp),
                d.variableBorrowIndex)

-----------------------------------------------------------------------------
(* Balances.                                                               *)

calcExpectedATokenBalance(d, user, current) ==
    rayMul(user.scaledATokenBalance, calcExpectedReserveNormalizedIncome(d, current))

calcExpectedScaledATokenBalance(user, index, added, taken) ==
    user.scaledATokenBalance + rayDiv(added, index) - rayDiv(taken, index)

calcExpectedVariableDebtTokenBalance(d, user, current) ==
    rayMul(user.scaledVariableDebt,
           calcExpectedReserveNormalizedDebt(d.variableBorrowRate, d.variableBorrowIndex,
                                             d.lastUpdateTimestamp, current))

calcExpectedStableDebtTokenBalance(principal, rate, last, current) ==
    IF rate = 0 \/ current = last \/ last = 0 THEN principal
    ELSE rayMul(principal, calcCompoundedInterest(rate, current, last))

(* Of a user, as read in u.                                                *)
StableDebtOf(u, current) ==
    calcExpectedStableDebtTokenBalance(u.principalStableDebt, u.stableBorrowRate,
                                       u.stableRateLastUpdated, current)

calcExpectedTotalStableDebt(principal, averageRate, last, current) ==
    rayMul(calcCompoundedInterest(averageRate, current, last), principal)

TotalStableDebtAt(d, current) ==
    calcExpectedTotalStableDebt(d.principalStableDebt, d.averageStableBorrowRate,
                                d.totalStableDebtLastUpdated, current)

-----------------------------------------------------------------------------
(* Rates.                                                                  *)

calcExpectedAverageStableBorrowRate(averageBefore, totalBefore, changed, rate) ==
    LET total == totalBefore + changed
    IN  IF total = 0 THEN 0 ELSE div(averageBefore * totalBefore + rate * changed, total)

(* The total in wad, what leaves or joins it in ray.                       *)
calcExpectedAverageStableBorrowRateRebalance(averageBefore, totalBefore, changed, rate) ==
    LET total == totalBefore + wadToRay(changed)
    IN  IF total = 0 THEN 0
        ELSE rayDiv(rayMul(averageBefore, totalBefore) + rayMul(rate, wadToRay(changed)), total)

calcExpectedUserStableRate(balanceBefore, rateBefore, amount, rateNew) ==
    div(balanceBefore * rateBefore + amount * rateNew, balanceBefore + amount)

calcExpectedOverallBorrowRate(stable, variable, variableRate, averageStableRate) ==
    IF stable + variable = 0 THEN 0
    ELSE rayDiv(rayMul(wadToRay(variable), variableRate)
                  + rayMul(wadToRay(stable), averageStableRate),
                wadToRay(stable + variable))

calcExpectedUsageRatios(stable, variable, available, liquidity) ==
    LET debt == stable + variable
    IN  [borrow |-> IF debt = 0 THEN 0 ELSE rayDiv(debt, available + debt),
         supply |-> IF debt = 0 THEN 0 ELSE rayDiv(debt, liquidity + debt)]

(* How far a ratio is past its optimum, of the way from there to one.      *)
Excess(ratio, optimal) == rayDiv(ratio - optimal, RAY - optimal)

(* A rate climbs slowly up to the optimal usage, steeply from there on.    *)
Climb(usage, slope1, slope2) ==
    IF usage > OPTIMAL_USAGE_RATIO
    THEN slope1 + rayMul(slope2, Excess(usage, OPTIMAL_USAGE_RATIO))
    ELSE rayDiv(rayMul(slope1, usage), OPTIMAL_USAGE_RATIO)

(* What is added to the stable rate when too much of the debt is stable.   *)
StablePremium(toTotal) ==
    IF toTotal > OPTIMAL_STABLE_TO_TOTAL_DEBT_RATIO
    THEN rayMul(StableRateExcessOffset, Excess(toTotal, OPTIMAL_STABLE_TO_TOTAL_DEBT_RATIO))
    ELSE 0

RatesAt(usage, variableRate, stable, variable, averageStableRate) ==
    [liquidityRate |->
         percentMul(rayMul(calcExpectedOverallBorrowRate(stable, variable, variableRate,
                                                         averageStableRate),
                           usage.supply),
                    PERCENTAGE_FACTOR - reserveFactor),
     stableRate |->
         marketStableRate + Climb(usage.borrow, StableRateSlope1, StableRateSlope2)
           + StablePremium(IF stable > 0 THEN rayDiv(stable, stable + variable) ELSE 0),
     variableRate |-> variableRate]

calcExpectedInterestRates(stable, variable, averageStableRate, available, liquidity) ==
    LET usage == calcExpectedUsageRatios(stable, variable, available, liquidity)
    IN  RatesAt(usage,
                BaseVariableBorrowRate
                  + Climb(usage.borrow, VariableRateSlope1, VariableRateSlope2),
                stable, variable, averageStableRate)

-----------------------------------------------------------------------------
(* What every transaction does to a reserve.                               *)

(* Interest since the last update, to the treasury: "next" has the indices *)
(* and the total debts of the transaction.                                 *)
DebtAccrued(d, next) ==
    LET stableAtLastUpdate ==
            rayMul(d.principalStableDebt,
                   calcCompoundedInterest(d.averageStableBorrowRate, d.lastUpdateTimestamp,
                                          d.totalStableDebtLastUpdated))
    IN  rayMul(d.scaledVariableDebt, next.variableBorrowIndex) + next.totalStableDebt
          - rayMul(d.scaledVariableDebt, d.variableBorrowIndex) - stableAtLastUpdate

calcExpectedAccrueToTreasury(d, next) ==
    LET amountToMint == percentMul(DebtAccrued(d, next), reserveFactor)
    IN  IF reserveFactor # 0 /\ amountToMint > 0
        THEN d.accruedToTreasuryScaled + rayDiv(amountToMint, next.liquidityIndex)
        ELSE d.accruedToTreasuryScaled

Accrued(d, next) ==
    [next EXCEPT !.accruedToTreasuryScaled = calcExpectedAccrueToTreasury(d, next)]

updateState(d, at) ==
    LET index == calcExpectedVariableBorrowIndex(d, at)
    IN  Accrued(d, [d EXCEPT !.liquidityIndex = calcExpectedLiquidityIndex(d, at),
                             !.variableBorrowIndex = index,
                             !.totalStableDebt = TotalStableDebtAt(d, at),
                             !.totalVariableDebt = rayMul(d.scaledVariableDebt, index)])

updateTotalLiquidityAndUsageRatio(d) ==
    LET liquidity == d.availableLiquidity + d.unbacked
        usage == calcExpectedUsageRatios(d.totalStableDebt, d.totalVariableDebt,
                                         d.availableLiquidity, liquidity)
    IN  [d EXCEPT !.totalLiquidity = liquidity,
                  !.borrowUsageRatio = usage.borrow, !.supplyUsageRatio = usage.supply]

updateLiquidityAndUsageRatios(d, added, taken) ==
    updateTotalLiquidityAndUsageRatio([d EXCEPT !.availableLiquidity = @ + added - taken])

(* New rates on these totals of debt.                                      *)
Rated(d, rates) ==
    [d EXCEPT !.liquidityRate = rates.liquidityRate,
              !.stableBorrowRate = rates.stableRate,
              !.variableBorrowRate = rates.variableRate]
RatesOn(d, stable, variable) ==
    Rated(d, calcExpectedInterestRates(stable, variable, d.averageStableBorrowRate,
                                       d.availableLiquidity, d.totalLiquidity))

(* How most transactions end: rates on the debts expected, then ratios.    *)
Concluded(d) ==
    updateTotalLiquidityAndUsageRatio(RatesOn(d, d.totalStableDebt, d.totalVariableDebt))

-----------------------------------------------------------------------------
(* A reserve, per transaction.  "d" was read before it, "at" is its block. *)

calcExpectedReserveDataAfterDeposit(amount, d, at) ==
    Concluded(updateLiquidityAndUsageRatios(updateState(d, at), amount, 0))

(* Nothing joins the average: it is the old one, or 0 over no debt.        *)
AverageOverOldTotal(d) ==
    calcExpectedAverageStableBorrowRate(d.averageStableBorrowRate, d.totalStableDebt, 0,
                                        d.stableBorrowRate)

calcExpectedReserveDataAfterMintUnbacked(amount, d, at) ==
    Concluded([updateLiquidityAndUsageRatios([updateState(d, at) EXCEPT !.unbacked = @ + amount],
                                             0, 0)
               EXCEPT !.averageStableBorrowRate = AverageOverOldTotal(d)])

(* The suppliers' part of the fee raises their index.                      *)
IndexWithFee(fee, aTokenSupply, accrued) ==
    LET claims == rayMul(aTokenSupply, accrued.liquidityIndex)
                    + rayMul(accrued.accruedToTreasuryScaled, accrued.liquidityIndex)
    IN  rayMul(rayDiv(wadToRay(fee), wadToRay(claims)) + RAY, accrued.liquidityIndex)

BackedTo(accrued, index, backing, fee, toProtocol) ==
    updateLiquidityAndUsageRatios(
        [accrued EXCEPT !.liquidityIndex = index,
                        !.accruedToTreasuryScaled = @ + rayDiv(toProtocol, index),
                        !.unbacked = @ - backing],
        backing + fee, 0)

calcExpectedReserveDataAfterBackUnbacked(aTokenSupply, amount, fee, bridgeProtocolFee, d, at) ==
    LET accrued == updateState(d, at)
        backing == IF amount < d.unbacked THEN amount ELSE d.unbacked
        toProtocol == percentMul(fee, bridgeProtocolFee)
    IN  Concluded([BackedTo(accrued, IndexWithFee(fee - toProtocol, aTokenSupply, accrued),
                            backing, fee, toProtocol)
                   EXCEPT !.averageStableBorrowRate = AverageOverOldTotal(d)])

calcExpectedReserveDataAfterWithdraw(amount, d, user, at) ==
    LET withdrawn == IF amount = MAX_UINT_AMOUNT THEN calcExpectedATokenBalance(d, user, at)
                     ELSE amount
    IN  Concluded(updateLiquidityAndUsageRatios(updateState(d, at), 0, withdrawn))

(* At a stable rate the debt joins the total of the transaction's block.   *)
BorrowedAtStable(updated, until, amount, rate) ==
    RatesOn([updated EXCEPT
                !.principalStableDebt = until + amount,
                !.averageStableBorrowRate =
                    calcExpectedAverageStableBorrowRate(@, until, amount, rate)],
            until + amount, updated.totalVariableDebt)

BorrowedAtVariable(updated, until, scaled) ==
    RatesOn([updated EXCEPT !.scaledVariableDebt = scaled],
            until, rayMul(scaled, updated.variableBorrowIndex))

(* The debts as read at "current".                                         *)
DebtsReadAt(d, stableSince, at, current) ==
    [d EXCEPT
        !.totalStableDebt =
            calcExpectedTotalStableDebt(d.principalStableDebt, d.averageStableBorrowRate,
                                        stableSince, current),
        !.totalVariableDebt =
            rayMul(d.scaledVariableDebt,
                   calcExpectedReserveNormalizedDebt(d.variableBorrowRate, d.variableBorrowIndex,
                                                     at, current))]

(* Read again at "current", which may be long after the transaction.       *)
calcExpectedReserveDataAfterBorrow(amount, mode, d, at, current) ==
    LET updated == [updateLiquidityAndUsageRatios(updateState(d, at), 0, amount)
                    EXCEPT !.lastUpdateTimestamp = at]
        ofTotal == [principalStableDebt |-> d.principalStableDebt,
                    stableBorrowRate |-> d.averageStableBorrowRate,
                    stableRateLastUpdated |-> d.totalStableDebtLastUpdated]
        rated ==
            IF mode = Stable
            THEN BorrowedAtStable(updated, TotalStableDebtAt(d, at), amount, d.stableBorrowRate)
            ELSE BorrowedAtVariable(
                     updated, StableDebtOf(ofTotal, at),
                     d.scaledVariableDebt + rayDiv(amount, updated.variableBorrowIndex))
        stableSince == IF mode = Stable THEN at ELSE d.totalStableDebtLastUpdated
    IN  updateTotalLiquidityAndUsageRatio(DebtsReadAt(rated, stableSince, at, current))

(* What "everything" means to a repayment in this mode.                    *)
Repaid(amount, mode, stableDebt, variableDebt) ==
    IF amount # MAX_UINT_AMOUNT THEN amount
    ELSE IF mode = Stable THEN stableDebt ELSE variableDebt

(* The total without a debt: accumulated errors may have made it smaller   *)
(* than what is taken off, or its average negative; both are erased.       *)
StableDebtLeft(d, left, average) ==
    LET erased == left < 0 \/ average < 0
    IN  [d EXCEPT !.principalStableDebt = IF erased THEN 0 ELSE left,
                  !.totalStableDebt = IF erased THEN 0 ELSE left,
                  !.averageStableBorrowRate = IF erased THEN 0 ELSE average]
WithoutStableDebt(d, total, repaid, rate) ==
    StableDebtLeft(d, total - repaid,
                   calcExpectedAverageStableBorrowRate(d.averageStableBorrowRate, total,
                                                       -repaid, rate))

WithScaledVariableDebt(d, scaled) ==
    [d EXCEPT !.scaledVariableDebt = scaled,
              !.totalVariableDebt = rayMul(scaled, d.variableBorrowIndex)]

RepaidTo(updated, repaid, mode, d, user, at) ==
    IF mode = Stable
    THEN WithoutStableDebt(updated, TotalStableDebtAt(d, at), repaid, user.stableBorrowRate)
    ELSE WithScaledVariableDebt(
             updated, d.scaledVariableDebt - rayDiv(repaid, updated.variableBorrowIndex))

calcExpectedReserveDataAfterRepay(amount, mode, d, user, at) ==
    LET repaid == Repaid(amount, mode, StableDebtOf(user, at),
                         calcExpectedVariableDebtTokenBalance(d, user, at))
        updated == updateLiquidityAndUsageRatios(updateState(d, at), repaid, 0)
    IN  Concluded(RepaidTo(updated, repaid, mode, d, user, at))

(* A debt changes modes.  Into stable, it joins an average over the total  *)
(* that was read before the transaction.                                   *)
SwappedToVariable(updated, debt, rate) ==
    WithScaledVariableDebt(
        [updated EXCEPT
            !.principalStableDebt = updated.totalStableDebt - debt,
            !.totalStableDebt = @ - debt,
            !.averageStableBorrowRate =
                calcExpectedAverageStableBorrowRate(@, updated.totalStableDebt, -debt, rate)],
        updated.scaledVariableDebt + rayDiv(debt, updated.variableBorrowIndex))

SwappedToStable(updated, debt, d) ==
    WithScaledVariableDebt(
        [updated EXCEPT
            !.principalStableDebt = updated.totalStableDebt + debt,
            !.totalStableDebt = @ + debt,
            !.averageStableBorrowRate =
                calcExpectedAverageStableBorrowRate(@, d.totalStableDebt, debt,
                                                    d.stableBorrowRate)],
        updated.scaledVariableDebt - rayDiv(debt, updated.variableBorrowIndex))

(* "mode" is the one left.                                                 *)
calcExpectedReserveDataAfterSwapRateMode(d, user, mode, at) ==
    LET updated == updateLiquidityAndUsageRatios(updateState(d, at), 0, 0)
    IN  Concluded(
            IF mode = Stable
            THEN SwappedToVariable(updated, StableDebtOf(user, at), user.stableBorrowRate)
            ELSE SwappedToStable(updated, calcExpectedVariableDebtTokenBalance(d, user, at), d))

(* The debt leaves the average at the user's rate and joins it again.      *)
RebalancedAverage(d, total, debt, rate) ==
    calcExpectedAverageStableBorrowRateRebalance(
        calcExpectedAverageStableBorrowRateRebalance(d.averageStableBorrowRate, total, -debt, rate),
        total - debt, debt, d.stableBorrowRate)

calcExpectedReserveDataAfterStableRateRebalance(d, user, at) ==
    LET total == TotalStableDebtAt(d, at)
    IN  Concluded([updateLiquidityAndUsageRatios(updateState(d, at), 0, 0) EXCEPT
                      !.principalStableDebt = total,
                      !.totalStableDebt = total,
                      !.averageStableBorrowRate =
                          RebalancedAverage(d, total, StableDebtOf(user, at),
                                            user.stableBorrowRate)])

-----------------------------------------------------------------------------
(* A user, per transaction.  "d" and "u" were read before it, "after" is   *)
(* what is expected of the reserve.                                        *)

(* The debts and the income as of the transaction, nothing else changed.   *)
Caught(d, after, u, at) ==
    [u EXCEPT !.currentStableDebt = StableDebtOf(u, at),
              !.currentVariableDebt = calcExpectedVariableDebtTokenBalance(d, u, at),
              !.currentATokenBalance = calcExpectedATokenBalance(d, u, at),
              !.liquidityRate = after.liquidityRate]

(* The principal is assigned twice; the debt in variable mode is left.     *)
calcExpectedUserDataAfterDeposit(amount, d, after, u, at) ==
    [Caught(d, after, u, at) EXCEPT
        !.scaledATokenBalance =
            calcExpectedScaledATokenBalance(u, after.liquidityIndex, amount, 0),
        !.currentATokenBalance = @ + amount,
        !.usageAsCollateralEnabled = @ \/ u.currentATokenBalance = 0,
        !.walletBalance = @ - amount,
        !.principalStableDebt = calcExpectedVariableDebtTokenBalance(d, u, at)]

calcExpectedUserDataAfterWithdraw(amount, d, after, u, at) ==
    LET balance == calcExpectedATokenBalance(d, u, at)
        withdrawn == IF amount = MAX_UINT_AMOUNT THEN balance ELSE amount
    IN  [Caught(d, after, u, at) EXCEPT
            !.scaledATokenBalance =
                calcExpectedScaledATokenBalance(u, after.liquidityIndex, 0, withdrawn),
            !.currentATokenBalance = balance - withdrawn,
            !.usageAsCollateralEnabled =
                u.currentATokenBalance = 0 \/ (@ /\ balance # withdrawn),
            !.walletBalance = @ + withdrawn]

(* In variable mode the debt joins the reserve's scaled total.             *)
calcExpectedUserDataAfterBorrow(amount, mode, d, after, u, at, current) ==
    LET until == StableDebtOf(u, at)
        borrowed ==
            IF mode = Stable
            THEN [u EXCEPT !.principalStableDebt = until + amount,
                           !.stableBorrowRate =
                               calcExpectedUserStableRate(until, @, amount, d.stableBorrowRate),
                           !.stableRateLastUpdated = at]
            ELSE [u EXCEPT !.scaledVariableDebt =
                               d.scaledVariableDebt + rayDiv(amount, after.variableBorrowIndex)]
    IN  [Caught(after, after, borrowed, current) EXCEPT !.walletBalance = @ + amount]

(* In variable mode the two views of the stable debt change places.        *)
calcExpectedUserDataAfterRepay(amount, mode, d, after, u, ownWallet, at, current) ==
    LET variableDebt == calcExpectedVariableDebtTokenBalance(d, u, current)
        stableDebt == StableDebtOf(u, current)
        repaid == Repaid(amount, mode, stableDebt, variableDebt)
        left == stableDebt - repaid
        scaled == u.scaledVariableDebt - rayDiv(repaid, after.variableBorrowIndex)
        relieved ==
            IF mode = Stable
            THEN [u EXCEPT !.principalStableDebt = left,
                           !.currentStableDebt = left,
                           !.currentVariableDebt = variableDebt,
                           !.stableBorrowRate = IF left = 0 THEN 0 ELSE @,
                           !.stableRateLastUpdated = IF left = 0 THEN 0 ELSE at]
            ELSE [u EXCEPT !.currentStableDebt = u.principalStableDebt,
                           !.principalStableDebt = stableDebt,
                           !.scaledVariableDebt = scaled,
                           !.currentVariableDebt = rayMul(scaled, after.variableBorrowIndex)]
    IN  [relieved EXCEPT !.liquidityRate = after.liquidityRate,
                         !.currentATokenBalance = calcExpectedATokenBalance(d, u, at),
                         !.walletBalance = IF ownWallet THEN @ - repaid ELSE @]

calcExpectedUserDataAfterSetUseAsCollateral(useAsCollateral, u) ==
    [u EXCEPT !.usageAsCollateralEnabled = useAsCollateral]

(* Into stable, the new debt joins the stable debt that was read before.   *)
calcExpectedUserDataAfterSwapRateMode(d, after, u, mode, at) ==
    LET stableDebt == StableDebtOf(u, at)
        variableDebt == calcExpectedVariableDebtTokenBalance(d, u, at)
        scaled == u.scaledVariableDebt + rayDiv(stableDebt, after.variableBorrowIndex)
        joined == u.currentStableDebt + variableDebt
        swapped ==
            IF mode = Stable
            THEN [u EXCEPT !.currentStableDebt = 0, !.principalStableDebt = 0,
                           !.stableBorrowRate = 0, !.stableRateLastUpdated = 0,
                           !.scaledVariableDebt = scaled,
                           !.currentVariableDebt = rayMul(scaled, after.variableBorrowIndex)]
            ELSE [u EXCEPT !.currentStableDebt = joined, !.principalStableDebt = joined,
                           !.stableBorrowRate =
                               calcExpectedUserStableRate(stableDebt, @, variableDebt,
                                                          d.stableBorrowRate),
                           !.stableRateLastUpdated = at,
                           !.scaledVariableDebt = 0, !.currentVariableDebt = 0]
    IN  [swapped EXCEPT !.liquidityRate = after.liquidityRate,
                        !.currentATokenBalance = calcExpectedATokenBalance(d, u, at)]

(* The user's rate is the average of the reserve.                          *)
calcExpectedUserDataAfterStableRateRebalance(d, after, u, at) ==
    [Caught(d, after, u, at) EXCEPT
        !.principalStableDebt = StableDebtOf(u, at),
        !.stableRateLastUpdated = at,
        !.stableBorrowRate = after.averageStableBorrowRate]

=============================================================================
