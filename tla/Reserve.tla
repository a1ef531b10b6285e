------------------------------ MODULE Reserve ------------------------------
(***************************************************************************)
(* One reserve with its clock: ReserveLogic.sol, the rates of its strategy *)
(* and its stable debt token.  The indices are stored as of the reserve's  *)
(* last update and caught up lazily, the rates hold from one call to the   *)
(* next.  The module Pool replaces all of this by indices that grow by     *)
(* themselves; AccruedIndices is what it relies on.                        *)
(*                                                                         *)
(* Accounts are left out but for the debtors of the stable token: supplies *)
(* and variable debts are kept as the tokens' scaled totals.  So are the   *)
(* checks of ValidationLogic, which the module Pool makes.                 *)
(***************************************************************************)
EXTENDS StableDebtToken, InterestRateStrategy

CONSTANTS
    reserveFactor,      \* of the configuration
    MaxLiquidity        \* bound: what the aToken may hold

ASSUME ReserveAssumption ==
    /\ reserveFactor \in 0..PERCENTAGE_FACTOR
    /\ MaxLiquidity \in Nat

VARIABLE reserve

reserveVars == <<tokenVars, reserve>>

ReserveData ==
    [liquidityIndex : Nat, variableBorrowIndex : Nat,
     currentLiquidityRate : Nat, currentVariableBorrowRate : Nat,
     currentStableBorrowRate : Nat,
     lastUpdateTimestamp : Nat,
     accruedToTreasury : Nat,       \* scaled
     unbacked : Nat,
     scaledSupply : Nat,            \* of the aToken
     scaledVariableDebt : Nat,      \* of the variable debt token
     liquidity : Nat]               \* underlying held by the aToken

-----------------------------------------------------------------------------
(* Catching up with the block.                                             *)

Elapsed(r) == now - r.lastUpdateTimestamp

getNormalizedIncome(r) ==
    rayMul(calculateLinearInterest(r.currentLiquidityRate, Elapsed(r)), r.liquidityIndex)
getNormalizedDebt(r) ==
    rayMul(calculateCompoundedInterest(r.currentVariableBorrowRate, Elapsed(r)),
           r.variableBorrowIndex)

(* The stored index moves only under a rate, and only under a debt.        *)
(* The first definition is a slip, which trusts the rate in both.          *)
NextIndexWhateverIsOwed(r) ==
    IF r.currentVariableBorrowRate = 0 THEN r.variableBorrowIndex ELSE getNormalizedDebt(r)
NextLiquidityIndex(r) ==
    IF r.currentLiquidityRate = 0 THEN r.liquidityIndex ELSE getNormalizedIncome(r)
NextVariableBorrowIndex(r) ==
    IF r.scaledVariableDebt = 0 THEN r.variableBorrowIndex ELSE getNormalizedDebt(r)

(* Slip: the total of the stable debt's last update is taken for that of   *)
(* the reserve's, whose interest has been charged since.                   *)
StableDebtAtTokenUpdate(r, t) == t.supply
(* The total stable debt as of the reserve's last update.                  *)
StableDebtAtLastUpdate(r, t) ==
    rayMul(t.supply,
           calculateCompoundedInterest(t.avgStableRate,
                                       r.lastUpdateTimestamp - t.supplyTimestamp))

(* Slip: the stable debt's current total is taken without its interest.    *)
DebtAccruedOnPrincipal(r, t) ==
    rayMul(r.scaledVariableDebt, NextVariableBorrowIndex(r)) + t.supply
      - rayMul(r.scaledVariableDebt, r.variableBorrowIndex) - StableDebtAtLastUpdate(r, t)
(* Interest charged since the last update.                                 *)
DebtAccrued(r, t) ==
    rayMul(r.scaledVariableDebt, NextVariableBorrowIndex(r)) + StableTotalSupply(t)
      - rayMul(r.scaledVariableDebt, r.variableBorrowIndex) - StableDebtAtLastUpdate(r, t)

TreasuryShare(r, t) ==
    IF reserveFactor = 0 THEN 0
    ELSE rayDiv(percentMul(DebtAccrued(r, t), reserveFactor), NextLiquidityIndex(r))

(* updateState: nothing to do twice in one block.                          *)
UpToDate(r, t) ==
    IF r.lastUpdateTimestamp = now THEN r
    ELSE [r EXCEPT !.liquidityIndex = NextLiquidityIndex(r),
                   !.variableBorrowIndex = NextVariableBorrowIndex(r),
                   !.accruedToTreasury = @ + TreasuryShare(r, t),
                   !.lastUpdateTimestamp = now]

(* updateInterestRates, on balances the call has already changed.  The     *)
(* stable total and average are what the token reported to the call, or    *)
(* what it reports now.                                                    *)
Borrowed(r, stable, averageStableRate) ==
    [available |-> r.liquidity, unbacked |-> r.unbacked, stable |-> stable,
     variable |-> rayMul(r.scaledVariableDebt, r.variableBorrowIndex),
     averageStableRate |-> averageStableRate, reserveFactor |-> reserveFactor]

Rated(r, stable, averageStableRate) ==
    LET rates == calculateInterestRates(Borrowed(r, stable, averageStableRate))
    IN  [r EXCEPT !.currentLiquidityRate = rates.liquidityRate,
                  !.currentStableBorrowRate = rates.stableRate,
                  !.currentVariableBorrowRate = rates.variableRate]

-----------------------------------------------------------------------------
(* The pool's calls, with respect to one reserve.                          *)

UpToDateReserve == UpToDate(reserve, token)

(* A call that leaves the stable debts alone, from r.                      *)
OtherCall(r) ==
    /\ r.liquidity <= MaxLiquidity
    /\ Call(token)
    /\ reserve' = Rated(r, StableTotalSupply(token), token.avgStableRate)

(* One that changes them, and leaves the token as t.                       *)
StableCall(r, t) ==
    /\ r.liquidity <= MaxLiquidity
    /\ Call(t)
    /\ reserve' = Rated(r, t.reported.supply, t.reported.avgStableRate)

Supply(amount) ==
    LET r == UpToDateReserve
    IN  OtherCall([r EXCEPT !.liquidity = @ + amount,
                            !.scaledSupply = @ + rayDiv(amount, r.liquidityIndex)])

Withdraw(amount) ==
    LET r == UpToDateReserve
        scaled == rayDiv(amount, r.liquidityIndex)
    IN  /\ scaled \in 1..r.scaledSupply
        /\ amount <= r.liquidity
        /\ OtherCall([r EXCEPT !.liquidity = @ - amount, !.scaledSupply = @ - scaled])

BorrowVariable(amount) ==
    LET r == UpToDateReserve
        scaled == rayDiv(amount, r.variableBorrowIndex)
    IN  /\ scaled # 0
        /\ amount <= r.liquidity
        /\ OtherCall([r EXCEPT !.liquidity = @ - amount, !.scaledVariableDebt = @ + scaled])

(* In full, or in part.                                                    *)
VariableRepayments(r) == Amounts \cup {rayMul(r.scaledVariableDebt, r.variableBorrowIndex)}

RepayVariable(amount) ==
    LET r == UpToDateReserve
        scaled == rayDiv(amount, r.variableBorrowIndex)
    IN  /\ scaled \in 1..r.scaledVariableDebt
        /\ OtherCall([r EXCEPT !.liquidity = @ + amount, !.scaledVariableDebt = @ - scaled])

BorrowStable(u, amount) ==
    LET r == UpToDateReserve
    IN  /\ amount <= r.liquidity
        /\ StableBalanceOf(token, u) + amount <= MaxDebt
        /\ StableCall([r EXCEPT !.liquidity = @ - amount],
                      Minted(token, u, amount, r.currentStableBorrowRate))

RepayStable(u, amount) ==
    /\ amount \in 1..StableBalanceOf(token, u)
    /\ StableCall([UpToDateReserve EXCEPT !.liquidity = @ + amount], Burned(token, u, amount))

SwapToVariable(u) ==
    LET r == UpToDateReserve
        debt == StableBalanceOf(token, u)
        scaled == rayDiv(debt, r.variableBorrowIndex)
    IN  /\ debt # 0 /\ scaled # 0
        /\ StableCall([r EXCEPT !.scaledVariableDebt = @ + scaled], Burned(token, u, debt))

(* Of the variable debts, which accounts are left out of, "debt" is u's.   *)
SwapToStable(u, debt) ==
    LET r == UpToDateReserve
        scaled == rayDiv(debt, r.variableBorrowIndex)
    IN  /\ scaled \in 1..r.scaledVariableDebt
        /\ StableBalanceOf(token, u) + debt <= MaxDebt
        /\ StableCall([r EXCEPT !.scaledVariableDebt = @ - scaled],
                      Minted(token, u, debt, r.currentStableBorrowRate))

(* Only while suppliers earn less than 90% of what they would if all debt  *)
(* were variable (validateRebalanceStableBorrowRate).                      *)
RebalanceDue(r) ==
    LET asVariable == calculateInterestRates(
                          [Borrowed(r, 0, 0) EXCEPT !.variable = @ + StableTotalSupply(token)])
    IN  r.currentLiquidityRate
          <= percentMul(asVariable.liquidityRate, (PERCENTAGE_FACTOR * 9) \div 10)

RebalanceStableBorrowRate(u) ==
    LET r == UpToDateReserve
        debt == StableBalanceOf(token, u)
    IN  /\ debt # 0
        /\ RebalanceDue(r)
        /\ StableCall(r, Minted(Burned(token, u, debt), u, debt, r.currentStableBorrowRate))

MintUnbacked(amount) ==
    LET r == UpToDateReserve
    IN  /\ r.unbacked + amount <= MaxLiquidity
        /\ OtherCall([r EXCEPT !.unbacked = @ + amount,
                               !.scaledSupply = @ + rayDiv(amount, r.liquidityIndex)])

ReserveInit ==
    /\ TokenInit
    /\ reserve = [liquidityIndex |-> RAY, variableBorrowIndex |-> RAY,
                  currentLiquidityRate |-> 0, currentVariableBorrowRate |-> 0,
                  currentStableBorrowRate |-> 0, lastUpdateTimestamp |-> 0,
                  accruedToTreasury |-> 0, unbacked |-> 0, scaledSupply |-> 0,
                  scaledVariableDebt |-> 0, liquidity |-> 0]

ReserveNext ==
    \/ \E x \in Amounts : \/ Supply(x)
                          \/ Withdraw(x)
                          \/ BorrowVariable(x)
                          \/ MintUnbacked(x)
    \/ \E x \in VariableRepayments(UpToDateReserve) : RepayVariable(x)
    \/ \E u \in Users :
          \/ \E x \in Amounts : BorrowStable(u, x)
          \/ \E x \in Amounts \cup {StableBalanceOf(token, u)} : RepayStable(u, x)
          \/ SwapToVariable(u)
          \/ \E debt \in VariableRepayments(UpToDateReserve) : SwapToStable(u, debt)
          \/ RebalanceStableBorrowRate(u)
    \/ Tick /\ UNCHANGED reserve

ReserveSpec == ReserveInit /\ [][ReserveNext]_reserveVars

-----------------------------------------------------------------------------
(* No subtraction goes below zero, the treasury's share of the interest    *)
(* included.                                                               *)
ReserveTypeOK ==
    /\ TokenTypeOK
    /\ reserve \in ReserveData
    /\ UpToDateReserve \in ReserveData

(* What suppliers and treasury may claim at "now", and what is owed then,  *)
(* whether or not anybody has called the pool since.  In ray.              *)
ClaimsNow == (UpToDateReserve.scaledSupply + UpToDateReserve.accruedToTreasury)
               * UpToDateReserve.liquidityIndex
TotalOwed == MapThenSumSet(LAMBDA u : StableBalanceOf(token, u), Users)
OwedNow == UpToDateReserve.scaledVariableDebt * UpToDateReserve.variableBorrowIndex
             + TotalOwed * RAY

(* The rates are computed on the total of the stable debts, which burn may *)
(* have reset while somebody owes; the books then show less than is owed.  *)
OnTheBooks == UpToDateReserve.scaledVariableDebt * UpToDateReserve.variableBorrowIndex
                + (StableTotalSupply(token) + reserve.liquidity + reserve.unbacked) * RAY
BooksCoverClaims == ClaimsNow <= OnTheBooks + 2 * RAY

(* As time passes, suppliers and treasury gain no more than debtors are    *)
(* charged, while the books cover what they may claim: the liquidity rate  *)
(* is what the borrow rates bring in, diluted by the idle and the          *)
(* unbacked, less the reserve factor                                       *)
(* (DefaultReserveInterestRateStrategy:211), up to the rounding of rates   *)
(* and to a unit for every debt and for the treasury.                      *)
IncomeSlack == 2 * (UpToDateReserve.scaledSupply + UpToDateReserve.accruedToTreasury)
                 + (Cardinality(Users) + 2) * RAY
InterestPaysForIncome ==
    [][now' # now /\ BooksCoverClaims
       => ClaimsNow' - ClaimsNow <= OwedNow' - OwedNow + IncomeSlack]_reserveVars

(* What the pool relies on, with time and rates: the normalised indices.   *)
(* What is owed is the tokens' totals.  The stable one may be left with    *)
(* dust once every debtor has repaid, since it is rounded on its own, and  *)
(* suppliers then still earn on it.                                        *)
Accrued == INSTANCE AccruedIndices WITH
    One <- RAY, block <- now,
    income <- UpToDateReserve.liquidityIndex,
    debtIndex <- UpToDateReserve.variableBorrowIndex,
    owedStable <- StableTotalSupply(token) # 0,
    owedVariable <- reserve.scaledVariableDebt # 0
IndicesAccrue == Accrued!AccruedSpec

=============================================================================
