-------------------------------- MODULE Pool --------------------------------
(***************************************************************************)
(* The lending pool: one action per entry point of Pool.sol that changes a *)
(* position, modelling the whole call into SupplyLogic, BorrowLogic,       *)
(* LiquidationLogic, EModeLogic, BridgeLogic or PoolLogic and into the     *)
(* reserve's tokens, and the environment: the passage of time, the oracle  *)
(* and the sequencer.  A transaction is atomic, so a call is one step; a   *)
(* call that reverts is a step that is not enabled.                        *)
(*                                                                         *)
(* Wallets are not modelled: whoever pays has enough of the underlying and *)
(* has approved it.  Permits, credit delegation, incentives and events are *)
(* left out.  Interest rates are replaced by an arbitrary growth of the    *)
(* indices and of stable debts; updateInterestRates changes only rates.    *)
(* A definition introduced by "Slip:" is a plausible error in the one that *)
(* follows it, used by the mutation runs and by no action.                 *)
(***************************************************************************)
EXTENDS LiquidationLogic

CONSTANTS
    BridgeProtocolFee,  \* _bridgeProtocolFee
    Fees,               \* the fees backUnbacked is called with
    Prices,             \* the prices the oracle may answer, per asset
    HasSentinel,        \* whether a PriceOracleSentinel is installed
    MaxLiquidity,       \* bound: what a reserve's aToken may hold
    Indices,            \* bound: the indices that interest leads to
    MaxIndex,           \* bound: no index grows past it
    MaxTreasury,        \* bound: the treasury's share of a reserve, scaled
    MaxStableDebt       \* bound: no stable debt accrues interest past it

ASSUME PoolAssumption ==
    /\ BridgeProtocolFee \in 0..PERCENTAGE_FACTOR
    /\ Fees \subseteq Nat
    /\ Prices \in [Assets -> SUBSET (Nat \ {0})]
    /\ HasSentinel \in BOOLEAN
    /\ MaxIndex \in Nat /\ RAY <= MaxIndex /\ Indices \subseteq RAY..MaxIndex
    /\ MaxStableDebt \in Nat /\ MaxLiquidity \in Nat /\ MaxTreasury \in Nat

(* PoolConfigurator accepts no others (configureReserveAsCollateral and    *)
(* setEModeCategory): what can be borrowed against a collateral is within  *)
(* what covers a debt, and that is within its value.                       *)
Ordered(c) == c.ltv <= c.liquidationThreshold /\ c.liquidationThreshold <= PERCENTAGE_FACTOR
ASSUME ConfigurationAssumption ==
    /\ \A r \in Reserves : Ordered(InitConfig[r])
    /\ \A c \in Categories : Ordered(InitEModeCategories[c])

(* Balances and flags start empty; reserves are listed and configured.     *)
Init ==
    /\ config = InitConfig
    /\ eModeCategories = InitEModeCategories
    /\ liquidityIndex = [r \in Reserves |-> RAY]
    /\ variableBorrowIndex = [r \in Reserves |-> RAY]
    /\ accruedToTreasury = [r \in Reserves |-> 0]
    /\ unbacked = [r \in Reserves |-> 0]
    /\ isolationModeTotalDebt = [r \in Reserves |-> 0]
    /\ liquidity = [r \in Reserves |-> 0]
    /\ scaledBalance = [a \in Accounts |-> [r \in Reserves |-> 0]]
    /\ aTokenSupply = [r \in Reserves |-> 0]
    /\ scaledVariableDebt = [u \in Users |-> [r \in Reserves |-> 0]]
    /\ variableDebtSupply = [r \in Reserves |-> 0]
    /\ stableDebt = [u \in Users |-> [r \in Reserves |-> 0]]
    /\ usingAsCollateral = [u \in Users |-> {}]
    /\ borrowing = [u \in Users |-> {}]
    /\ eModeCategory = [u \in Users |-> NoCategory]
    /\ price \in {p \in [Assets -> UNION {Prices[a] : a \in Assets}] :
                      \A a \in Assets : p[a] \in Prices[a]}
    /\ sentinelUp = TRUE

-----------------------------------------------------------------------------
(* The tokens.                                                             *)

MintAToken(a, r, amount) ==
    LET scaled == rayDiv(amount, liquidityIndex[r])
    IN  /\ scaled # 0
        /\ scaledBalance' = [scaledBalance EXCEPT ![a][r] = @ + scaled]
        /\ aTokenSupply' = [aTokenSupply EXCEPT ![r] = @ + scaled]

BurnAToken(a, r, amount) ==
    LET scaled == rayDiv(amount, liquidityIndex[r])
    IN  /\ scaled # 0
        /\ scaled <= scaledBalance[a][r]
        /\ scaled <= aTokenSupply[r]
        /\ scaledBalance' = [scaledBalance EXCEPT ![a][r] = @ - scaled]
        /\ aTokenSupply' = [aTokenSupply EXCEPT ![r] = @ - scaled]

(* Slip: the receiver is credited from a balance read before the debit.     *)
MovedFromStale(balances, from, to, r, scaled) ==
    [balances EXCEPT ![from][r] = @ - scaled, ![to][r] = balances[to][r] + scaled]
(* The balances after "scaled" moves; the two accounts may be the same.    *)
Moved(balances, from, to, r, scaled) ==
    LET debited == [balances EXCEPT ![from][r] = @ - scaled]
    IN  [debited EXCEPT ![to][r] = @ + scaled]

MintVariableDebt(u, r, amount) ==
    LET scaled == rayDiv(amount, variableBorrowIndex[r])
    IN  /\ scaled # 0
        /\ scaledVariableDebt' = [scaledVariableDebt EXCEPT ![u][r] = @ + scaled]
        /\ variableDebtSupply' = [variableDebtSupply EXCEPT ![r] = @ + scaled]

BurnVariableDebt(u, r, amount) ==
    LET scaled == rayDiv(amount, variableBorrowIndex[r])
    IN  /\ scaled # 0
        /\ scaled <= scaledVariableDebt[u][r]
        /\ scaled <= variableDebtSupply[r]
        /\ scaledVariableDebt' = [scaledVariableDebt EXCEPT ![u][r] = @ - scaled]
        /\ variableDebtSupply' = [variableDebtSupply EXCEPT ![r] = @ - scaled]

MintStableDebt(u, r, amount) ==
    stableDebt' = [stableDebt EXCEPT ![u][r] = @ + amount]

BurnStableDebt(u, r, amount) ==
    /\ amount <= stableDebt[u][r]
    /\ stableDebt' = [stableDebt EXCEPT ![u][r] = @ - amount]

(* Underlying paid to and by the aToken.                                   *)
PayIn(r, amount) ==
    /\ liquidity[r] + amount <= MaxLiquidity
    /\ liquidity' = [liquidity EXCEPT ![r] = @ + amount]
PayOut(r, amount) ==
    /\ amount <= liquidity[r]
    /\ liquidity' = [liquidity EXCEPT ![r] = @ - amount]

(* The treasury's share, minted or not.                                    *)
TreasuryHolds(r, more) == accruedToTreasury[r] + scaledBalance[Treasury][r] + more <= MaxTreasury
AccrueToTreasury(r, scaled) ==
    /\ TreasuryHolds(r, scaled)
    /\ accruedToTreasury' = [accruedToTreasury EXCEPT ![r] = @ + scaled]

variableDebtToken == <<scaledVariableDebt, variableDebtSupply>>

-----------------------------------------------------------------------------
(* SupplyLogic.                                                            *)

(* The collateral flags after aTokens reached u, whose balance was zero or *)
(* not: the first of them are switched on when the asset may be collateral.*)
CollateralOnReceipt(collateral, u, r, first, sender) ==
    IF first /\ ValidateAutomaticUseAsCollateral(collateral[u], r, sender)
    THEN [collateral EXCEPT ![u] = @ \cup {r}]
    ELSE collateral

Supply(sender, u, r, amount) ==
    /\ ValidateSupply(r, amount)
    /\ MintAToken(u, r, amount)
    /\ PayIn(r, amount)
    /\ usingAsCollateral' = CollateralOnReceipt(usingAsCollateral, u, r,
                                                scaledBalance[u][r] = 0, sender)
    /\ UNCHANGED <<governance, indices, accruedToTreasury, unbacked,
                   isolationModeTotalDebt, debtTokens, borrowing,
                   eModeCategory, market>>

(* The collateral flag is dropped only when the amount is the balance      *)
(* exactly, and before the health factor is checked.                       *)
Withdraw(u, r, requested) ==
    LET balance == BalanceOf(u, r)
        amount  == IF requested = MaxUint256 THEN balance ELSE requested
    IN  /\ ValidateWithdraw(r, amount, balance)
        /\ BurnAToken(u, r, amount)
        /\ PayOut(r, amount)
        /\ usingAsCollateral' =
               [usingAsCollateral EXCEPT ![u] = IF amount = balance THEN @ \ {r} ELSE @]
        /\ UNCHANGED <<governance, indices, accruedToTreasury, unbacked,
                       isolationModeTotalDebt, debtTokens, borrowing,
                       eModeCategory, market>>
        /\ r \in usingAsCollateral[u] /\ borrowing[u] # {} =>
               ValidateHFAndLtv(Position(u)', r)

(* AToken.transfer with its finalizeTransfer callback.  A transfer to      *)
(* oneself or of nothing changes nothing.  The callback's sender is the    *)
(* aToken contract, which holds no role.                                   *)
Transfer(from, to, r, amount) ==
    LET scaled == rayDiv(amount, liquidityIndex[r])
        kept   == [usingAsCollateral EXCEPT
                      ![from] = IF amount = BalanceOf(from, r) THEN @ \ {r} ELSE @]
    IN  /\ from # to /\ amount # 0
        /\ ~config[r].paused
        /\ scaled <= scaledBalance[from][r]
        /\ scaledBalance' = Moved(scaledBalance, from, to, r, scaled)
        /\ usingAsCollateral' =
               CollateralOnReceipt(kept, to, r, BalanceOf(to, r) = 0, NoAsset)
        /\ UNCHANGED <<governance, indices, accruedToTreasury, unbacked,
                       isolationModeTotalDebt, liquidity, aTokenSupply, debtTokens,
                       borrowing, eModeCategory, market>>
        /\ r \in usingAsCollateral[from] /\ borrowing[from] # {} =>
               ValidateHFAndLtv([Position(from)' EXCEPT
                                    !.collateral = usingAsCollateral[from]], r)

SetUserUseReserveAsCollateral(u, r, useAsCollateral) ==
    /\ BalanceOf(u, r) # 0
    /\ Operational(r)
    /\ useAsCollateral # (r \in usingAsCollateral[u])
    /\ useAsCollateral => ValidateUseAsCollateral(usingAsCollateral[u], r)
    /\ usingAsCollateral' =
           [usingAsCollateral EXCEPT ![u] = IF useAsCollateral THEN @ \cup {r} ELSE @ \ {r}]
    /\ UNCHANGED <<governance, indices, accruedToTreasury, unbacked,
                   isolationModeTotalDebt, liquidity, aToken, debtTokens,
                   borrowing, eModeCategory, market>>
    /\ ~useAsCollateral => ValidateHFAndLtv(Position(u)', r)

-----------------------------------------------------------------------------
(* BorrowLogic.                                                            *)

(* isFirstBorrowing is about the debt token of the mode chosen.            *)
OpenDebt(u, r, amount, mode) ==
    /\ \/ /\ mode = STABLE
          /\ MintStableDebt(u, r, amount)
          /\ UNCHANGED variableDebtToken
       \/ /\ mode = VARIABLE_
          /\ MintVariableDebt(u, r, amount)
          /\ UNCHANGED stableDebt
    /\ borrowing' =
           IF IF mode = STABLE THEN stableDebt[u][r] = 0 ELSE scaledVariableDebt[u][r] = 0
           THEN [borrowing EXCEPT ![u] = @ \cup {r}]
           ELSE borrowing

(* Shared with flash loans, which release the underlying beforehand and    *)
(* pass the category their caller was in at the start.                     *)
ExecuteBorrow(u, r, amount, mode, eMode, releaseUnderlying) ==
    /\ ValidateBorrow(u, r, amount, mode, eMode)
    /\ OpenDebt(u, r, amount, mode)
    /\ isolationModeTotalDebt' =
           [c \in Reserves |->
               IF InIsolationModeOn(c, usingAsCollateral[u])
               THEN isolationModeTotalDebt[c] + CeilingAmount(r, amount)
               ELSE isolationModeTotalDebt[c]]
    /\ IF releaseUnderlying THEN PayOut(r, amount) ELSE UNCHANGED liquidity
    /\ UNCHANGED <<governance, indices, accruedToTreasury, unbacked, aToken,
                   usingAsCollateral, eModeCategory, market>>

Borrow(u, r, amount, mode) ==
    ExecuteBorrow(u, r, amount, mode, eModeCategory[u], TRUE)

(* IsolationModeLogic.updateIsolatedDebtIfIsolated: repaid interest was    *)
(* never counted, so the total stops at zero.                              *)
IsolatedDebtAfterRepay(collateral, r, amount) ==
    [c \in Reserves |->
        IF InIsolationModeOn(c, collateral)
        THEN IF isolationModeTotalDebt[c] <= CeilingAmount(r, amount) THEN 0
             ELSE isolationModeTotalDebt[c] - CeilingAmount(r, amount)
        ELSE isolationModeTotalDebt[c]]

(* Slip: only the variable debt is compared.                               *)
FlagForgettingStable(u, r, repaid) ==
    [borrowing EXCEPT ![u] = IF VariableDebtOf(u, r) <= repaid THEN @ \ {r} ELSE @]
(* The borrowing flag goes when the repaid amount is the whole debt.       *)
FlagsAfterRepay(u, r, repaid) ==
    [borrowing EXCEPT ![u] = IF DebtOf(u, r) = repaid THEN @ \ {r} ELSE @]

(* aTokens are burned from the borrower and the underlying they stood for  *)
(* stays where it is; otherwise the underlying is paid in.                 *)
Settle(u, r, payback, useATokens) ==
    \/ useATokens /\ BurnAToken(u, r, payback) /\ UNCHANGED liquidity
    \/ ~useATokens /\ PayIn(r, payback) /\ UNCHANGED aToken

(* repay, repayWithPermit and repayWithATokens.  The payer of the first    *)
(* two is anyone.                                                          *)
Repay(u, r, requested, mode, useATokens) ==
    LET stable   == stableDebt[u][r]
        variable == VariableDebtOf(u, r)
        offered  == IF useATokens /\ requested = MaxUint256 THEN BalanceOf(u, r)
                                                            ELSE requested
        payback  == AtMost(offered, IF mode = STABLE THEN stable ELSE variable)
    IN  /\ ValidateRepay(r, requested, mode, stable, variable)
        /\ \/ /\ mode = STABLE
              /\ BurnStableDebt(u, r, payback)
              /\ UNCHANGED variableDebtToken
           \/ /\ mode = VARIABLE_
              /\ BurnVariableDebt(u, r, payback)
              /\ UNCHANGED stableDebt
        /\ borrowing' = FlagsAfterRepay(u, r, payback)
        /\ isolationModeTotalDebt' =
               IsolatedDebtAfterRepay(usingAsCollateral[u], r, payback)
        /\ Settle(u, r, payback, useATokens)
        /\ UNCHANGED <<governance, indices, accruedToTreasury, unbacked,
                       usingAsCollateral, eModeCategory, market>>

(* "mode" is the mode left.  The borrowing flag stays as it is.            *)
SwapBorrowRateMode(u, r, mode) ==
    /\ ValidateSwapRateMode(u, r, mode)
    /\ \/ /\ mode = STABLE
          /\ BurnStableDebt(u, r, stableDebt[u][r])
          /\ MintVariableDebt(u, r, stableDebt[u][r])
       \/ /\ mode = VARIABLE_
          /\ BurnVariableDebt(u, r, VariableDebtOf(u, r))
          /\ MintStableDebt(u, r, VariableDebtOf(u, r))
    /\ UNCHANGED <<governance, indices, accruedToTreasury, unbacked,
                   isolationModeTotalDebt, liquidity, aToken, userFlags,
                   eModeCategory, market>>

-----------------------------------------------------------------------------
(* LiquidationLogic.                                                       *)

(* _burnDebtTokens: the variable debt first, then the stable debt.         *)
BurnDebtTokens(u, rd, amount) ==
    LET variable == VariableDebtOf(u, rd)
    IN  \/ /\ variable >= amount
           /\ BurnVariableDebt(u, rd, amount)
           /\ UNCHANGED stableDebt
        \/ /\ variable < amount
           /\ BurnStableDebt(u, rd, amount - variable)
           /\ IF variable # 0 THEN BurnVariableDebt(u, rd, variable)
                              ELSE UNCHANGED variableDebtToken

(* The aTokens of the position: "seized" to the liquidator or burned, then *)
(* the fee to the treasury, cut to what the rounding has left.             *)
SeizeATokens(liquidator, u, rc, seized, fee, receiveAToken) ==
    LET index      == liquidityIndex[rc]
        scaled     == rayDiv(seized, index)
        afterSeize == IF receiveAToken
                      THEN Moved(scaledBalance, u, liquidator, rc, scaled)
                      ELSE [scaledBalance EXCEPT ![u][rc] = @ - scaled]
        left       == afterSeize[u][rc]
        paidFee    == IF rayDiv(fee, index) > left THEN rayMul(left, index) ELSE fee
        scaledFee  == rayDiv(paidFee, index)
    IN  /\ scaled <= scaledBalance[u][rc]
        /\ fee # 0 => scaledFee <= left /\ TreasuryHolds(rc, scaledFee)
        /\ receiveAToken \/ (scaled # 0 /\ scaled <= aTokenSupply[rc])
        /\ scaledBalance' = IF fee = 0 THEN afterSeize
                            ELSE Moved(afterSeize, u, Treasury, rc, scaledFee)
        /\ aTokenSupply' = IF receiveAToken THEN aTokenSupply
                           ELSE [aTokenSupply EXCEPT ![rc] = @ - scaled]

(* The collateral flag of the position is cleared before the isolated debt *)
(* is updated; the liquidator's is set with the position's already clear.  *)
LiquidationCall(liquidator, u, rc, rd, debtToCover, receiveAToken) ==
    LET eMode   == eModeCategory[u]
        balance == BalanceOf(u, rc)
        quote   == SeizedAndRepaid(rc, rd, eMode, DebtToLiquidate(u, rd, debtToCover), balance)
        fee     == LiquidationProtocolFee(rc, eMode, quote.collateral)
        seized  == quote.collateral - fee
        released == [usingAsCollateral EXCEPT
                        ![u] = IF quote.collateral = balance THEN @ \ {rc} ELSE @]
    IN  /\ ValidateLiquidationCall(u, rc, rd)
        /\ LiquidationBonus(eMode, rc) # 0
        /\ fee \in 0..quote.collateral
        /\ borrowing' = FlagsAfterRepay(u, rd, quote.debt)
        /\ BurnDebtTokens(u, rd, quote.debt)
        /\ isolationModeTotalDebt' = IsolatedDebtAfterRepay(released[u], rd, quote.debt)
        /\ SeizeATokens(liquidator, u, rc, seized, fee, receiveAToken)
        /\ usingAsCollateral' =
               CollateralOnReceipt(released, liquidator, rc,
                   receiveAToken /\ BalanceOf(liquidator, rc) = 0, liquidator)
        /\ receiveAToken \/ seized <= liquidity[rc]
        /\ liquidity[rd] + quote.debt <= MaxLiquidity
        /\ liquidity' = [r \in Reserves |->
               liquidity[r] - (IF r = rc /\ ~receiveAToken THEN seized ELSE 0)
                            + (IF r = rd THEN quote.debt ELSE 0)]
        /\ UNCHANGED <<governance, indices, accruedToTreasury, unbacked,
                       eModeCategory, market>>

-----------------------------------------------------------------------------
(* Slip: the check is made on the category entered.                       *)
SetUserEModeUncheckedExit(u, categoryId) ==
    /\ ValidateSetUserEMode(u, categoryId)
    /\ eModeCategory' = [eModeCategory EXCEPT ![u] = categoryId]
    /\ categoryId # NoCategory =>
           ValidateHealthFactor([Position(u) EXCEPT !.eMode = categoryId])
    /\ UNCHANGED <<governance, indices, accruedToTreasury, unbacked,
                   isolationModeTotalDebt, liquidity, aToken, debtTokens,
                   userFlags, market>>
(* EModeLogic.  The health factor is checked only when a category is left. *)
SetUserEMode(u, categoryId) ==
    /\ ValidateSetUserEMode(u, categoryId)
    /\ eModeCategory' = [eModeCategory EXCEPT ![u] = categoryId]
    /\ eModeCategory[u] # NoCategory =>
           ValidateHealthFactor([Position(u) EXCEPT !.eMode = categoryId])
    /\ UNCHANGED <<governance, indices, accruedToTreasury, unbacked,
                   isolationModeTotalDebt, liquidity, aToken, debtTokens,
                   userFlags, market>>

-----------------------------------------------------------------------------
(* BridgeLogic.                                                            *)

MintUnbacked(u, r, amount) ==
    /\ ValidateSupply(r, amount)
    /\ unbacked[r] + amount <= config[r].unbackedMintCap * config[r].unit
    /\ unbacked' = [unbacked EXCEPT ![r] = @ + amount]
    /\ MintAToken(u, r, amount)
    /\ usingAsCollateral' = CollateralOnReceipt(usingAsCollateral, u, r,
                                                scaledBalance[u][r] = 0, Bridge)
    /\ UNCHANGED <<governance, indices, accruedToTreasury, isolationModeTotalDebt,
                   liquidity, debtTokens, borrowing, eModeCategory, market>>

(* ReserveLogic.cumulateToLiquidityIndex: income shared at once by the     *)
(* whole supply, which must not be empty.                                  *)
CumulatedLiquidityIndex(r, totalLiquidity, amount) ==
    rayMul(rayDiv(amount, totalLiquidity) + RAY, liquidityIndex[r])

(* Slip: the treasury's share is forgotten.                               *)
MintedLiquidity(r) == rayMul(aTokenSupply[r], liquidityIndex[r])
(* What shares the income: the supply, and what the treasury has yet to    *)
(* mint.                                                                   *)
TotalLiquidity(r) == rayMul(aTokenSupply[r], liquidityIndex[r])
                       + rayMul(accruedToTreasury[r], liquidityIndex[r])

(* Slip: more than is unbacked may be backed.                             *)
BackedUncapped(r, amount) == amount
(* No more is backed than is unbacked.                                     *)
Backed(r, amount) == AtMost(amount, unbacked[r])

BackUnbacked(r, amount, fee) ==
    LET backing == Backed(r, amount)
        feeToProtocol == percentMul(fee, BridgeProtocolFee)
        index == CumulatedLiquidityIndex(r, TotalLiquidity(r), fee - feeToProtocol)
    IN  /\ feeToProtocol <= fee
        /\ TotalLiquidity(r) # 0
        /\ index <= MaxIndex
        /\ liquidityIndex' = [liquidityIndex EXCEPT ![r] = index]
        /\ AccrueToTreasury(r, rayDiv(feeToProtocol, index))
        /\ unbacked' = [unbacked EXCEPT ![r] = @ - backing]
        /\ PayIn(r, backing + fee)
        /\ UNCHANGED <<governance, variableBorrowIndex, isolationModeTotalDebt, aToken,
                       debtTokens, userFlags, eModeCategory, market>>

-----------------------------------------------------------------------------
(* Slip: what was minted stays accrued.                                   *)
MintToTreasuryAgain(r) ==
    /\ config[r].active
    /\ accruedToTreasury[r] # 0
    /\ MintAToken(Treasury, r, rayMul(accruedToTreasury[r], liquidityIndex[r]))
    /\ UNCHANGED <<governance, indices, accruedToTreasury, unbacked,
                   isolationModeTotalDebt, liquidity, debtTokens, userFlags,
                   eModeCategory, market>>
(* PoolLogic.                                                              *)
MintToTreasury(r) ==
    /\ config[r].active
    /\ accruedToTreasury[r] # 0
    /\ accruedToTreasury' = [accruedToTreasury EXCEPT ![r] = 0]
    /\ MintAToken(Treasury, r, rayMul(accruedToTreasury[r], liquidityIndex[r]))
    /\ UNCHANGED <<governance, indices, unbacked, isolationModeTotalDebt, liquidity,
                   debtTokens, userFlags, eModeCategory, market>>

-----------------------------------------------------------------------------
(* The environment.                                                        *)

TreasuryShare(r, interest, index) ==
    rayDiv(percentMul(interest, config[r].reserveFactor), index)

(* ReserveLogic.updateState after some time.  Suppliers earn only while    *)
(* somebody owes, the borrow index moves only under a variable debt.       *)
Accrue(r, liquidityIdx, borrowIdx) ==
    /\ liquidityIndex[r] <= liquidityIdx /\ variableBorrowIndex[r] <= borrowIdx
    /\ liquidityIndex[r] < liquidityIdx =>
           variableDebtSupply[r] # 0 \/ TotalStableDebt(r) # 0
    /\ variableBorrowIndex[r] < borrowIdx => variableDebtSupply[r] # 0
    /\ liquidityIndex' = [liquidityIndex EXCEPT ![r] = liquidityIdx]
    /\ variableBorrowIndex' = [variableBorrowIndex EXCEPT ![r] = borrowIdx]
    /\ AccrueToTreasury(r,
           TreasuryShare(r, rayMul(variableDebtSupply[r], borrowIdx)
                              - rayMul(variableDebtSupply[r], variableBorrowIndex[r]),
                         liquidityIdx))
    /\ UNCHANGED <<governance, unbacked, isolationModeTotalDebt, liquidity, aToken,
                   debtTokens, userFlags, eModeCategory, market>>

AccrueStable(u, r) ==
    /\ stableDebt[u][r] \in 1..(MaxStableDebt - 1)
    /\ stableDebt' = [stableDebt EXCEPT ![u][r] = @ + 1]
    /\ AccrueToTreasury(r, TreasuryShare(r, 1, liquidityIndex[r]))
    /\ UNCHANGED <<governance, indices, unbacked, isolationModeTotalDebt, liquidity,
                   aToken, variableDebtToken, userFlags, eModeCategory, market>>

SetPrice(a, newPrice) ==
    /\ price' = [price EXCEPT ![a] = newPrice]
    /\ UNCHANGED <<governance, indices, accruedToTreasury, unbacked,
                   isolationModeTotalDebt, liquidity, aToken, debtTokens,
                   userFlags, eModeCategory, sentinelUp>>

SequencerChange ==
    /\ HasSentinel
    /\ sentinelUp' = ~sentinelUp
    /\ UNCHANGED <<governance, indices, accruedToTreasury, unbacked,
                   isolationModeTotalDebt, liquidity, aToken, debtTokens,
                   userFlags, eModeCategory, price>>

-----------------------------------------------------------------------------
Environment ==
    \/ \E r \in Reserves : \E li \in Indices \cup {liquidityIndex[r]},
                            vi \in Indices \cup {variableBorrowIndex[r]} : Accrue(r, li, vi)
    \/ \E u \in Users, r \in Reserves : AccrueStable(u, r)
    \/ \E a \in Assets : \E p \in Prices[a] : SetPrice(a, p)
    \/ SequencerChange

Requests == Amounts \cup {MaxUint256}

SupplierCall ==
    \E u \in Users, r \in Reserves :
        \/ \E sender \in Users, x \in Amounts : Supply(sender, u, r, x)
        \/ \E x \in Requests : Withdraw(u, r, x)
        \/ \E to \in Users, x \in Amounts : Transfer(u, to, r, x)
        \/ \E use \in BOOLEAN : SetUserUseReserveAsCollateral(u, r, use)

BorrowerCall ==
    \E u \in Users, r \in Reserves, mode \in InterestRateModes :
        \/ \E x \in Amounts : Borrow(u, r, x, mode)
        \/ \E x \in Requests, useATokens \in BOOLEAN : Repay(u, r, x, mode, useATokens)
        \/ SwapBorrowRateMode(u, r, mode)

LiquidatorCall ==
    \E liquidator, u \in Users : \E rc, rd \in Reserves :
    \E x \in Requests, receiveAToken \in BOOLEAN :
        LiquidationCall(liquidator, u, rc, rd, x, receiveAToken)

OtherCall ==
    \/ \E u \in Users, c \in Categories \cup {NoCategory} : SetUserEMode(u, c)
    \/ \E u \in Users, r \in Reserves, x \in Amounts : MintUnbacked(u, r, x)
    \/ \E r \in Reserves, x \in Amounts, fee \in Fees : BackUnbacked(r, x, fee)
    \/ \E r \in Reserves : MintToTreasury(r)

PoolCall == SupplierCall \/ BorrowerCall \/ LiquidatorCall \/ OtherCall

Next == PoolCall \/ Environment

Spec == Init /\ [][Next]_vars

-----------------------------------------------------------------------------
(* What the pool promises.                                                 *)

(* Every variable keeps its type; indices stay within one ray and the      *)
(* bound, so that a scaled balance never stands for less than itself.      *)
TypeOK ==
    /\ config \in [Reserves -> ReserveConfiguration]
    /\ eModeCategories \in [Categories -> EModeCategory]
    /\ liquidityIndex \in [Reserves -> RAY..MaxIndex]
    /\ variableBorrowIndex \in [Reserves -> RAY..MaxIndex]
    /\ accruedToTreasury \in [Reserves -> Nat]
    /\ unbacked \in [Reserves -> Nat]
    /\ isolationModeTotalDebt \in [Reserves -> Nat]
    /\ liquidity \in [Reserves -> Nat]
    /\ scaledBalance \in [Accounts -> [Reserves -> Nat]]
    /\ aTokenSupply \in [Reserves -> Nat]
    /\ scaledVariableDebt \in [Users -> [Reserves -> Nat]]
    /\ variableDebtSupply \in [Reserves -> Nat]
    /\ stableDebt \in [Users -> [Reserves -> Nat]]
    /\ usingAsCollateral \in [Users -> SUBSET Reserves]
    /\ borrowing \in [Users -> SUBSET Reserves]
    /\ eModeCategory \in [Users -> Categories \cup {NoCategory}]
    /\ price \in [Assets -> Nat \ {0}]
    /\ sentinelUp \in BOOLEAN

(* A debt is never invisible: whoever owes anything of a reserve, in       *)
(* either mode, has its borrowing flag set.  The health factor only sums   *)
(* flagged debts, and the flag is cleared by comparing rounded amounts     *)
(* (BorrowLogic.executeRepay, LiquidationLogic.executeLiquidationCall),    *)
(* never by looking at what is left in the debt tokens.                    *)
Owes(u, r) == scaledVariableDebt[u][r] # 0 \/ stableDebt[u][r] # 0
DebtFlagged == \A u \in Users, r \in Reserves : Owes(u, r) => r \in borrowing[u]

(* Isolated collateral is never combined with other collateral, however it *)
(* arrived: by a supply, a transfer, a liquidation, a bridge mint or the   *)
(* user's choice (ValidationLogic.validateUseAsCollateral).                *)
IsolationExclusive ==
    \A u \in Users : \A r \in usingAsCollateral[u] :
        config[r].debtCeiling # 0 => usingAsCollateral[u] = {r}

(* A siloed asset is never borrowed together with another asset.           *)
SiloedExclusive ==
    \A u \in Users : \A r \in borrowing[u] :
        config[r].siloedBorrowing => borrowing[u] = {r}

(* A user in an eMode category owes assets of that category only, which is *)
(* what lets a liquidation price the debt with the category's source       *)
(* without looking (LiquidationLogic._getConfigurationData).               *)
EModeDebt ==
    \A u \in Users : eModeCategory[u] # NoCategory =>
        \A r \in borrowing[u] : config[r].eModeCategory = eModeCategory[u]

(* The debt counted against an isolated asset never passes its ceiling.    *)
DebtWithinCeiling ==
    \A r \in Reserves : config[r].debtCeiling # 0 =>
        isolationModeTotalDebt[r] <= config[r].debtCeiling

(* The tokens' total supplies are the sums of their balances.              *)
SuppliesAddUp ==
    \A r \in Reserves :
        /\ aTokenSupply[r] = Total(scaledBalance, r)
        /\ variableDebtSupply[r] = Total(scaledVariableDebt, r)

(* No call creates claims out of nothing: what suppliers and treasury may  *)
(* claim of a reserve, less what the reserve holds, is owed and has minted *)
(* unbacked, grows by at most half a scaled unit of each token in one step *)
(* (the rounding of rayDiv) while the indices stand still.  In ray.        *)
Claims(r) == (aTokenSupply[r] + accruedToTreasury[r]) * liquidityIndex[r]
Backing(r) == (liquidity[r] + TotalStableDebt(r) + unbacked[r]) * RAY
                + variableDebtSupply[r] * variableBorrowIndex[r]
RoundingSlack(r) == (liquidityIndex[r] + variableBorrowIndex[r]) \div 2
SolventUpToRounding ==
    [][\A r \in Reserves :
          liquidityIndex'[r] = liquidityIndex[r]
          /\ variableBorrowIndex'[r] = variableBorrowIndex[r]
          => Claims(r)' - Backing(r)' <= Claims(r) - Backing(r) + RoundingSlack(r)]_vars

(* A fee paid while the bridge backs unbacked aTokens is shared out by     *)
(* raising the index of the whole supply, the treasury's accrued share     *)
(* included (BridgeLogic.executeBackUnbacked): suppliers and treasury gain *)
(* no more than was paid, up to the rounding of the new index.  Only such  *)
(* a payment moves the liquidity and the index of a reserve in one step.   *)
FeePaid(r) == (liquidity'[r] - liquidity[r]) - (unbacked[r] - unbacked'[r])
FeeSlack(r, paid) ==
    LET total == rayMul(aTokenSupply[r], liquidityIndex[r])
                   + rayMul(accruedToTreasury[r], liquidityIndex[r])
        shared == aTokenSupply[r] + accruedToTreasury[r]
    IN  (paid * RAY) \div total + (total + shared + liquidityIndex'[r]) \div 2 + 2
FeesPayForIncome ==
    [][\A r \in Reserves :
          liquidity'[r] # liquidity[r] /\ liquidityIndex'[r] # liquidityIndex[r]
          => Claims(r)' - Backing(r)' <= Claims(r) - Backing(r) + FeeSlack(r, FeePaid(r))]_vars

(* No call takes a position out of health: whatever anybody does, a        *)
(* position whose health factor is at least 1 stays there until prices,    *)
(* interest or the sequencer move.  What may be missing afterwards is what *)
(* arithmetic rounds away:                                                 *)
(*  - a unit of the percentage scale of the average threshold, which is    *)
(*    floored, so that receiving a dusty collateral of a low threshold can *)
(*    lower it (GenericLogic:163);                                         *)
(*  - the rounding of one balance and one debt of one asset, and of their  *)
(*    values: a borrow is checked before its debt is rounded, a change of  *)
(*    rate mode and a repayment with aTokens are not checked at all;       *)
(*  - half a unit of the health factor.                                    *)
(* The one call that may do worse is entering a category from none, which  *)
(* checks no health factor, where the category has a price source or a     *)
(* lower threshold for a collateral of the user (EModeChangeKeepsHealth).  *)
Healthy(u) == HealthFactor(Position(u)) >= HEALTH_FACTOR_LIQUIDATION_THRESHOLD

RoundingInBase(u, r) ==
    ((Rounding(liquidityIndex[r]) + Rounding(variableBorrowIndex[r]))
        * AssetPrice(eModeCategory[u], r) + 2 * (config[r].unit - 1)) \div config[r].unit

CoveredUpToRounding(u) ==
    \E r \in Reserves :
        TotalDebt(Position(u))'
            <= percentMul(TotalCollateral(Position(u)),
                          AverageLiquidationThreshold(Position(u)) + 1)'
                 + RoundingInBase(u, r) + TotalDebt(Position(u)) \div (2 * WAD)

LowersThreshold(category, u) ==
    \E r \in usingAsCollateral[u] :
        LiquidationThreshold(category, r) < config[r].liquidationThreshold
EntersUnchecked(u) ==
    /\ eModeCategory[u] = NoCategory /\ eModeCategory'[u] # NoCategory
    /\ HasPriceSource(eModeCategory'[u]) \/ LowersThreshold(eModeCategory'[u], u)

HealthyStaysHealthy ==
    [][\/ \A u \in Users : Healthy(u) /\ ~EntersUnchecked(u)
                              => Healthy(u)' \/ CoveredUpToRounding(u)
       \/ Environment]_vars

-----------------------------------------------------------------------------
(* What comments of the code say and the code does not do.                 *)

(* "the outstanding debt borrowed against this asset in isolation mode"    *)
(* (DataTypes.sol:34): the amount counted for an isolated collateral is    *)
(* covered by debts that exist.  A liquidation that takes the whole        *)
(* collateral clears the flag before it looks the collateral up, so the    *)
(* repaid debt stays counted.                                              *)
IsolatedDebtOutstanding ==
    \A c \in Reserves : config[c].debtCeiling # 0 =>
        isolationModeTotalDebt[c] <=
            MapThenSumSet(LAMBDA r :
                MapThenSumSet(LAMBDA u : CeilingAmount(r, DebtOf(u, r)), Users), Reserves)

(* "Will revert if ... change will drop HF < HEALTH_FACTOR_LIQUIDATION_    *)
(* THRESHOLD" (EModeLogic.sol:33): no change of category takes a position  *)
(* out of health.  The check is skipped when no category is left, and a    *)
(* category's own price source may value the debt higher.                  *)
EModeChangeKeepsHealth ==
    [][\A u \in Users : eModeCategory[u]' # eModeCategory[u] /\ Healthy(u)
                           => Healthy(u)']_vars

=============================================================================
