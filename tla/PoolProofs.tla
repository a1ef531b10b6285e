----------------------------- MODULE PoolProofs -----------------------------
(***************************************************************************)
(* Theorems about Pool.tla, for every set of users, reserves, categories,  *)
(* amounts and prices, every configuration and every scale.                *)
(***************************************************************************)
EXTENDS Pool, WadRayMathProofs

-----------------------------------------------------------------------------
(* Amounts.                                                                *)

LEMMA IndexFacts ==
    ASSUME TypeOK, NEW r \in Reserves
    PROVE  /\ liquidityIndex[r] \in Nat \ {0} /\ liquidityIndex[r] >= RAY
           /\ variableBorrowIndex[r] \in Nat \ {0} /\ variableBorrowIndex[r] >= RAY
  BY ScaleAssumption, PoolAssumption DEF TypeOK

LEMMA ConfigFacts ==
    ASSUME TypeOK, NEW r \in Reserves
    PROVE  /\ config[r].unit \in Nat \ {0}
           /\ config[r].ceilingUnit \in Nat \ {0}
           /\ config[r].liquidationBonus \in Nat
           /\ config[r].liquidationProtocolFee \in 0..PERCENTAGE_FACTOR
           /\ config[r].reserveFactor \in 0..PERCENTAGE_FACTOR
  BY DEF TypeOK, ReserveConfiguration

LEMMA BalanceNat ==
    ASSUME TypeOK, NEW a \in Accounts, NEW r \in Reserves
    PROVE  BalanceOf(a, r) \in Nat
<1>1. scaledBalance[a][r] \in Nat
  BY DEF TypeOK
<1> QED
  BY <1>1, IndexFacts, RayMulNat DEF BalanceOf

LEMMA DebtNat ==
    ASSUME TypeOK, NEW u \in Users, NEW r \in Reserves
    PROVE  /\ scaledVariableDebt[u][r] \in Nat
           /\ stableDebt[u][r] \in Nat
           /\ VariableDebtOf(u, r) \in Nat
           /\ DebtOf(u, r) \in Nat
<1>1. scaledVariableDebt[u][r] \in Nat /\ stableDebt[u][r] \in Nat
  BY DEF TypeOK
<1>2. VariableDebtOf(u, r) \in Nat
  BY <1>1, IndexFacts, RayMulNat DEF VariableDebtOf
<1> QED
  BY <1>1, <1>2 DEF DebtOf

LEMMA CeilingAmountNat ==
    ASSUME TypeOK, NEW r \in Reserves, NEW amount \in Nat
    PROVE  CeilingAmount(r, amount) \in Nat
  BY ConfigFacts, DivBounds DEF CeilingAmount

LEMMA RequestNat ==
    ASSUME NEW x \in Requests
    PROVE  x \in Nat
  BY StorageAssumption DEF Requests

LEMMA AtMostNat ==
    ASSUME NEW x \in Nat, NEW limit \in Nat
    PROVE  AtMost(x, limit) \in Nat /\ AtMost(x, limit) <= limit /\ AtMost(x, limit) <= x
  BY DEF AtMost

LEMMA PriceNat ==
    ASSUME TypeOK, NEW r \in Reserves, NEW e \in Categories \cup {NoCategory}
    PROVE  AssetPrice(e, r) \in Nat \ {0} /\ DebtPrice(e, r) \in Nat \ {0}
<1>1. price[r] \in Nat \ {0}
  BY StorageAssumption DEF TypeOK
<1>2. ASSUME HasPriceSource(e)
      PROVE  price[eModeCategories[e].priceSource] \in Nat \ {0}
  <2>1. e \in Categories /\ eModeCategories[e] \in EModeCategory
        /\ eModeCategories[e].priceSource # NoAsset
    BY <1>2 DEF TypeOK, HasPriceSource
  <2>2. eModeCategories[e].priceSource \in Assets
    BY <2>1 DEF EModeCategory
  <2> QED
    BY <2>2 DEF TypeOK
<1> QED
  BY <1>1, <1>2 DEF AssetPrice, DebtPrice

LEMMA BonusNat ==
    ASSUME TypeOK, NEW r \in Reserves, NEW e \in Categories \cup {NoCategory}
    PROVE  LiquidationBonus(e, r) \in Nat
<1>1. ASSUME IsInEModeCategory(e, r) PROVE eModeCategories[e].liquidationBonus \in Nat
  BY <1>1 DEF TypeOK, EModeCategory, IsInEModeCategory
<1> QED
  BY <1>1, ConfigFacts DEF LiquidationBonus

(* The amounts of a liquidation are naturals, and no more collateral is    *)
(* taken than there is.                                                    *)
LEMMA QuoteNat ==
    ASSUME TypeOK, NEW rc \in Reserves, NEW rd \in Reserves,
           NEW e \in Categories \cup {NoCategory},
           LiquidationBonus(e, rc) # 0,
           NEW debt \in Nat, NEW balance \in Nat
    PROVE  /\ SeizedAndRepaid(rc, rd, e, debt, balance).collateral \in 0..balance
           /\ SeizedAndRepaid(rc, rd, e, debt, balance).debt \in Nat
<1> DEFINE bonus == LiquidationBonus(e, rc)
           cv == AssetPrice(e, rc) * config[rd].unit
           dv == DebtPrice(e, rd) * config[rc].unit
           wanted == percentMul((dv * debt) \div cv, bonus)
           repaid == percentDiv((cv * balance) \div dv, bonus)
<1>1. bonus \in Nat \ {0}
  BY BonusNat
<1>2. cv \in Nat \ {0} /\ dv \in Nat \ {0}
  <2>1. AssetPrice(e, rc) \in Nat \ {0} /\ DebtPrice(e, rd) \in Nat \ {0}
    BY PriceNat
  <2>2. config[rd].unit \in Nat \ {0} /\ config[rc].unit \in Nat \ {0}
    BY ConfigFacts
  <2> QED
    BY <2>1, <2>2
<1> HIDE DEF cv, dv, bonus
<1>3. dv * debt \in Nat /\ cv * balance \in Nat
  BY <1>2, ProductNat
<1>4. (dv * debt) \div cv \in Nat /\ (cv * balance) \div dv \in Nat
  BY <1>2, <1>3, DivBounds
<1>5. wanted \in Nat /\ repaid \in Nat
  BY <1>1, <1>4, PercentMulNat, PercentDivNat
<1>6. SeizedAndRepaid(rc, rd, e, debt, balance) =
        IF wanted > balance THEN [collateral |-> balance, debt |-> repaid]
                            ELSE [collateral |-> wanted, debt |-> debt]
  BY DEF SeizedAndRepaid, bonus, cv, dv
<1> HIDE DEF wanted, repaid
<1> QED
  BY <1>5, <1>6

LEMMA DebtToLiquidateNat ==
    ASSUME TypeOK, NEW u \in Users, NEW rd \in Reserves, NEW x \in Nat
    PROVE  DebtToLiquidate(u, rd, x) \in Nat
<1>1. /\ DEFAULT_LIQUIDATION_CLOSE_FACTOR \in Nat
      /\ MAX_LIQUIDATION_CLOSE_FACTOR \in Nat
  BY ScaleAssumption
  DEF DEFAULT_LIQUIDATION_CLOSE_FACTOR, MAX_LIQUIDATION_CLOSE_FACTOR, HALF_PERCENTAGE_FACTOR
<1> DEFINE half == AtMost(x, percentMul(DebtOf(u, rd), DEFAULT_LIQUIDATION_CLOSE_FACTOR))
           full == AtMost(x, percentMul(DebtOf(u, rd), MAX_LIQUIDATION_CLOSE_FACTOR))
<1>2. half \in Nat /\ full \in Nat
  BY <1>1, DebtNat, PercentMulNat, AtMostNat
<1>3. DebtToLiquidate(u, rd, x) \in {half, full}
  BY DEF DebtToLiquidate
<1> QED
  BY <1>2, <1>3

-----------------------------------------------------------------------------
(* The tokens keep their types.                                            *)

ATokenType ==
    /\ scaledBalance \in [Accounts -> [Reserves -> Nat]]
    /\ aTokenSupply \in [Reserves -> Nat]
VariableDebtType ==
    /\ scaledVariableDebt \in [Users -> [Reserves -> Nat]]
    /\ variableDebtSupply \in [Reserves -> Nat]
StableDebtType == stableDebt \in [Users -> [Reserves -> Nat]]

LEMMA TokenTypes ==
    ASSUME TypeOK
    PROVE  ATokenType /\ VariableDebtType /\ StableDebtType
  BY DEF TypeOK, ATokenType, VariableDebtType, StableDebtType

LEMMA ScaledNat ==
    ASSUME TypeOK, NEW r \in Reserves, NEW amount \in Nat
    PROVE  /\ rayDiv(amount, liquidityIndex[r]) \in Nat
           /\ rayDiv(amount, variableBorrowIndex[r]) \in Nat
  BY IndexFacts, RayDivNat

LEMMA MintATokenType ==
    ASSUME TypeOK, NEW a \in Accounts, NEW r \in Reserves, NEW amount \in Nat,
           MintAToken(a, r, amount)
    PROVE  ATokenType'
<1> DEFINE scaled == rayDiv(amount, liquidityIndex[r])
<1>1. scaled \in Nat
  BY ScaledNat
<1>2. /\ scaledBalance' = [scaledBalance EXCEPT ![a][r] = @ + scaled]
      /\ aTokenSupply' = [aTokenSupply EXCEPT ![r] = @ + scaled]
  BY DEF MintAToken
<1> HIDE DEF scaled
<1> QED
  BY <1>1, <1>2, TokenTypes DEF ATokenType

LEMMA BurnATokenType ==
    ASSUME TypeOK, NEW a \in Accounts, NEW r \in Reserves, NEW amount \in Nat,
           BurnAToken(a, r, amount)
    PROVE  ATokenType'
<1> DEFINE scaled == rayDiv(amount, liquidityIndex[r])
<1>1. scaled \in Nat
  BY ScaledNat
<1>2. /\ scaled <= scaledBalance[a][r] /\ scaled <= aTokenSupply[r]
      /\ scaledBalance' = [scaledBalance EXCEPT ![a][r] = @ - scaled]
      /\ aTokenSupply' = [aTokenSupply EXCEPT ![r] = @ - scaled]
  BY DEF BurnAToken
<1> HIDE DEF scaled
<1> QED
  BY <1>1, <1>2, TokenTypes DEF ATokenType

LEMMA MovedType ==
    ASSUME NEW balances \in [Accounts -> [Reserves -> Nat]],
           NEW from \in Accounts, NEW to \in Accounts, NEW r \in Reserves,
           NEW scaled \in Nat, scaled <= balances[from][r]
    PROVE  Moved(balances, from, to, r, scaled) \in [Accounts -> [Reserves -> Nat]]
<1> DEFINE debited == [balances EXCEPT ![from][r] = @ - scaled]
<1>1. debited \in [Accounts -> [Reserves -> Nat]]
  OBVIOUS
<1>2. Moved(balances, from, to, r, scaled) = [debited EXCEPT ![to][r] = @ + scaled]
  BY DEF Moved
<1> HIDE DEF debited
<1> QED
  BY <1>1, <1>2

LEMMA MintVariableDebtType ==
    ASSUME TypeOK, NEW u \in Users, NEW r \in Reserves, NEW amount \in Nat,
           MintVariableDebt(u, r, amount)
    PROVE  VariableDebtType'
<1> DEFINE scaled == rayDiv(amount, variableBorrowIndex[r])
<1>1. scaled \in Nat
  BY ScaledNat
<1>2. /\ scaledVariableDebt' = [scaledVariableDebt EXCEPT ![u][r] = @ + scaled]
      /\ variableDebtSupply' = [variableDebtSupply EXCEPT ![r] = @ + scaled]
  BY DEF MintVariableDebt
<1> HIDE DEF scaled
<1> QED
  BY <1>1, <1>2, TokenTypes DEF VariableDebtType

LEMMA BurnVariableDebtType ==
    ASSUME TypeOK, NEW u \in Users, NEW r \in Reserves, NEW amount \in Nat,
           BurnVariableDebt(u, r, amount)
    PROVE  VariableDebtType'
<1> DEFINE scaled == rayDiv(amount, variableBorrowIndex[r])
<1>1. scaled \in Nat
  BY ScaledNat
<1>2. /\ scaled <= scaledVariableDebt[u][r] /\ scaled <= variableDebtSupply[r]
      /\ scaledVariableDebt' = [scaledVariableDebt EXCEPT ![u][r] = @ - scaled]
      /\ variableDebtSupply' = [variableDebtSupply EXCEPT ![r] = @ - scaled]
  BY DEF BurnVariableDebt
<1> HIDE DEF scaled
<1> QED
  BY <1>1, <1>2, TokenTypes DEF VariableDebtType

LEMMA StableDebtTypes ==
    ASSUME TypeOK, NEW u \in Users, NEW r \in Reserves, NEW amount \in Nat,
           MintStableDebt(u, r, amount) \/ BurnStableDebt(u, r, amount)
    PROVE  StableDebtType'
  BY TokenTypes DEF StableDebtType, MintStableDebt, BurnStableDebt

LEMMA CollateralOnReceiptType ==
    ASSUME NEW collateral \in [Users -> SUBSET Reserves],
           NEW u \in Users, NEW r \in Reserves, NEW first, NEW sender
    PROVE  CollateralOnReceipt(collateral, u, r, first, sender) \in [Users -> SUBSET Reserves]
  BY DEF CollateralOnReceipt

LEMMA IsolatedDebtAfterRepayType ==
    ASSUME TypeOK, NEW collateral, NEW r \in Reserves, NEW amount \in Nat
    PROVE  IsolatedDebtAfterRepay(collateral, r, amount) \in [Reserves -> Nat]
<1>1. CeilingAmount(r, amount) \in Nat
  BY CeilingAmountNat
<1>2. \A c \in Reserves : isolationModeTotalDebt[c] \in Nat
  BY DEF TypeOK
<1> QED
  BY <1>1, <1>2 DEF IsolatedDebtAfterRepay

-----------------------------------------------------------------------------
(* Every action keeps the types.                                           *)

LEMMA SupplyType ==
    ASSUME TypeOK, NEW sender \in Users, NEW u \in Users, NEW r \in Reserves,
           NEW x \in Amounts, Supply(sender, u, r, x)
    PROVE  TypeOK'
<1>1. x \in Nat /\ u \in Accounts
  BY StorageAssumption DEF Accounts
<1>2. ATokenType'
  BY <1>1, MintATokenType DEF Supply
<1>3. liquidity' \in [Reserves -> Nat]
  BY <1>1 DEF TypeOK, Supply, PayIn
<1>4. usingAsCollateral' \in [Users -> SUBSET Reserves]
  BY CollateralOnReceiptType DEF TypeOK, Supply
<1> QED
  BY <1>2, <1>3, <1>4 DEF TypeOK, Supply, ATokenType, governance, indices,
     debtTokens, market

LEMMA WithdrawType ==
    ASSUME TypeOK, NEW u \in Users, NEW r \in Reserves, NEW x \in Requests,
           Withdraw(u, r, x)
    PROVE  TypeOK'
<1>1. x \in Nat /\ u \in Accounts
  BY RequestNat DEF Accounts
<1>2. PICK amount \in Nat : BurnAToken(u, r, amount) /\ PayOut(r, amount)
  BY <1>1, BalanceNat DEF Withdraw
<1>3. ATokenType'
  BY <1>1, <1>2, BurnATokenType
<1>4. liquidity' \in [Reserves -> Nat]
  BY <1>2 DEF TypeOK, PayOut
<1>5. usingAsCollateral' \in [Users -> SUBSET Reserves]
  BY DEF TypeOK, Withdraw
<1> QED
  BY <1>3, <1>4, <1>5 DEF TypeOK, Withdraw, ATokenType, governance, indices,
     debtTokens, market

LEMMA TransferType ==
    ASSUME TypeOK, NEW from \in Users, NEW to \in Users, NEW r \in Reserves,
           NEW x \in Amounts, Transfer(from, to, r, x)
    PROVE  TypeOK'
<1>1. x \in Nat /\ from \in Accounts /\ to \in Accounts
  BY StorageAssumption DEF Accounts
<1> DEFINE scaled == rayDiv(x, liquidityIndex[r])
           kept == [usingAsCollateral EXCEPT
                       ![from] = IF x = BalanceOf(from, r) THEN @ \ {r} ELSE @]
<1>2. scaled \in Nat /\ scaled <= scaledBalance[from][r]
  BY <1>1, ScaledNat DEF Transfer
<1>3. scaledBalance' \in [Accounts -> [Reserves -> Nat]]
  <2>1. scaledBalance' = Moved(scaledBalance, from, to, r, scaled)
    BY DEF Transfer
  <2>2. scaledBalance \in [Accounts -> [Reserves -> Nat]]
    BY DEF TypeOK
  <2> HIDE DEF scaled
  <2> QED
    BY <1>1, <1>2, <2>1, <2>2, MovedType
<1>4. kept \in [Users -> SUBSET Reserves]
  BY DEF TypeOK
<1>5. usingAsCollateral' = CollateralOnReceipt(kept, to, r, BalanceOf(to, r) = 0, NoAsset)
  BY DEF Transfer
<1>6. usingAsCollateral' \in [Users -> SUBSET Reserves]
  <2> HIDE DEF kept
  <2> QED
    BY <1>4, <1>5, CollateralOnReceiptType
<1> QED
  BY <1>3, <1>6 DEF TypeOK, Transfer, governance, indices, debtTokens, market

LEMMA SetUserUseReserveAsCollateralType ==
    ASSUME TypeOK, NEW u \in Users, NEW r \in Reserves, NEW use \in BOOLEAN,
           SetUserUseReserveAsCollateral(u, r, use)
    PROVE  TypeOK'
<1>1. usingAsCollateral' \in [Users -> SUBSET Reserves]
  BY DEF TypeOK, SetUserUseReserveAsCollateral
<1> QED
  BY <1>1 DEF TypeOK, SetUserUseReserveAsCollateral, governance, indices, aToken,
     debtTokens, market

LEMMA ExecuteBorrowType ==
    ASSUME TypeOK, NEW u \in Users, NEW r \in Reserves, NEW mode \in InterestRateModes,
           NEW x \in Nat, NEW eMode, NEW release \in BOOLEAN,
           ExecuteBorrow(u, r, x, mode, eMode, release)
    PROVE  TypeOK'
<1>1. OpenDebt(u, r, x, mode) /\ (PayOut(r, x) \/ UNCHANGED liquidity)
  BY DEF ExecuteBorrow
<1>2. VariableDebtType' /\ StableDebtType'
  BY <1>1, TokenTypes, MintVariableDebtType, StableDebtTypes
  DEF OpenDebt, variableDebtToken, VariableDebtType, StableDebtType
<1>3. borrowing' \in [Users -> SUBSET Reserves]
  BY <1>1 DEF OpenDebt, TypeOK
<1>4. liquidity' \in [Reserves -> Nat]
  BY <1>1 DEF TypeOK, PayOut
<1>5. isolationModeTotalDebt' \in [Reserves -> Nat]
  <2>1. CeilingAmount(r, x) \in Nat
    BY CeilingAmountNat
  <2> QED
    BY <2>1 DEF TypeOK, ExecuteBorrow
<1> QED
  BY <1>2, <1>3, <1>4, <1>5 DEF TypeOK, ExecuteBorrow, governance, indices,
     aToken, market, VariableDebtType, StableDebtType

LEMMA BorrowType ==
    ASSUME TypeOK, NEW u \in Users, NEW r \in Reserves, NEW mode \in InterestRateModes,
           NEW x \in Amounts, Borrow(u, r, x, mode)
    PROVE  TypeOK'
  BY StorageAssumption, ExecuteBorrowType DEF Borrow

LEMMA RepayType ==
    ASSUME TypeOK, NEW u \in Users, NEW r \in Reserves, NEW mode \in InterestRateModes,
           NEW x \in Requests, NEW useATokens \in BOOLEAN,
           Repay(u, r, x, mode, useATokens)
    PROVE  TypeOK'
<1> DEFINE offered == IF useATokens /\ x = MaxUint256 THEN BalanceOf(u, r) ELSE x
           payback == AtMost(offered, IF mode = STABLE THEN stableDebt[u][r]
                                                       ELSE VariableDebtOf(u, r))
<1>1. x \in Nat /\ u \in Accounts
  BY RequestNat DEF Accounts
<1>2. payback \in Nat
  <2>1. offered \in Nat
    BY <1>1, BalanceNat
  <2>2. (IF mode = STABLE THEN stableDebt[u][r] ELSE VariableDebtOf(u, r)) \in Nat
    BY DebtNat
  <2> QED
    BY <2>1, <2>2, AtMostNat
<1>3. /\ \/ BurnStableDebt(u, r, payback) /\ UNCHANGED variableDebtToken
         \/ BurnVariableDebt(u, r, payback) /\ UNCHANGED stableDebt
      /\ \/ BurnAToken(u, r, payback) /\ UNCHANGED liquidity
         \/ PayIn(r, payback) /\ UNCHANGED aToken
      /\ isolationModeTotalDebt' = IsolatedDebtAfterRepay(usingAsCollateral[u], r, payback)
  BY DEF Repay, Settle
<1>4. borrowing' \in [Users -> SUBSET Reserves]
  BY DEF Repay, FlagsAfterRepay, TypeOK
<1> HIDE DEF payback
<1>5. VariableDebtType' /\ StableDebtType'
  BY <1>2, <1>3, TokenTypes, BurnVariableDebtType, StableDebtTypes
  DEF variableDebtToken, VariableDebtType, StableDebtType
<1>6. ATokenType' /\ liquidity' \in [Reserves -> Nat]
  <2>1. CASE BurnAToken(u, r, payback) /\ UNCHANGED liquidity
    BY <1>1, <1>2, <2>1, BurnATokenType DEF TypeOK
  <2>2. CASE PayIn(r, payback) /\ UNCHANGED aToken
    BY <1>2, <2>2 DEF TypeOK, PayIn, aToken, ATokenType
  <2> QED
    BY <1>3, <2>1, <2>2
<1>7. isolationModeTotalDebt' \in [Reserves -> Nat]
  BY <1>2, <1>3, IsolatedDebtAfterRepayType
<1> QED
  BY <1>4, <1>5, <1>6, <1>7 DEF TypeOK, Repay, governance, indices, market, ATokenType,
     VariableDebtType, StableDebtType

LEMMA SwapBorrowRateModeType ==
    ASSUME TypeOK, NEW u \in Users, NEW r \in Reserves, NEW mode \in InterestRateModes,
           SwapBorrowRateMode(u, r, mode)
    PROVE  TypeOK'
<1>1. VariableDebtType' /\ StableDebtType'
  <2>1. stableDebt[u][r] \in Nat /\ VariableDebtOf(u, r) \in Nat
    BY DebtNat
  <2>2. PICK amount \in Nat :
            \/ BurnStableDebt(u, r, amount) /\ MintVariableDebt(u, r, amount)
            \/ BurnVariableDebt(u, r, amount) /\ MintStableDebt(u, r, amount)
    BY <2>1 DEF SwapBorrowRateMode
  <2> QED
    BY <2>2, BurnVariableDebtType, MintVariableDebtType, StableDebtTypes
<1> QED
  BY <1>1 DEF TypeOK, SwapBorrowRateMode, governance, indices, aToken, userFlags, market,
     VariableDebtType, StableDebtType

LEMMA BurnDebtTokensType ==
    ASSUME TypeOK, NEW u \in Users, NEW rd \in Reserves, NEW amount \in Nat,
           BurnDebtTokens(u, rd, amount)
    PROVE  VariableDebtType' /\ StableDebtType'
<1>1. VariableDebtOf(u, rd) \in Nat
  BY DebtNat
<1>2. CASE BurnVariableDebt(u, rd, amount) /\ UNCHANGED stableDebt
  BY <1>2, BurnVariableDebtType, TokenTypes DEF StableDebtType
<1>3. CASE /\ VariableDebtOf(u, rd) < amount
           /\ BurnStableDebt(u, rd, amount - VariableDebtOf(u, rd))
           /\ \/ BurnVariableDebt(u, rd, VariableDebtOf(u, rd))
              \/ UNCHANGED variableDebtToken
  <2>1. amount - VariableDebtOf(u, rd) \in Nat
    BY <1>1, <1>3
  <2>2. StableDebtType'
    BY <1>3, <2>1, StableDebtTypes
  <2>3. VariableDebtType'
    BY <1>1, <1>3, BurnVariableDebtType, TokenTypes DEF VariableDebtType, variableDebtToken
  <2> QED
    BY <2>2, <2>3
<1> QED
  BY <1>2, <1>3 DEF BurnDebtTokens

LEMMA SeizeATokensType ==
    ASSUME TypeOK, NEW liquidator \in Users, NEW u \in Users, NEW rc \in Reserves,
           NEW seized \in Nat, NEW fee \in Nat, NEW receiveAToken \in BOOLEAN,
           SeizeATokens(liquidator, u, rc, seized, fee, receiveAToken)
    PROVE  ATokenType'
<1> DEFINE index == liquidityIndex[rc]
           scaled == rayDiv(seized, index)
           afterSeize == IF receiveAToken
                         THEN Moved(scaledBalance, u, liquidator, rc, scaled)
                         ELSE [scaledBalance EXCEPT ![u][rc] = @ - scaled]
           left == afterSeize[u][rc]
           paidFee == IF rayDiv(fee, index) > left THEN rayMul(left, index) ELSE fee
           scaledFee == rayDiv(paidFee, index)
<1>1. u \in Accounts /\ liquidator \in Accounts /\ Treasury \in Accounts
  BY DEF Accounts
<1>2. scaled \in Nat /\ scaled <= scaledBalance[u][rc]
  BY ScaledNat DEF SeizeATokens
<1>3. scaledBalance \in [Accounts -> [Reserves -> Nat]] /\ aTokenSupply \in [Reserves -> Nat]
  BY DEF TypeOK
<1>4. /\ fee # 0 => scaledFee <= left
      /\ receiveAToken \/ scaled <= aTokenSupply[rc]
      /\ scaledBalance' = IF fee = 0 THEN afterSeize
                          ELSE Moved(afterSeize, u, Treasury, rc, scaledFee)
      /\ aTokenSupply' = IF receiveAToken THEN aTokenSupply
                         ELSE [aTokenSupply EXCEPT ![rc] = @ - scaled]
  BY DEF SeizeATokens
<1>5. afterSeize \in [Accounts -> [Reserves -> Nat]]
  <2> HIDE DEF scaled
  <2> QED
    BY <1>1, <1>2, <1>3, MovedType
<1>6. aTokenSupply' \in [Reserves -> Nat]
  <2> HIDE DEF scaled
  <2> QED
    BY <1>2, <1>3, <1>4
<1>7. scaledFee \in Nat
  <2>1. left \in Nat
    <3> HIDE DEF afterSeize
    <3> QED
      BY <1>1, <1>5
  <2>2. paidFee \in Nat
    <3> HIDE DEF left
    <3> QED
      BY <2>1, IndexFacts, RayMulNat
  <2> HIDE DEF paidFee
  <2> QED
    BY <2>2, ScaledNat
<1>8. scaledBalance' \in [Accounts -> [Reserves -> Nat]]
  <2> HIDE DEF afterSeize, scaledFee
  <2> QED
    BY <1>1, <1>4, <1>5, <1>7, MovedType
<1> QED
  BY <1>6, <1>8 DEF ATokenType

LEMMA LiquidationCallType ==
    ASSUME TypeOK, NEW liquidator \in Users, NEW u \in Users,
           NEW rc \in Reserves, NEW rd \in Reserves,
           NEW x \in Requests, NEW receiveAToken \in BOOLEAN,
           LiquidationCall(liquidator, u, rc, rd, x, receiveAToken)
    PROVE  TypeOK'
<1> DEFINE eMode == eModeCategory[u]
           balance == BalanceOf(u, rc)
           quote == SeizedAndRepaid(rc, rd, eMode, DebtToLiquidate(u, rd, x), balance)
           fee == LiquidationProtocolFee(rc, eMode, quote.collateral)
           seized == quote.collateral - fee
           released == [usingAsCollateral EXCEPT
                           ![u] = IF quote.collateral = balance THEN @ \ {rc} ELSE @]
<1>1. /\ x \in Nat /\ u \in Accounts /\ liquidator \in Accounts
      /\ eMode \in Categories \cup {NoCategory}
  BY RequestNat DEF Accounts, TypeOK
<1>2. balance \in Nat /\ DebtToLiquidate(u, rd, x) \in Nat
  BY <1>1, BalanceNat, DebtToLiquidateNat
<1>3. LiquidationBonus(eMode, rc) # 0 /\ fee \in 0..quote.collateral
  BY DEF LiquidationCall
<1>4. quote.collateral \in 0..balance /\ quote.debt \in Nat
  <2> HIDE DEF eMode, balance
  <2> QED
    BY <1>1, <1>2, <1>3, QuoteNat
<1>5. seized \in Nat /\ fee \in Nat
  <2> HIDE DEF quote, fee, balance
  <2> QED
    BY <1>2, <1>3, <1>4
<1>6. /\ BurnDebtTokens(u, rd, quote.debt)
      /\ isolationModeTotalDebt' = IsolatedDebtAfterRepay(released[u], rd, quote.debt)
      /\ SeizeATokens(liquidator, u, rc, seized, fee, receiveAToken)
      /\ usingAsCollateral' =
             CollateralOnReceipt(released, liquidator, rc,
                 receiveAToken /\ BalanceOf(liquidator, rc) = 0, liquidator)
      /\ receiveAToken \/ seized <= liquidity[rc]
      /\ liquidity' = [r \in Reserves |->
             liquidity[r] - (IF r = rc /\ ~receiveAToken THEN seized ELSE 0)
                          + (IF r = rd THEN quote.debt ELSE 0)]
      /\ borrowing' = FlagsAfterRepay(u, rd, quote.debt)
  BY DEF LiquidationCall
<1>7. released \in [Users -> SUBSET Reserves]
  <2> HIDE DEF quote, balance
  <2> QED
    BY DEF TypeOK
<1> HIDE DEF quote, fee, seized, released
<1>8. VariableDebtType' /\ StableDebtType'
  BY <1>4, <1>6, BurnDebtTokensType
<1>9. ATokenType'
  BY <1>5, <1>6, SeizeATokensType
<1>10. usingAsCollateral' \in [Users -> SUBSET Reserves]
  BY <1>6, <1>7, CollateralOnReceiptType
<1>11. borrowing' \in [Users -> SUBSET Reserves]
  BY <1>6 DEF FlagsAfterRepay, TypeOK
<1>12. isolationModeTotalDebt' \in [Reserves -> Nat]
  BY <1>4, <1>6, IsolatedDebtAfterRepayType
<1>13. liquidity' \in [Reserves -> Nat]
  <2>1. \A r \in Reserves : liquidity[r] \in Nat
    BY DEF TypeOK
  <2> QED
    BY <1>4, <1>5, <1>6, <2>1
<1> QED
  BY <1>8, <1>9, <1>10, <1>11, <1>12, <1>13 DEF TypeOK, LiquidationCall, governance,
     indices, market, ATokenType, VariableDebtType, StableDebtType

LEMMA SetUserEModeType ==
    ASSUME TypeOK, NEW u \in Users, NEW c \in Categories \cup {NoCategory},
           SetUserEMode(u, c)
    PROVE  TypeOK'
  BY DEF TypeOK, SetUserEMode, governance, indices, aToken, debtTokens, userFlags, market

LEMMA MintUnbackedType ==
    ASSUME TypeOK, NEW u \in Users, NEW r \in Reserves, NEW x \in Amounts,
           MintUnbacked(u, r, x)
    PROVE  TypeOK'
<1>1. x \in Nat /\ u \in Accounts
  BY StorageAssumption DEF Accounts
<1>2. ATokenType'
  BY <1>1, MintATokenType DEF MintUnbacked
<1>3. unbacked' \in [Reserves -> Nat]
  BY <1>1 DEF TypeOK, MintUnbacked
<1>4. usingAsCollateral' \in [Users -> SUBSET Reserves]
  BY CollateralOnReceiptType DEF TypeOK, MintUnbacked
<1> QED
  BY <1>2, <1>3, <1>4 DEF TypeOK, MintUnbacked, ATokenType, governance, indices,
     debtTokens, market

LEMMA AccrueToTreasuryType ==
    ASSUME TypeOK, NEW r \in Reserves, NEW scaled \in Nat, AccrueToTreasury(r, scaled)
    PROVE  accruedToTreasury' \in [Reserves -> Nat]
  BY DEF TypeOK, AccrueToTreasury

(* A fee shared out over the whole supply raises the index.                *)
LEMMA CumulatedIndexType ==
    ASSUME TypeOK, NEW r \in Reserves, NEW share \in Nat, TotalLiquidity(r) # 0,
           CumulatedLiquidityIndex(r, TotalLiquidity(r), share) <= MaxIndex
    PROVE  /\ CumulatedLiquidityIndex(r, TotalLiquidity(r), share) \in RAY..MaxIndex
           /\ liquidityIndex[r] <= CumulatedLiquidityIndex(r, TotalLiquidity(r), share)
<1> DEFINE total == TotalLiquidity(r)
           index == CumulatedLiquidityIndex(r, total, share)
<1>1. /\ aTokenSupply[r] \in Nat /\ accruedToTreasury[r] \in Nat
      /\ liquidityIndex[r] \in RAY..MaxIndex /\ liquidityIndex[r] \in Nat
      /\ RAY \in Nat /\ MaxIndex \in Nat
  BY IndexFacts, PoolAssumption, ScaleAssumption DEF TypeOK
<1>2. total \in Nat
  <2>1. /\ rayMul(aTokenSupply[r], liquidityIndex[r]) \in Nat
        /\ rayMul(accruedToTreasury[r], liquidityIndex[r]) \in Nat
    BY <1>1, RayMulNat
  <2> QED
    BY <2>1 DEF TotalLiquidity
<1>3. total # 0 /\ index <= MaxIndex
  OBVIOUS
<1> HIDE DEF total
<1>4. rayDiv(share, total) \in Nat
  BY <1>2, <1>3, RayDivNat
<1>5. index = rayMul(rayDiv(share, total) + RAY, liquidityIndex[r])
  BY DEF CumulatedLiquidityIndex
<1>6. liquidityIndex[r] <= index
  BY <1>1, <1>4, <1>5, RayMulGrows
<1>7. index \in Nat
  <2>1. rayDiv(share, total) + RAY \in Nat
    BY <1>1, <1>4
  <2>2. rayMul(rayDiv(share, total) + RAY, liquidityIndex[r]) \in Nat
    BY <1>1, <2>1, RayMulNat
  <2> QED
    BY <1>5, <2>2
<1>8. index \in RAY..MaxIndex
  <2> HIDE DEF index
  <2> QED
    BY <1>1, <1>3, <1>6, <1>7
<1> QED
  BY <1>6, <1>8 DEF total

LEMMA BackUnbackedType ==
    ASSUME TypeOK, NEW r \in Reserves, NEW x \in Amounts, NEW fee \in Fees,
           BackUnbacked(r, x, fee)
    PROVE  TypeOK'
<1> DEFINE backing == Backed(r, x)
           feeToProtocol == percentMul(fee, BridgeProtocolFee)
           total == TotalLiquidity(r)
           index == CumulatedLiquidityIndex(r, total, fee - feeToProtocol)
<1>1. /\ x \in Nat /\ fee \in Nat /\ BridgeProtocolFee \in Nat
      /\ unbacked[r] \in Nat /\ RAY \in Nat /\ MaxIndex \in Nat
  BY StorageAssumption, PoolAssumption, ScaleAssumption DEF TypeOK
<1>2. /\ feeToProtocol <= fee /\ total # 0 /\ index <= MaxIndex
      /\ liquidityIndex' = [liquidityIndex EXCEPT ![r] = index]
      /\ AccrueToTreasury(r, rayDiv(feeToProtocol, index))
      /\ unbacked' = [unbacked EXCEPT ![r] = @ - backing]
      /\ PayIn(r, backing + fee)
  BY DEF BackUnbacked
<1>3. feeToProtocol \in Nat
  BY <1>1, PercentMulNat
<1>4. backing \in Nat /\ backing <= unbacked[r]
  BY <1>1, AtMostNat DEF Backed
<1>5. index \in RAY..MaxIndex
  <2>1. fee - feeToProtocol \in Nat
    <3> HIDE DEF feeToProtocol
    <3> QED
      BY <1>1, <1>2, <1>3
  <2> HIDE DEF feeToProtocol
  <2> QED
    BY <1>2, <2>1, CumulatedIndexType
<1> HIDE DEF feeToProtocol, total, backing, index
<1>6. accruedToTreasury' \in [Reserves -> Nat]
  <2>1. index \in Nat \ {0}
    BY <1>5, ScaleAssumption, <1>1
  <2>2. rayDiv(feeToProtocol, index) \in Nat
    BY <1>3, <2>1, RayDivNat
  <2> QED
    BY <1>2, <2>2, AccrueToTreasuryType
<1>7. liquidityIndex' \in [Reserves -> RAY..MaxIndex] /\ unbacked' \in [Reserves -> Nat]
  BY <1>1, <1>2, <1>4, <1>5 DEF TypeOK
<1>8. liquidity' \in [Reserves -> Nat]
  BY <1>1, <1>2, <1>4 DEF TypeOK, PayIn
<1> QED
  BY <1>6, <1>7, <1>8 DEF TypeOK, BackUnbacked, governance, aToken, debtTokens,
     userFlags, market

LEMMA MintToTreasuryType ==
    ASSUME TypeOK, NEW r \in Reserves, MintToTreasury(r)
    PROVE  TypeOK'
<1>1. rayMul(accruedToTreasury[r], liquidityIndex[r]) \in Nat
  <2>1. accruedToTreasury[r] \in Nat
    BY DEF TypeOK
  <2> QED
    BY <2>1, IndexFacts, RayMulNat
<1>2. Treasury \in Accounts
  BY DEF Accounts
<1>3. ATokenType'
  BY <1>1, <1>2, MintATokenType DEF MintToTreasury
<1> QED
  BY <1>3 DEF TypeOK, MintToTreasury, ATokenType, governance, indices, debtTokens,
     userFlags, market

LEMMA TreasuryShareNat ==
    ASSUME TypeOK, NEW r \in Reserves, NEW interest \in Nat, NEW index \in Nat \ {0}
    PROVE  TreasuryShare(r, interest, index) \in Nat
<1>1. percentMul(interest, config[r].reserveFactor) \in Nat
  <2>1. config[r].reserveFactor \in Nat
    BY ConfigFacts, ScaleAssumption
  <2> QED
    BY <2>1, PercentMulNat
<1> QED
  BY <1>1, RayDivNat DEF TreasuryShare

LEMMA AccrueType ==
    ASSUME TypeOK, NEW r \in Reserves, NEW li \in Indices \cup {liquidityIndex[r]},
           NEW vi \in Indices \cup {variableBorrowIndex[r]}, Accrue(r, li, vi)
    PROVE  TypeOK'
<1>0. li \in RAY..MaxIndex /\ vi \in RAY..MaxIndex
  BY PoolAssumption DEF TypeOK
<1> DEFINE before == rayMul(variableDebtSupply[r], variableBorrowIndex[r])
           now == rayMul(variableDebtSupply[r], vi)
<1>1. /\ li \in Nat \ {0} /\ vi \in Nat /\ variableDebtSupply[r] \in Nat
      /\ variableBorrowIndex[r] \in Nat /\ variableBorrowIndex[r] <= vi
  BY <1>0, ScaleAssumption, PoolAssumption DEF TypeOK, Accrue
<1>2. before \in Nat /\ now \in Nat /\ before <= now
  BY <1>1, RayMulNat, RayMulMonotone
<1>3. AccrueToTreasury(r, TreasuryShare(r, now - before, li))
  BY DEF Accrue
<1> HIDE DEF now, before
<1>4. TreasuryShare(r, now - before, li) \in Nat
  BY <1>1, <1>2, TreasuryShareNat
<1>5. accruedToTreasury' \in [Reserves -> Nat]
  BY <1>3, <1>4, AccrueToTreasuryType
<1> QED
  BY <1>0, <1>5 DEF TypeOK, Accrue, governance, aToken, debtTokens, userFlags, market

LEMMA AccrueStableType ==
    ASSUME TypeOK, NEW u \in Users, NEW r \in Reserves, AccrueStable(u, r)
    PROVE  TypeOK'
<1>1. TreasuryShare(r, 1, liquidityIndex[r]) \in Nat
  BY IndexFacts, TreasuryShareNat
<1>2. accruedToTreasury' \in [Reserves -> Nat]
  BY <1>1, AccrueToTreasuryType DEF AccrueStable
<1>3. stableDebt' \in [Users -> [Reserves -> Nat]]
  BY DEF TypeOK, AccrueStable
<1> QED
  BY <1>2, <1>3 DEF TypeOK, AccrueStable, governance, indices, aToken,
     variableDebtToken, userFlags, market

LEMMA SetPriceType ==
    ASSUME TypeOK, NEW a \in Assets, NEW p \in Prices[a], SetPrice(a, p)
    PROVE  TypeOK'
<1>1. p \in Nat \ {0}
  BY PoolAssumption
<1> QED
  BY <1>1 DEF TypeOK, SetPrice, governance, indices, aToken, debtTokens, userFlags

LEMMA SequencerChangeType ==
    ASSUME TypeOK, SequencerChange
    PROVE  TypeOK'
  BY DEF TypeOK, SequencerChange, governance, indices, aToken, debtTokens, userFlags

LEMMA InitType ==
    ASSUME Init
    PROVE  TypeOK
<1>1. RAY \in RAY..MaxIndex
  BY ScaleAssumption, PoolAssumption
<1>2. price \in [Assets -> Nat \ {0}]
  BY PoolAssumption DEF Init
<1> QED
  BY <1>1, <1>2, StorageAssumption DEF Init, TypeOK, NoCategory

LEMMA TypeStep ==
    ASSUME TypeOK, [Next]_vars
    PROVE  TypeOK'
<1>1. CASE UNCHANGED vars
  BY <1>1 DEF TypeOK, vars, governance, indices, aToken, debtTokens, userFlags, market
<1>2. CASE SupplierCall
  BY <1>2, SupplyType, WithdrawType, TransferType, SetUserUseReserveAsCollateralType
  DEF SupplierCall
<1>3. CASE BorrowerCall
  BY <1>3, BorrowType, RepayType, SwapBorrowRateModeType DEF BorrowerCall
<1>4. CASE LiquidatorCall
  BY <1>4, LiquidationCallType DEF LiquidatorCall
<1>5. CASE OtherCall
  BY <1>5, SetUserEModeType, MintUnbackedType, BackUnbackedType, MintToTreasuryType
  DEF OtherCall
<1>6. CASE Environment
  BY <1>6, AccrueType, AccrueStableType, SetPriceType, SequencerChangeType
  DEF Environment
<1> QED
  BY <1>1, <1>2, <1>3, <1>4, <1>5, <1>6 DEF Next, PoolCall

(* Every variable keeps its type: no balance, debt, supply or treasury     *)
(* share falls below zero and no index falls below one ray.                *)
THEOREM TypeCorrect == Spec => []TypeOK
<1>1. Init => TypeOK
  BY InitType
<1>2. TypeOK /\ [Next]_vars => TypeOK'
  BY TypeStep
<1> QED
  BY <1>1, <1>2, PTL DEF Spec

-----------------------------------------------------------------------------
(* Debts are flagged.                                                      *)

(* The unscaled debt is naught exactly when nothing is owed.               *)
LEMMA NoVariableDebt ==
    ASSUME TypeOK, NEW u \in Users, NEW r \in Reserves
    PROVE  VariableDebtOf(u, r) = 0 <=> scaledVariableDebt[u][r] = 0
  BY DebtNat, IndexFacts, RayMulZero DEF VariableDebtOf

(* Burning the unscaled debt leaves no scaled debt.                        *)
LEMMA BurnAllVariable ==
    ASSUME TypeOK, NEW u \in Users, NEW r \in Reserves,
           BurnVariableDebt(u, r, VariableDebtOf(u, r))
    PROVE  scaledVariableDebt'[u][r] = 0
<1>1. rayDiv(VariableDebtOf(u, r), variableBorrowIndex[r]) = scaledVariableDebt[u][r]
  BY DebtNat, IndexFacts, RoundTrip DEF VariableDebtOf
<1>2. scaledVariableDebt' =
          [scaledVariableDebt EXCEPT ![u][r] = @ - scaledVariableDebt[u][r]]
  BY <1>1 DEF BurnVariableDebt
<1> QED
  BY <1>2, DebtNat DEF TypeOK

(* A burn raises no debt, and touches no debt but its own.                 *)
LEMMA VariableDebtFalls ==
    ASSUME TypeOK, NEW u \in Users, NEW r \in Reserves, NEW amount \in Nat,
           BurnVariableDebt(u, r, amount) \/ UNCHANGED scaledVariableDebt,
           NEW v \in Users, NEW s \in Reserves
    PROVE  /\ scaledVariableDebt'[v][s] # 0 => scaledVariableDebt[v][s] # 0
           /\ v # u \/ s # r => scaledVariableDebt'[v][s] = scaledVariableDebt[v][s]
<1> DEFINE scaled == rayDiv(amount, variableBorrowIndex[r])
<1>1. scaled \in Nat
  BY ScaledNat
<1>2. \/ /\ scaled <= scaledVariableDebt[u][r]
         /\ scaledVariableDebt' = [scaledVariableDebt EXCEPT ![u][r] = @ - scaled]
      \/ scaledVariableDebt' = scaledVariableDebt
  BY DEF BurnVariableDebt
<1> HIDE DEF scaled
<1> QED
  BY <1>1, <1>2 DEF TypeOK

LEMMA StableDebtFalls ==
    ASSUME TypeOK, NEW u \in Users, NEW r \in Reserves, NEW amount \in Nat,
           BurnStableDebt(u, r, amount) \/ UNCHANGED stableDebt,
           NEW v \in Users, NEW s \in Reserves
    PROVE  /\ stableDebt'[v][s] # 0 => stableDebt[v][s] # 0
           /\ v # u \/ s # r => stableDebt'[v][s] = stableDebt[v][s]
  BY DEF TypeOK, BurnStableDebt

(* The obligation every handler that closes debts has: no debt appears,    *)
(* and a flag goes only with the debt it stands for.                       *)
LEMMA FlagsFollow ==
    ASSUME TypeOK, DebtFlagged, NEW u \in Users, NEW r \in Reserves, NEW closed \in BOOLEAN,
           \A v \in Users, s \in Reserves : Owes(v, s)' => Owes(v, s),
           borrowing' = [borrowing EXCEPT ![u] = IF closed THEN @ \ {r} ELSE @],
           closed => ~Owes(u, r)'
    PROVE  DebtFlagged'
<1> SUFFICES ASSUME NEW v \in Users, NEW s \in Reserves, Owes(v, s)'
             PROVE  s \in borrowing'[v]
  BY DEF DebtFlagged
<1>1. s \in borrowing[v]
  BY DEF DebtFlagged
<1> QED
  BY <1>1 DEF TypeOK

LEMMA OpenDebtFlagged ==
    ASSUME TypeOK, DebtFlagged, NEW u \in Users, NEW r \in Reserves,
           NEW mode, NEW x, OpenDebt(u, r, x, mode)
    PROVE  DebtFlagged'
<1>1. OpenDebt(u, r, x, mode)
  OBVIOUS
<1> SUFFICES ASSUME NEW v \in Users, NEW s \in Reserves, Owes(v, s)'
             PROVE  s \in borrowing'[v]
  BY DEF DebtFlagged
<1>2. borrowing[v] \subseteq borrowing'[v]
  BY <1>1 DEF OpenDebt, TypeOK
<1>3. CASE Owes(v, s)
  BY <1>2, <1>3 DEF DebtFlagged
<1>4. CASE ~Owes(v, s)
  <2>1. v = u /\ s = r
    BY <1>1, <1>4 DEF OpenDebt, MintStableDebt, MintVariableDebt, variableDebtToken,
       Owes, TypeOK
  <2>2. borrowing' = [borrowing EXCEPT ![u] = @ \cup {r}]
    BY <1>1, <1>4, <2>1 DEF OpenDebt, Owes
  <2> QED
    BY <2>1, <2>2 DEF TypeOK
<1> QED
  BY <1>3, <1>4

LEMMA RepayFlagged ==
    ASSUME TypeOK, DebtFlagged, NEW u \in Users, NEW r \in Reserves,
           NEW mode \in InterestRateModes, NEW x \in Requests, NEW useATokens \in BOOLEAN,
           Repay(u, r, x, mode, useATokens)
    PROVE  DebtFlagged'
<1> DEFINE stable == stableDebt[u][r]
           variable == VariableDebtOf(u, r)
           offered == IF useATokens /\ x = MaxUint256 THEN BalanceOf(u, r) ELSE x
           limit == IF mode = STABLE THEN stable ELSE variable
           payback == AtMost(offered, limit)
           closed == DebtOf(u, r) = payback
<1>1. /\ \/ mode = STABLE /\ BurnStableDebt(u, r, payback) /\ UNCHANGED variableDebtToken
         \/ mode = VARIABLE_ /\ BurnVariableDebt(u, r, payback) /\ UNCHANGED stableDebt
      /\ borrowing' = [borrowing EXCEPT ![u] = IF closed THEN @ \ {r} ELSE @]
  BY DEF Repay, FlagsAfterRepay
<1>2. stable \in Nat /\ variable \in Nat /\ DebtOf(u, r) = variable + stable
  BY DebtNat DEF DebtOf
<1>3. payback \in Nat /\ payback <= limit
  <2>1. offered \in Nat
    BY RequestNat, BalanceNat DEF Accounts
  <2>2. limit \in Nat
    BY <1>2
  <2> QED
    BY <2>1, <2>2, AtMostNat
<1>4. \A v \in Users, s \in Reserves : Owes(v, s)' => Owes(v, s)
  <2> HIDE DEF payback
  <2> QED
    BY <1>1, <1>3, VariableDebtFalls, StableDebtFalls DEF Owes, variableDebtToken
<1>5. ASSUME closed PROVE ~Owes(u, r)'
  <2>1. CASE mode = STABLE /\ BurnStableDebt(u, r, payback) /\ UNCHANGED variableDebtToken
    <3>1. variable = 0 /\ payback = stable
      <4> HIDE DEF payback, variable
      <4> QED
        BY <1>2, <1>3, <1>5, <2>1
    <3>2. scaledVariableDebt'[u][r] = 0
      BY <2>1, <3>1, NoVariableDebt DEF variableDebtToken
    <3>3. stableDebt'[u][r] = 0
      BY <1>2, <2>1, <3>1 DEF BurnStableDebt, TypeOK
    <3> QED
      BY <3>2, <3>3 DEF Owes
  <2>2. CASE mode = VARIABLE_ /\ BurnVariableDebt(u, r, payback) /\ UNCHANGED stableDebt
    <3>1. stable = 0 /\ payback = variable
      <4>1. payback <= variable
        <5> HIDE DEF payback, variable
        <5> QED
          BY <1>3, <2>2 DEF STABLE, VARIABLE_
      <4> HIDE DEF payback, variable
      <4> QED
        BY <1>2, <1>3, <1>5, <4>1
    <3>2. scaledVariableDebt'[u][r] = 0
      BY <2>2, <3>1, BurnAllVariable
    <3> QED
      BY <2>2, <3>1, <3>2 DEF Owes
  <2> QED
    BY <1>1, <2>1, <2>2
<1>6. closed \in BOOLEAN
  OBVIOUS
<1> HIDE DEF closed
<1> QED
  BY <1>1, <1>4, <1>5, <1>6, FlagsFollow

LEMMA SwapFlagged ==
    ASSUME TypeOK, DebtFlagged, NEW u \in Users, NEW r \in Reserves,
           NEW mode \in InterestRateModes, SwapBorrowRateMode(u, r, mode)
    PROVE  DebtFlagged'
<1>1. Owes(u, r)
  BY NoVariableDebt DEF SwapBorrowRateMode, ValidateSwapRateMode, Owes
<1>2. \A v \in Users, s \in Reserves : v # u \/ s # r => (Owes(v, s)' <=> Owes(v, s))
  BY DEF SwapBorrowRateMode, BurnStableDebt, MintStableDebt, BurnVariableDebt,
     MintVariableDebt, Owes, TypeOK
<1>3. borrowing' = borrowing
  BY DEF SwapBorrowRateMode, userFlags
<1> QED
  BY <1>1, <1>2, <1>3 DEF DebtFlagged

LEMMA LiquidationFlagged ==
    ASSUME TypeOK, DebtFlagged, NEW liquidator \in Users, NEW u \in Users,
           NEW rc \in Reserves, NEW rd \in Reserves,
           NEW x \in Requests, NEW receiveAToken \in BOOLEAN,
           LiquidationCall(liquidator, u, rc, rd, x, receiveAToken)
    PROVE  DebtFlagged'
<1> DEFINE eMode == eModeCategory[u]
           quote == SeizedAndRepaid(rc, rd, eMode, DebtToLiquidate(u, rd, x), BalanceOf(u, rc))
           amount == quote.debt
           variable == VariableDebtOf(u, rd)
           stable == stableDebt[u][rd]
           closed == DebtOf(u, rd) = amount
<1>1. amount \in Nat
  <2>1. /\ eMode \in Categories \cup {NoCategory}
        /\ LiquidationBonus(eMode, rc) # 0
    BY DEF LiquidationCall, TypeOK
  <2>2. BalanceOf(u, rc) \in Nat /\ DebtToLiquidate(u, rd, x) \in Nat
    BY RequestNat, BalanceNat, DebtToLiquidateNat DEF Accounts
  <2> HIDE DEF eMode
  <2> QED
    BY <2>1, <2>2, QuoteNat
<1>2. /\ BurnDebtTokens(u, rd, amount)
      /\ borrowing' = [borrowing EXCEPT ![u] = IF closed THEN @ \ {rd} ELSE @]
  BY DEF LiquidationCall, FlagsAfterRepay
<1>3. stable \in Nat /\ variable \in Nat /\ DebtOf(u, rd) = variable + stable
  BY DebtNat DEF DebtOf
<1> HIDE DEF quote, amount, variable
<1>4. \/ /\ variable >= amount
         /\ BurnVariableDebt(u, rd, amount)
         /\ UNCHANGED stableDebt
      \/ /\ variable < amount
         /\ BurnStableDebt(u, rd, amount - variable)
         /\ IF variable # 0 THEN BurnVariableDebt(u, rd, variable)
                            ELSE UNCHANGED variableDebtToken
  BY <1>2 DEF BurnDebtTokens, variable
<1>5. \A v \in Users, s \in Reserves : Owes(v, s)' => Owes(v, s)
  <2>1. CASE BurnVariableDebt(u, rd, amount) /\ UNCHANGED stableDebt
    BY <1>1, <2>1, VariableDebtFalls, StableDebtFalls DEF Owes
  <2>2. CASE /\ variable < amount
             /\ BurnStableDebt(u, rd, amount - variable)
             /\ BurnVariableDebt(u, rd, variable) \/ UNCHANGED variableDebtToken
    <3>1. amount - variable \in Nat
      BY <1>1, <1>3, <2>2
    <3> QED
      BY <1>3, <2>2, <3>1, VariableDebtFalls, StableDebtFalls DEF Owes, variableDebtToken
  <2> QED
    BY <1>4, <2>1, <2>2
<1>6. ASSUME closed PROVE ~Owes(u, rd)'
  <2>1. CASE /\ variable >= amount
             /\ BurnVariableDebt(u, rd, amount)
             /\ UNCHANGED stableDebt
    <3>1. amount = variable /\ stable = 0
      BY <1>1, <1>3, <1>6, <2>1
    <3>2. scaledVariableDebt'[u][rd] = 0
      BY <2>1, <3>1, BurnAllVariable DEF variable
    <3> QED
      BY <2>1, <3>1, <3>2 DEF Owes
  <2>2. CASE /\ variable < amount
             /\ BurnStableDebt(u, rd, amount - variable)
             /\ IF variable # 0 THEN BurnVariableDebt(u, rd, variable)
                                ELSE UNCHANGED variableDebtToken
    <3>1. amount - variable = stable
      BY <1>1, <1>3, <1>6
    <3>2. stableDebt'[u][rd] = 0
      BY <1>3, <2>2, <3>1 DEF BurnStableDebt, TypeOK
    <3>3. scaledVariableDebt'[u][rd] = 0
      BY <2>2, BurnAllVariable, NoVariableDebt DEF variable, variableDebtToken
    <3> QED
      BY <3>2, <3>3 DEF Owes
  <2> QED
    BY <1>4, <2>1, <2>2
<1>7. closed \in BOOLEAN
  OBVIOUS
<1> HIDE DEF closed
<1> QED
  BY <1>2, <1>5, <1>6, <1>7, FlagsFollow

LEMMA AccrueStableFlagged ==
    ASSUME TypeOK, DebtFlagged, NEW u \in Users, NEW r \in Reserves, AccrueStable(u, r)
    PROVE  DebtFlagged'
<1>1. \A v \in Users, s \in Reserves : Owes(v, s)' => Owes(v, s)
  BY DEF AccrueStable, Owes, variableDebtToken, TypeOK
<1> QED
  BY <1>1 DEF AccrueStable, userFlags, DebtFlagged

(* Suppliers' calls touch no debt, no borrowing flag and no category.      *)
LEMMA SupplierCallFrame ==
    ASSUME SupplierCall
    PROVE  UNCHANGED <<governance, isolationModeTotalDebt, debtTokens, borrowing, eModeCategory>>
<1> DEFINE Frame == UNCHANGED <<governance, isolationModeTotalDebt, debtTokens, borrowing,
                                eModeCategory>>
<1>1. ASSUME NEW sender, NEW u, NEW r, NEW x, Supply(sender, u, r, x) PROVE Frame
  BY <1>1 DEF Supply
<1>2. ASSUME NEW u, NEW r, NEW x, Withdraw(u, r, x) PROVE Frame
  BY <1>2 DEF Withdraw
<1>3. ASSUME NEW u, NEW to, NEW r, NEW x, Transfer(u, to, r, x) PROVE Frame
  BY <1>3 DEF Transfer
<1>4. ASSUME NEW u, NEW r, NEW use, SetUserUseReserveAsCollateral(u, r, use) PROVE Frame
  BY <1>4 DEF SetUserUseReserveAsCollateral
<1> HIDE DEF Frame
<1>5. Frame
  BY <1>1, <1>2, <1>3, <1>4 DEF SupplierCall
<1> QED
  BY <1>5 DEF Frame

LEMMA FlagStep ==
    ASSUME TypeOK, DebtFlagged, [Next]_vars
    PROVE  DebtFlagged'
<1>1. ASSUME UNCHANGED <<debtTokens, borrowing>> PROVE DebtFlagged'
  BY <1>1 DEF DebtFlagged, Owes, debtTokens
<1>2. CASE UNCHANGED vars
  BY <1>1, <1>2 DEF vars, userFlags
<1>3. CASE SupplierCall
  BY <1>1, <1>3, SupplierCallFrame
<1>4. CASE BorrowerCall
  BY <1>4, OpenDebtFlagged, RepayFlagged, SwapFlagged DEF BorrowerCall, Borrow, ExecuteBorrow
<1>5. CASE LiquidatorCall
  BY <1>5, LiquidationFlagged DEF LiquidatorCall
<1>6. CASE OtherCall
  BY <1>1, <1>6
  DEF OtherCall, SetUserEMode, MintUnbacked, BackUnbacked, MintToTreasury, userFlags
<1>7. CASE Environment
  BY <1>1, <1>7, AccrueStableFlagged
  DEF Environment, Accrue, SetPrice, SequencerChange, userFlags
<1> QED
  BY <1>2, <1>3, <1>4, <1>5, <1>6, <1>7 DEF Next, PoolCall

(* Whoever owes anything of a reserve has its borrowing flag set, so no    *)
(* debt is left out of a health factor.                                    *)
THEOREM DebtsFlagged == Spec => []DebtFlagged
<1>1. Init => DebtFlagged
  BY DEF Init, DebtFlagged, Owes
<1>2. TypeOK /\ DebtFlagged /\ [Next]_vars => DebtFlagged'
  BY FlagStep
<1> QED
  BY <1>1, <1>2, TypeCorrect, PTL DEF Spec

-----------------------------------------------------------------------------
(* What the other groups of steps leave alone.                             *)

LEMMA BorrowerCallFrame ==
    ASSUME BorrowerCall
    PROVE  UNCHANGED <<governance, usingAsCollateral, eModeCategory>>
<1> DEFINE Frame == UNCHANGED <<governance, usingAsCollateral, eModeCategory>>
<1>1. ASSUME NEW u, NEW r, NEW x, NEW mode, Borrow(u, r, x, mode) PROVE Frame
  BY <1>1 DEF Borrow, ExecuteBorrow
<1>2. ASSUME NEW u, NEW r, NEW x, NEW mode, NEW useATokens, Repay(u, r, x, mode, useATokens)
      PROVE  Frame
  BY <1>2 DEF Repay
<1>3. ASSUME NEW u, NEW r, NEW mode, SwapBorrowRateMode(u, r, mode) PROVE Frame
  BY <1>3 DEF SwapBorrowRateMode, userFlags
<1> HIDE DEF Frame
<1>4. Frame
  BY <1>1, <1>2, <1>3 DEF BorrowerCall
<1> QED
  BY <1>4 DEF Frame

LEMMA LiquidatorCallFrame ==
    ASSUME LiquidatorCall
    PROVE  UNCHANGED <<governance, eModeCategory>>
<1>1. ASSUME NEW liquidator, NEW u, NEW rc, NEW rd, NEW x, NEW receiveAToken,
             LiquidationCall(liquidator, u, rc, rd, x, receiveAToken)
      PROVE  UNCHANGED <<governance, eModeCategory>>
  BY <1>1 DEF LiquidationCall
<1> QED
  BY <1>1 DEF LiquidatorCall

LEMMA OtherCallFrame ==
    ASSUME OtherCall
    PROVE  UNCHANGED <<governance, isolationModeTotalDebt, borrowing>>
<1> DEFINE Frame == UNCHANGED <<governance, isolationModeTotalDebt, borrowing>>
<1>1. ASSUME NEW u, NEW c, SetUserEMode(u, c) PROVE Frame
  BY <1>1 DEF SetUserEMode, userFlags
<1>2. ASSUME NEW u, NEW r, NEW x, MintUnbacked(u, r, x) PROVE Frame
  BY <1>2 DEF MintUnbacked
<1>3. ASSUME NEW r, NEW x, NEW fee, BackUnbacked(r, x, fee) PROVE Frame
  BY <1>3 DEF BackUnbacked, userFlags
<1>4. ASSUME NEW r, MintToTreasury(r) PROVE Frame
  BY <1>4 DEF MintToTreasury, userFlags
<1> HIDE DEF Frame
<1>5. Frame
  BY <1>1, <1>2, <1>3, <1>4 DEF OtherCall
<1> QED
  BY <1>5 DEF Frame

LEMMA EnvironmentFrame ==
    ASSUME Environment
    PROVE  UNCHANGED <<governance, isolationModeTotalDebt, userFlags, eModeCategory>>
  BY DEF Environment, Accrue, AccrueStable, SetPrice, SequencerChange

LEMMA ConfigFixed ==
    ASSUME [Next]_vars
    PROVE  config' = config
  BY SupplierCallFrame, BorrowerCallFrame, LiquidatorCallFrame, OtherCallFrame,
     EnvironmentFrame
  DEF Next, PoolCall, vars, governance

-----------------------------------------------------------------------------
(* Isolated collateral.                                                    *)

Exclusive(collateral) ==
    \A r \in collateral : config[r].debtCeiling # 0 => collateral = {r}
AllExclusive(collaterals) == \A u \in Users : Exclusive(collaterals[u])

LEMMA ExclusiveWithout ==
    ASSUME NEW S, Exclusive(S), NEW r
    PROVE  Exclusive(S \ {r})
  BY DEF Exclusive

LEMMA ExclusiveWith ==
    ASSUME NEW S \in SUBSET Reserves, Exclusive(S), NEW r \in Reserves,
           ValidateUseAsCollateral(S, r)
    PROVE  Exclusive(S \cup {r})
<1>1. CASE S = {}
  BY <1>1 DEF Exclusive
<1>2. CASE ~InIsolationMode(S) /\ config[r].debtCeiling = 0
  <2>1. \A q \in S : config[q].debtCeiling = 0
    BY <1>2 DEF Exclusive, InIsolationMode, InIsolationModeOn
  <2> QED
    BY <1>2, <2>1 DEF Exclusive
<1> QED
  BY <1>1, <1>2 DEF ValidateUseAsCollateral

LEMMA ExclusiveOnReceipt ==
    ASSUME NEW collaterals \in [Users -> SUBSET Reserves], AllExclusive(collaterals),
           NEW u \in Users, NEW r \in Reserves, NEW first, NEW sender
    PROVE  AllExclusive(CollateralOnReceipt(collaterals, u, r, first, sender))
<1>1. CASE ValidateUseAsCollateral(collaterals[u], r)
  <2>1. Exclusive(collaterals[u] \cup {r})
    BY <1>1, ExclusiveWith DEF AllExclusive
  <2>2. CollateralOnReceipt(collaterals, u, r, first, sender) \in
            {collaterals, [collaterals EXCEPT ![u] = @ \cup {r}]}
    BY DEF CollateralOnReceipt
  <2> QED
    BY <2>1, <2>2 DEF AllExclusive
<1>2. CASE ~ValidateUseAsCollateral(collaterals[u], r)
  BY <1>2 DEF CollateralOnReceipt, ValidateAutomaticUseAsCollateral
<1> QED
  BY <1>1, <1>2

LEMMA ExclusiveAfterRelease ==
    ASSUME NEW collaterals \in [Users -> SUBSET Reserves], AllExclusive(collaterals),
           NEW u \in Users, NEW r, NEW whole \in BOOLEAN
    PROVE  LET released == [collaterals EXCEPT ![u] = IF whole THEN @ \ {r} ELSE @]
           IN  released \in [Users -> SUBSET Reserves] /\ AllExclusive(released)
  BY ExclusiveWithout DEF AllExclusive

LEMMA SupplierCallExclusive ==
    ASSUME TypeOK, AllExclusive(usingAsCollateral), SupplierCall
    PROVE  AllExclusive(usingAsCollateral')
<1>0. usingAsCollateral \in [Users -> SUBSET Reserves]
  BY DEF TypeOK
<1>1. ASSUME NEW sender \in Users, NEW u \in Users, NEW r \in Reserves, NEW x \in Amounts,
             Supply(sender, u, r, x)
      PROVE  AllExclusive(usingAsCollateral')
  BY <1>0, <1>1, ExclusiveOnReceipt DEF Supply
<1>2. ASSUME NEW u \in Users, NEW r \in Reserves, NEW x \in Requests, Withdraw(u, r, x)
      PROVE  AllExclusive(usingAsCollateral')
  <2>1. PICK whole \in BOOLEAN :
            usingAsCollateral' = [usingAsCollateral EXCEPT ![u] = IF whole THEN @ \ {r} ELSE @]
    <3> DEFINE balance == BalanceOf(u, r)
               amount == IF x = MaxUint256 THEN balance ELSE x
    <3>1. usingAsCollateral' =
              [usingAsCollateral EXCEPT ![u] = IF amount = balance THEN @ \ {r} ELSE @]
      BY <1>2 DEF Withdraw
    <3> QED
      BY <3>1
  <2> QED
    BY <1>0, <2>1, ExclusiveAfterRelease
<1>3. ASSUME NEW u \in Users, NEW to \in Users, NEW r \in Reserves, NEW x \in Amounts,
             Transfer(u, to, r, x)
      PROVE  AllExclusive(usingAsCollateral')
  <2> DEFINE whole == x = BalanceOf(u, r)
             kept == [usingAsCollateral EXCEPT ![u] = IF whole THEN @ \ {r} ELSE @]
  <2>1. usingAsCollateral' = CollateralOnReceipt(kept, to, r, BalanceOf(to, r) = 0, NoAsset)
    BY <1>3 DEF Transfer
  <2>2. whole \in BOOLEAN
    OBVIOUS
  <2>3. kept \in [Users -> SUBSET Reserves] /\ AllExclusive(kept)
    <3> HIDE DEF whole
    <3> QED
      BY <1>0, <2>2, ExclusiveAfterRelease
  <2> HIDE DEF kept
  <2> QED
    BY <2>1, <2>3, ExclusiveOnReceipt
<1>4. ASSUME NEW u \in Users, NEW r \in Reserves, NEW use \in BOOLEAN,
             SetUserUseReserveAsCollateral(u, r, use)
      PROVE  AllExclusive(usingAsCollateral')
  <2>1. CASE use
    <3>1. Exclusive(usingAsCollateral[u] \cup {r})
      BY <1>0, <1>4, <2>1, ExclusiveWith DEF SetUserUseReserveAsCollateral, AllExclusive
    <3>2. usingAsCollateral' = [usingAsCollateral EXCEPT ![u] = @ \cup {r}]
      BY <1>4, <2>1 DEF SetUserUseReserveAsCollateral
    <3> QED
      BY <1>0, <3>1, <3>2 DEF AllExclusive
  <2>2. CASE ~use
    <3>1. usingAsCollateral' =
              [usingAsCollateral EXCEPT ![u] = IF TRUE THEN @ \ {r} ELSE @]
      BY <1>4, <2>2 DEF SetUserUseReserveAsCollateral
    <3> QED
      BY <1>0, <3>1, ExclusiveAfterRelease
  <2> QED
    BY <2>1, <2>2
<1> QED
  BY <1>1, <1>2, <1>3, <1>4 DEF SupplierCall

LEMMA LiquidatorCallExclusive ==
    ASSUME TypeOK, AllExclusive(usingAsCollateral), LiquidatorCall
    PROVE  AllExclusive(usingAsCollateral')
<1> SUFFICES ASSUME NEW liquidator \in Users, NEW u \in Users,
                    NEW rc \in Reserves, NEW rd \in Reserves,
                    NEW x \in Requests, NEW receiveAToken \in BOOLEAN,
                    LiquidationCall(liquidator, u, rc, rd, x, receiveAToken)
             PROVE  AllExclusive(usingAsCollateral')
  BY DEF LiquidatorCall
<1> DEFINE balance == BalanceOf(u, rc)
           quote == SeizedAndRepaid(rc, rd, eModeCategory[u], DebtToLiquidate(u, rd, x), balance)
           whole == quote.collateral = balance
           released == [usingAsCollateral EXCEPT ![u] = IF whole THEN @ \ {rc} ELSE @]
<1>1. usingAsCollateral' =
          CollateralOnReceipt(released, liquidator, rc,
              receiveAToken /\ BalanceOf(liquidator, rc) = 0, liquidator)
  BY DEF LiquidationCall
<1>2. whole \in BOOLEAN
  OBVIOUS
<1>3. released \in [Users -> SUBSET Reserves] /\ AllExclusive(released)
  <2> HIDE DEF whole
  <2> QED
    BY <1>2, ExclusiveAfterRelease DEF TypeOK
<1> HIDE DEF released
<1> QED
  BY <1>1, <1>3, ExclusiveOnReceipt

LEMMA OtherCallExclusive ==
    ASSUME TypeOK, AllExclusive(usingAsCollateral), OtherCall
    PROVE  AllExclusive(usingAsCollateral')
<1>1. ASSUME NEW u \in Users, NEW r \in Reserves, NEW x \in Amounts, MintUnbacked(u, r, x)
      PROVE  AllExclusive(usingAsCollateral')
  BY <1>1, ExclusiveOnReceipt DEF MintUnbacked, TypeOK
<1>2. ASSUME NEW u, NEW c, SetUserEMode(u, c) PROVE AllExclusive(usingAsCollateral')
  BY <1>2 DEF SetUserEMode, userFlags
<1>3. ASSUME NEW r, NEW x, NEW fee, BackUnbacked(r, x, fee)
      PROVE  AllExclusive(usingAsCollateral')
  BY <1>3 DEF BackUnbacked, userFlags
<1>4. ASSUME NEW r, MintToTreasury(r) PROVE AllExclusive(usingAsCollateral')
  BY <1>4 DEF MintToTreasury, userFlags
<1> QED
  BY <1>1, <1>2, <1>3, <1>4 DEF OtherCall

LEMMA IsolationStep ==
    ASSUME TypeOK, IsolationExclusive, [Next]_vars
    PROVE  IsolationExclusive'
<1>1. AllExclusive(usingAsCollateral)
  BY DEF IsolationExclusive, AllExclusive, Exclusive
<1>2. AllExclusive(usingAsCollateral')
  <2>1. CASE usingAsCollateral' = usingAsCollateral
    BY <1>1, <2>1
  <2>2. CASE Environment \/ BorrowerCall \/ UNCHANGED vars
    BY <2>1, <2>2, EnvironmentFrame, BorrowerCallFrame DEF userFlags, vars
  <2>3. CASE SupplierCall
    BY <1>1, <2>3, SupplierCallExclusive
  <2>4. CASE LiquidatorCall
    BY <1>1, <2>4, LiquidatorCallExclusive
  <2>5. CASE OtherCall
    BY <1>1, <2>5, OtherCallExclusive
  <2> QED
    BY <2>2, <2>3, <2>4, <2>5 DEF Next, PoolCall
<1> QED
  BY <1>2, ConfigFixed DEF IsolationExclusive, AllExclusive, Exclusive

(* Isolated collateral is never combined with other collateral, whether it *)
(* is switched on by a supply, a transfer, a liquidation, a bridge mint or *)
(* its owner.                                                              *)
THEOREM IsolationIsExclusive == Spec => []IsolationExclusive
<1>1. Init => IsolationExclusive
  BY DEF Init, IsolationExclusive
<1>2. TypeOK /\ IsolationExclusive /\ [Next]_vars => IsolationExclusive'
  BY IsolationStep
<1> QED
  BY <1>1, <1>2, TypeCorrect, PTL DEF Spec

-----------------------------------------------------------------------------
(* Siloed borrowing, efficiency mode and the debt ceiling.                 *)

(* The only way a borrowing flag is switched on.                           *)
LEMMA BorrowerFlags ==
    ASSUME TypeOK, BorrowerCall
    PROVE  \/ \A v \in Users : borrowing'[v] \subseteq borrowing[v]
           \/ \E u \in Users, r \in Reserves :
                 /\ borrowing' = [borrowing EXCEPT ![u] = @ \cup {r}]
                 /\ ValidateSiloedBorrow(u, r)
                 /\ eModeCategory[u] # NoCategory =>
                        config[r].eModeCategory = eModeCategory[u]
<1> DEFINE Shrinks == \A v \in Users : borrowing'[v] \subseteq borrowing[v]
           Grows(u, r) == /\ borrowing' = [borrowing EXCEPT ![u] = @ \cup {r}]
                          /\ ValidateSiloedBorrow(u, r)
                          /\ eModeCategory[u] # NoCategory =>
                                 config[r].eModeCategory = eModeCategory[u]
<1>1. ASSUME NEW u \in Users, NEW r \in Reserves, NEW mode, NEW x, Borrow(u, r, x, mode)
      PROVE  Shrinks \/ Grows(u, r)
  <2>1. /\ ValidateSiloedBorrow(u, r)
        /\ eModeCategory[u] # NoCategory => config[r].eModeCategory = eModeCategory[u]
        /\ OpenDebt(u, r, x, mode)
    BY <1>1 DEF Borrow, ExecuteBorrow, ValidateBorrow
  <2>2. borrowing' \in {borrowing, [borrowing EXCEPT ![u] = @ \cup {r}]}
    BY <2>1 DEF OpenDebt
  <2> QED
    BY <2>1, <2>2
<1>2. ASSUME NEW u \in Users, NEW r \in Reserves, NEW mode, NEW x, NEW useATokens,
             Repay(u, r, x, mode, useATokens)
      PROVE  Shrinks
  BY <1>2 DEF Repay, FlagsAfterRepay, TypeOK
<1>3. ASSUME NEW u \in Users, NEW r \in Reserves, NEW mode, SwapBorrowRateMode(u, r, mode)
      PROVE  Shrinks
  BY <1>3 DEF SwapBorrowRateMode, userFlags
<1> HIDE DEF Shrinks, Grows
<1>4. Shrinks \/ \E u \in Users, r \in Reserves : Grows(u, r)
  BY <1>1, <1>2, <1>3 DEF BorrowerCall
<1> QED
  BY <1>4 DEF Shrinks, Grows

LEMMA OtherFlags ==
    ASSUME TypeOK, [Next]_vars, ~BorrowerCall
    PROVE  \A v \in Users : borrowing'[v] \subseteq borrowing[v]
<1>1. CASE SupplierCall \/ OtherCall \/ Environment \/ UNCHANGED vars
  BY <1>1, SupplierCallFrame, OtherCallFrame, EnvironmentFrame DEF userFlags, vars
<1>2. CASE LiquidatorCall
  <2>1. ASSUME NEW liquidator, NEW u \in Users, NEW rc, NEW rd, NEW x, NEW receiveAToken,
               LiquidationCall(liquidator, u, rc, rd, x, receiveAToken)
        PROVE  \A v \in Users : borrowing'[v] \subseteq borrowing[v]
    BY <2>1 DEF LiquidationCall, FlagsAfterRepay, TypeOK
  <2> QED
    BY <1>2, <2>1 DEF LiquidatorCall
<1> QED
  BY <1>1, <1>2 DEF Next, PoolCall

LEMMA SiloedWith ==
    ASSUME TypeOK, SiloedExclusive, config' = config, NEW u \in Users, NEW r \in Reserves,
           borrowing' = [borrowing EXCEPT ![u] = @ \cup {r}],
           ValidateSiloedBorrow(u, r)
    PROVE  SiloedExclusive'
<1>1. borrowing \in [Users -> SUBSET Reserves]
  BY DEF TypeOK
<1>2. \A q \in borrowing[u] \cup {r} :
          config[q].siloedBorrowing => borrowing[u] \cup {r} = {q}
  <2>1. CASE borrowing[u] = {}
    BY <2>1
  <2>2. CASE borrowing[u] # {} /\ Siloed(borrowing[u])
    BY <2>2 DEF ValidateSiloedBorrow
  <2>3. CASE borrowing[u] # {} /\ ~Siloed(borrowing[u])
    <3>1. ~config[r].siloedBorrowing
      BY <2>3 DEF ValidateSiloedBorrow
    <3>2. \A q \in borrowing[u] : ~config[q].siloedBorrowing
      BY <2>3, <1>1 DEF SiloedExclusive, Siloed, SiloedOn
    <3> QED
      BY <3>1, <3>2
  <2> QED
    BY <2>1, <2>2, <2>3
<1>3. \A v \in Users : borrowing'[v] = IF v = u THEN borrowing[u] \cup {r} ELSE borrowing[v]
  BY <1>1
<1> QED
  BY <1>2, <1>3 DEF SiloedExclusive

LEMMA SiloedStep ==
    ASSUME TypeOK, SiloedExclusive, [Next]_vars
    PROVE  SiloedExclusive'
<1>1. CASE \A v \in Users : borrowing'[v] \subseteq borrowing[v]
  BY <1>1, ConfigFixed DEF SiloedExclusive
<1> QED
  BY <1>1, ConfigFixed, BorrowerFlags, OtherFlags, SiloedWith

(* A siloed asset is never borrowed together with another asset.           *)
THEOREM SiloedIsExclusive == Spec => []SiloedExclusive
<1>1. Init => SiloedExclusive
  BY DEF Init, SiloedExclusive
<1>2. TypeOK /\ SiloedExclusive /\ [Next]_vars => SiloedExclusive'
  BY SiloedStep
<1> QED
  BY <1>1, <1>2, TypeCorrect, PTL DEF Spec

(* A user in an eMode category owes assets of that category only.          *)
THEOREM EModeDebts == Spec => []EModeDebt
<1>1. Init => EModeDebt
  BY DEF Init, EModeDebt
<1>2. TypeOK /\ EModeDebt /\ [Next]_vars => EModeDebt'
  <2> SUFFICES ASSUME TypeOK, EModeDebt, [Next]_vars PROVE EModeDebt'
    OBVIOUS
  <2>1. borrowing \in [Users -> SUBSET Reserves]
        /\ eModeCategory \in [Users -> Categories \cup {NoCategory}]
    BY DEF TypeOK
  <2>2. ASSUME eModeCategory' = eModeCategory PROVE EModeDebt'
    <3>1. CASE \A v \in Users : borrowing'[v] \subseteq borrowing[v]
      BY <2>2, <3>1, ConfigFixed DEF EModeDebt
    <3>2. ASSUME NEW u \in Users, NEW r \in Reserves,
                 borrowing' = [borrowing EXCEPT ![u] = @ \cup {r}],
                 eModeCategory[u] # NoCategory => config[r].eModeCategory = eModeCategory[u]
          PROVE  EModeDebt'
      <4>1. \A v \in Users :
                borrowing'[v] = IF v = u THEN borrowing[u] \cup {r} ELSE borrowing[v]
        BY <2>1, <3>2
      <4> QED
        BY <2>2, <3>2, <4>1, ConfigFixed DEF EModeDebt
    <3> QED
      BY <3>1, <3>2, BorrowerFlags, OtherFlags
  <2>3. ASSUME NEW u \in Users, NEW c \in Categories \cup {NoCategory}, SetUserEMode(u, c)
        PROVE  EModeDebt'
    <3>1. /\ c # NoCategory => \A r \in borrowing[u] : config[r].eModeCategory = c
          /\ eModeCategory' = [eModeCategory EXCEPT ![u] = c]
          /\ borrowing' = borrowing
      BY <2>3 DEF SetUserEMode, ValidateSetUserEMode, userFlags
    <3>2. \A v \in Users : eModeCategory'[v] = IF v = u THEN c ELSE eModeCategory[v]
      BY <2>1, <3>1
    <3> QED
      BY <3>1, <3>2, ConfigFixed DEF EModeDebt
  <2>4. CASE OtherCall
    <3>1. ASSUME NEW u, NEW r, NEW x, MintUnbacked(u, r, x)
          PROVE  eModeCategory' = eModeCategory
      BY <3>1 DEF MintUnbacked
    <3>2. ASSUME NEW r, NEW x, NEW fee, BackUnbacked(r, x, fee)
          PROVE  eModeCategory' = eModeCategory
      BY <3>2 DEF BackUnbacked
    <3>3. ASSUME NEW r, MintToTreasury(r) PROVE eModeCategory' = eModeCategory
      BY <3>3 DEF MintToTreasury
    <3> QED
      BY <2>2, <2>3, <2>4, <3>1, <3>2, <3>3 DEF OtherCall
  <2> QED
    BY <2>2, <2>4, SupplierCallFrame, BorrowerCallFrame, LiquidatorCallFrame,
       EnvironmentFrame
    DEF Next, PoolCall, vars
<1> QED
  BY <1>1, <1>2, TypeCorrect, PTL DEF Spec

LEMMA CeilingAfterRepay ==
    ASSUME TypeOK, DebtWithinCeiling, [Next]_vars,
           NEW collateral, NEW r \in Reserves, NEW amount \in Nat,
           isolationModeTotalDebt' = IsolatedDebtAfterRepay(collateral, r, amount)
    PROVE  DebtWithinCeiling'
<1>1. CeilingAmount(r, amount) \in Nat
  BY CeilingAmountNat
<1>2. \A c \in Reserves : isolationModeTotalDebt[c] \in Nat /\ config[c].debtCeiling \in Nat
  BY DEF TypeOK, ReserveConfiguration
<1>3. \A c \in Reserves : isolationModeTotalDebt'[c] \in {0, isolationModeTotalDebt[c],
                                  isolationModeTotalDebt[c] - CeilingAmount(r, amount)}
  BY DEF IsolatedDebtAfterRepay
<1> QED
  BY <1>1, <1>2, <1>3, ConfigFixed DEF DebtWithinCeiling

LEMMA CeilingAfterBorrow ==
    ASSUME DebtWithinCeiling, NEW u, NEW r, NEW x, NEW mode, NEW eMode, NEW release,
           ExecuteBorrow(u, r, x, mode, eMode, release)
    PROVE  DebtWithinCeiling'
<1>1. /\ WithinDebtCeiling(u, r, x)
      /\ config' = config
      /\ isolationModeTotalDebt' =
             [c \in Reserves |->
                 IF InIsolationModeOn(c, usingAsCollateral[u])
                 THEN isolationModeTotalDebt[c] + CeilingAmount(r, x)
                 ELSE isolationModeTotalDebt[c]]
  BY DEF ExecuteBorrow, ValidateBorrow, governance
<1> QED
  BY <1>1 DEF WithinDebtCeiling, DebtWithinCeiling

LEMMA CeilingStep ==
    ASSUME TypeOK, DebtWithinCeiling, [Next]_vars
    PROVE  DebtWithinCeiling'
<1>1. ASSUME isolationModeTotalDebt' = isolationModeTotalDebt PROVE DebtWithinCeiling'
  BY <1>1, ConfigFixed DEF DebtWithinCeiling
<1>2. ASSUME NEW u \in Users, NEW r \in Reserves, NEW mode, NEW x, Borrow(u, r, x, mode)
      PROVE  DebtWithinCeiling'
  BY <1>2, CeilingAfterBorrow DEF Borrow
<1>3. ASSUME NEW u \in Users, NEW r \in Reserves, NEW mode \in InterestRateModes,
             NEW x \in Requests, NEW useATokens \in BOOLEAN,
             Repay(u, r, x, mode, useATokens)
      PROVE  DebtWithinCeiling'
  <2> DEFINE offered == IF useATokens /\ x = MaxUint256 THEN BalanceOf(u, r) ELSE x
             limit == IF mode = STABLE THEN stableDebt[u][r] ELSE VariableDebtOf(u, r)
             payback == AtMost(offered, limit)
  <2>1. isolationModeTotalDebt' = IsolatedDebtAfterRepay(usingAsCollateral[u], r, payback)
    BY <1>3 DEF Repay
  <2>2. offered \in Nat /\ limit \in Nat
    BY RequestNat, BalanceNat, DebtNat DEF Accounts
  <2>3. payback \in Nat
    BY <2>2, AtMostNat
  <2> HIDE DEF payback
  <2> QED
    BY <2>1, <2>3, CeilingAfterRepay
<1>4. ASSUME NEW liquidator \in Users, NEW u \in Users, NEW rc \in Reserves,
             NEW rd \in Reserves, NEW x \in Requests, NEW receiveAToken \in BOOLEAN,
             LiquidationCall(liquidator, u, rc, rd, x, receiveAToken)
      PROVE  DebtWithinCeiling'
  <2> DEFINE eMode == eModeCategory[u]
             balance == BalanceOf(u, rc)
             quote == SeizedAndRepaid(rc, rd, eMode, DebtToLiquidate(u, rd, x), balance)
             released == [usingAsCollateral EXCEPT
                             ![u] = IF quote.collateral = balance THEN @ \ {rc} ELSE @]
  <2>1. isolationModeTotalDebt' = IsolatedDebtAfterRepay(released[u], rd, quote.debt)
    BY <1>4 DEF LiquidationCall
  <2>2. quote.debt \in Nat
    <3>1. eMode \in Categories \cup {NoCategory} /\ LiquidationBonus(eMode, rc) # 0
      BY <1>4 DEF LiquidationCall, TypeOK
    <3>2. balance \in Nat /\ DebtToLiquidate(u, rd, x) \in Nat
      BY RequestNat, BalanceNat, DebtToLiquidateNat DEF Accounts
    <3> HIDE DEF eMode, balance
    <3> QED
      BY <3>1, <3>2, QuoteNat
  <2> HIDE DEF quote, released
  <2> QED
    BY <2>1, <2>2, CeilingAfterRepay
<1>5. CASE BorrowerCall
  <2>1. ASSUME NEW u, NEW r, NEW mode, SwapBorrowRateMode(u, r, mode)
        PROVE  isolationModeTotalDebt' = isolationModeTotalDebt
    BY <2>1 DEF SwapBorrowRateMode
  <2> QED
    BY <1>1, <1>2, <1>3, <1>5, <2>1 DEF BorrowerCall
<1>6. CASE LiquidatorCall
  BY <1>4, <1>6 DEF LiquidatorCall
<1> QED
  BY <1>1, <1>5, <1>6, SupplierCallFrame, OtherCallFrame, EnvironmentFrame
  DEF Next, PoolCall, vars

(* The debt counted against an isolated asset never passes its ceiling.    *)
THEOREM CeilingsHold == Spec => []DebtWithinCeiling
<1>1. Init => DebtWithinCeiling
  BY StorageAssumption DEF Init, DebtWithinCeiling, ReserveConfiguration
<1>2. TypeOK /\ DebtWithinCeiling /\ [Next]_vars => DebtWithinCeiling'
  BY CeilingStep
<1> QED
  BY <1>1, <1>2, TypeCorrect, PTL DEF Spec
=============================================================================
