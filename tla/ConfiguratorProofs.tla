------------------------- MODULE ConfiguratorProofs -------------------------
(***************************************************************************)
(* Theorems about PoolConfigurator.tla: what stays true of the pool while  *)
(* administrators change its configuration, and drop and list reserves,    *)
(* between the calls of its users, for every configuration.                *)
(***************************************************************************)
EXTENDS PoolConfigurator, AccountingProofs

-----------------------------------------------------------------------------
(* The types.                                                              *)

LEMMA NoConfigurationType ==
    NoConfiguration \in ReserveConfiguration
<1>1. 0 \in 0..PERCENTAGE_FACTOR
  BY ScaleAssumption
<1> QED
  BY <1>1 DEF NoConfiguration, ReserveConfiguration, NoCategory

(* The setters write one field, or the three of a collateral.              *)
LEMMA SwitchTypes ==
    ASSUME NEW c \in ReserveConfiguration, NEW on \in BOOLEAN
    PROVE  /\ [c EXCEPT !.borrowingEnabled = on] \in ReserveConfiguration
           /\ [c EXCEPT !.stableBorrowingEnabled = on] \in ReserveConfiguration
           /\ [c EXCEPT !.active = on] \in ReserveConfiguration
           /\ [c EXCEPT !.siloedBorrowing = on] \in ReserveConfiguration
           /\ [c EXCEPT !.paused = on] \in ReserveConfiguration
           /\ [c EXCEPT !.frozen = on] \in ReserveConfiguration
           /\ [c EXCEPT !.flashLoanEnabled = on] \in ReserveConfiguration
           /\ [c EXCEPT !.borrowableInIsolation = on] \in ReserveConfiguration
BY DEF ReserveConfiguration

LEMMA ParameterTypes ==
    ASSUME NEW c \in ReserveConfiguration, NEW n \in Nat
    PROVE  /\ n <= PERCENTAGE_FACTOR =>
                  /\ [c EXCEPT !.reserveFactor = n] \in ReserveConfiguration
                  /\ [c EXCEPT !.liquidationProtocolFee = n] \in ReserveConfiguration
           /\ [c EXCEPT !.borrowCap = n] \in ReserveConfiguration
           /\ [c EXCEPT !.supplyCap = n] \in ReserveConfiguration
           /\ [c EXCEPT !.unbackedMintCap = n] \in ReserveConfiguration
           /\ [c EXCEPT !.debtCeiling = n] \in ReserveConfiguration
BY DEF ReserveConfiguration

LEMMA CollateralTypes ==
    ASSUME NEW c \in ReserveConfiguration, NEW s \in CollateralSettings
    PROVE  [c EXCEPT !.ltv = s.ltv, !.liquidationThreshold = s.liquidationThreshold,
                     !.liquidationBonus = s.liquidationBonus] \in ReserveConfiguration
<1>1. s.ltv \in Nat /\ s.liquidationThreshold \in Nat /\ s.liquidationBonus \in Nat
  BY ConfiguratorAssumption
<1> QED
  BY <1>1 DEF ReserveConfiguration

LEMMA CategoryTypes ==
    ASSUME NEW c \in ReserveConfiguration, NEW category \in Categories \cup {NoCategory}
    PROVE  [c EXCEPT !.eModeCategory = category] \in ReserveConfiguration
BY DEF ReserveConfiguration

-----------------------------------------------------------------------------
(* What the configurator's calls change.                                   *)

(* A listed reserve gets a configuration, and the counted debt a number.   *)
Configured ==
    /\ \E r \in listed, c \in ReserveConfiguration : SetConfiguration(r, c)
    /\ isolationModeTotalDebt' \in [Reserves -> Nat]

LEMMA ReconfigureConfigures ==
    ASSUME GovernedTypeOK, NEW r, NEW c \in ReserveConfiguration, Reconfigure(r, c)
    PROVE  Configured
BY DEF Configured, Reconfigure, SetConfiguration, GovernedTypeOK, TypeOK

LEMMA SwitchConfigures ==
    ASSUME GovernedTypeOK, NEW r \in Reserves, SwitchCall(r)
    PROVE  Configured
<1>1. config[r] \in ReserveConfiguration
  BY DEF GovernedTypeOK, TypeOK
<1>2. PICK on \in BOOLEAN :
          \/ SetReserveBorrowing(r, on)
          \/ SetReserveStableRateBorrowing(r, on)
          \/ SetReserveActive(r, on)
          \/ SetSiloedBorrowing(r, on)
          \/ SetReservePause(r, on)
          \/ SetReserveFreeze(r, on)
          \/ SetReserveFlashLoaning(r, on)
          \/ SetBorrowableInIsolation(r, on)
  BY DEF SwitchCall
<1>3. \E c \in ReserveConfiguration : Reconfigure(r, c)
  BY <1>1, <1>2, SwitchTypes
  DEF SetReserveBorrowing, SetReserveStableRateBorrowing, SetReserveActive,
      SetSiloedBorrowing, SetReservePause, SetReserveFreeze, SetReserveFlashLoaning,
      SetBorrowableInIsolation
<1> QED
  BY <1>3, ReconfigureConfigures

LEMMA ParameterConfigures ==
    ASSUME GovernedTypeOK, NEW r \in Reserves, ParameterCall(r)
    PROVE  Configured
<1>1. config[r] \in ReserveConfiguration
  BY DEF GovernedTypeOK, TypeOK
<1>2. ASSUME NEW s \in CollateralSettings, ConfigureReserveAsCollateral(r, s)
      PROVE  Configured
  BY <1>1, <1>2, CollateralTypes, ReconfigureConfigures DEF ConfigureReserveAsCollateral
<1>3. ASSUME NEW c \in Categories \cup {NoCategory}, SetAssetEModeCategory(r, c)
      PROVE  Configured
  BY <1>1, <1>3, CategoryTypes, ReconfigureConfigures DEF SetAssetEModeCategory
<1>4. ASSUME NEW p \in Percentages,
             SetReserveFactor(r, p) \/ SetLiquidationProtocolFee(r, p)
      PROVE  Configured
  <2>1. p \in Nat
    BY ConfiguratorAssumption
  <2> QED
    BY <1>1, <1>4, <2>1, ParameterTypes, ReconfigureConfigures
    DEF SetReserveFactor, SetLiquidationProtocolFee
<1>5. ASSUME NEW cap \in Caps,
             SetBorrowCap(r, cap) \/ SetSupplyCap(r, cap) \/ SetUnbackedMintCap(r, cap)
      PROVE  Configured
  <2>1. cap \in Nat
    BY ConfiguratorAssumption
  <2> QED
    BY <1>1, <1>5, <2>1, ParameterTypes, ReconfigureConfigures
    DEF SetBorrowCap, SetSupplyCap, SetUnbackedMintCap
<1>6. ASSUME NEW ceiling \in Ceilings, SetDebtCeiling(r, ceiling) PROVE Configured
  <2>1. [config[r] EXCEPT !.debtCeiling = ceiling] \in ReserveConfiguration
    BY <1>1, ParameterTypes, ConfiguratorAssumption
  <2>2. isolationModeTotalDebt' \in [Reserves -> Nat]
    BY <1>6 DEF SetDebtCeiling, GovernedTypeOK, TypeOK
  <2> QED
    BY <1>6, <2>1, <2>2 DEF SetDebtCeiling, Configured, SetConfiguration
<1> QED
  BY <1>2, <1>3, <1>4, <1>5, <1>6 DEF ParameterCall

-----------------------------------------------------------------------------
(* Every call of the configurator keeps the types.                         *)

SlotsOK == listed \subseteq Reserves /\ \A r \in Reserves \ listed : config[r] = NoConfiguration

LEMMA ConfiguredType ==
    ASSUME GovernedTypeOK, Configured
    PROVE  TypeOK' /\ SlotsOK'
<1>1. PICK r \in listed, c \in ReserveConfiguration : SetConfiguration(r, c)
  BY DEF Configured
<1>2. /\ config' = [config EXCEPT ![r] = c]
      /\ listed' = listed
  BY <1>1 DEF SetConfiguration
<1>3. config' \in [Reserves -> ReserveConfiguration]
  BY <1>2 DEF GovernedTypeOK, TypeOK
<1>4. SlotsOK'
  BY <1>2 DEF SlotsOK, GovernedTypeOK, TypeOK
<1>5. TypeOK'
  BY <1>1, <1>3
  DEF GovernedTypeOK, TypeOK, Configured, SetConfiguration, positions, indices, aToken,
      debtTokens, userFlags, market
<1> QED
  BY <1>4, <1>5

LEMMA SetPoolPauseType ==
    ASSUME GovernedTypeOK, NEW paused \in BOOLEAN, SetPoolPause(paused)
    PROVE  TypeOK' /\ SlotsOK'
<1>1. \A r \in Reserves : [config[r] EXCEPT !.paused = paused] \in ReserveConfiguration
  BY SwitchTypes DEF GovernedTypeOK, TypeOK
<1>2. config' \in [Reserves -> ReserveConfiguration]
  BY <1>1 DEF SetPoolPause, GovernedTypeOK, TypeOK
<1>3. SlotsOK'
  BY DEF SlotsOK, GovernedTypeOK, SetPoolPause
<1>4. TypeOK'
  BY <1>2
  DEF GovernedTypeOK, TypeOK, SetPoolPause, positions, indices, aToken, debtTokens,
      userFlags, market
<1> QED
  BY <1>3, <1>4

LEMMA SetEModeCategoryType ==
    ASSUME GovernedTypeOK, NEW c \in Categories, NEW s \in CategorySettings,
           SetEModeCategory(c, s)
    PROVE  TypeOK' /\ SlotsOK'
<1>1. eModeCategories' \in [Categories -> EModeCategory]
  BY ConfiguratorAssumption DEF GovernedTypeOK, TypeOK, SetEModeCategory
<1>2. SlotsOK'
  BY DEF SlotsOK, GovernedTypeOK, SetEModeCategory
<1>3. TypeOK'
  BY <1>1
  DEF GovernedTypeOK, TypeOK, SetEModeCategory, positions, indices, aToken, debtTokens,
      userFlags, market
<1> QED
  BY <1>2, <1>3

LEMMA DropReserveType ==
    ASSUME GovernedTypeOK, NEW r \in Reserves, DropReserve(r)
    PROVE  TypeOK' /\ SlotsOK'
<1>1. RAY \in RAY..MaxIndex
  BY ScaleAssumption, PoolAssumption
<1>2. config' \in [Reserves -> ReserveConfiguration]
  BY NoConfigurationType DEF DropReserve, RecordDeleted, GovernedTypeOK, TypeOK
<1>3. SlotsOK'
  BY DEF SlotsOK, GovernedTypeOK, DropReserve, RecordDeleted, TypeOK
<1>4. /\ liquidityIndex' \in [Reserves -> RAY..MaxIndex]
      /\ variableBorrowIndex' \in [Reserves -> RAY..MaxIndex]
      /\ unbacked' \in [Reserves -> Nat]
      /\ isolationModeTotalDebt' \in [Reserves -> Nat]
  BY <1>1 DEF DropReserve, GovernedTypeOK, TypeOK
<1>5. TypeOK'
  BY <1>2, <1>4
  DEF GovernedTypeOK, TypeOK, DropReserve, aToken, debtTokens, userFlags, market
<1> QED
  BY <1>3, <1>5

LEMMA InitReserveType ==
    ASSUME GovernedTypeOK, NEW r \in Reserves, InitReserve(r)
    PROVE  TypeOK' /\ SlotsOK'
<1>1. [NoConfiguration EXCEPT !.active = TRUE] \in ReserveConfiguration
  BY NoConfigurationType, SwitchTypes
<1>2. config' \in [Reserves -> ReserveConfiguration]
  BY <1>1 DEF InitReserve, GovernedTypeOK, TypeOK
<1>3. SlotsOK'
  BY DEF SlotsOK, GovernedTypeOK, InitReserve, TypeOK
<1>4. /\ scaledBalance' \in [Accounts -> [Reserves -> Nat]]
      /\ aTokenSupply' \in [Reserves -> Nat]
      /\ scaledVariableDebt' \in [Users -> [Reserves -> Nat]]
      /\ variableDebtSupply' \in [Reserves -> Nat]
      /\ stableDebt' \in [Users -> [Reserves -> Nat]]
      /\ liquidity' \in [Reserves -> Nat]
  BY DEF InitReserve, GovernedTypeOK, TypeOK
<1>5. TypeOK'
  BY <1>2, <1>4 DEF GovernedTypeOK, TypeOK, InitReserve, indices, userFlags, market
<1> QED
  BY <1>3, <1>5

LEMMA ConfiguratorType ==
    ASSUME GovernedTypeOK, ConfiguratorCall
    PROVE  TypeOK' /\ SlotsOK'
<1>1. ASSUME NEW r \in Governed, SwitchCall(r) \/ ParameterCall(r) \/ ListingCall(r)
      PROVE  TypeOK' /\ SlotsOK'
  <2>1. r \in Reserves
    BY ConfiguratorAssumption
  <2> QED
    BY <1>1, <2>1, SwitchConfigures, ParameterConfigures, ConfiguredType, DropReserveType,
       InitReserveType
    DEF ListingCall
<1> QED
  BY <1>1, SetPoolPauseType, SetEModeCategoryType DEF ConfiguratorCall

LEMMA GovernedTypeStep ==
    ASSUME GovernedTypeOK, [GovernedNext]_governedVars
    PROVE  GovernedTypeOK'
<1>1. TypeOK /\ SlotsOK /\ changes \in Nat
  BY DEF GovernedTypeOK, SlotsOK
<1>2. ASSUME UNCHANGED governedVars PROVE TypeOK' /\ SlotsOK' /\ changes' \in Nat
  BY <1>1, <1>2, TypeStep DEF governedVars, vars, governance, SlotsOK
<1>3. ASSUME Next, UNCHANGED <<listed, changes>> PROVE TypeOK' /\ SlotsOK' /\ changes' \in Nat
  BY <1>1, <1>3, TypeStep, ConfigFixed DEF SlotsOK
<1>4. ASSUME ConfiguratorCall,
             changes' = IF UNCHANGED <<governance, listed>> THEN changes ELSE changes + 1
      PROVE  TypeOK' /\ SlotsOK' /\ changes' \in Nat
  BY <1>1, <1>4, ConfiguratorType
<1>5. TypeOK' /\ SlotsOK' /\ changes' \in Nat
  BY <1>2, <1>3, <1>4 DEF GovernedNext
<1> QED
  BY <1>5 DEF GovernedTypeOK, SlotsOK

(* Whatever the administrators do, every variable keeps its type, and an   *)
(* empty slot its blank configuration.                                     *)
THEOREM GovernedTypeCorrect == GovernedSpec => []GovernedTypeOK
<1>1. GovernedInit => GovernedTypeOK
  BY InitType DEF GovernedInit, GovernedTypeOK
<1>2. GovernedTypeOK /\ [GovernedNext]_governedVars => GovernedTypeOK'
  BY GovernedTypeStep
<1> QED
  BY <1>1, <1>2, PTL DEF GovernedSpec

-----------------------------------------------------------------------------
(* The configurator's calls move no token, but for the listing of a slot.  *)

LEMMA SwitchFrame ==
    ASSUME GovernedTypeOK, NEW r \in Reserves, SwitchCall(r) \/ ParameterCall(r)
    PROVE  UNCHANGED positions
<1>1. PICK s, c : SetConfiguration(s, c)
  BY SwitchConfigures, ParameterConfigures DEF Configured
<1> QED
  BY <1>1 DEF SetConfiguration

LEMMA ConfiguratorFrame ==
    ASSUME GovernedTypeOK, ConfiguratorCall
    PROVE  /\ UNCHANGED accruedToTreasury
           /\ UNCHANGED <<aToken, debtTokens, borrowing>> \/ \E r \in Reserves : InitReserve(r)
<1> DEFINE Kept == UNCHANGED <<aToken, debtTokens, borrowing, accruedToTreasury>>
<1>1. ASSUME NEW r \in Governed, SwitchCall(r) \/ ParameterCall(r)
      PROVE  Kept
  BY <1>1, SwitchFrame, ConfiguratorAssumption DEF positions, userFlags
<1>2. ASSUME NEW r \in Governed, ListingCall(r)
      PROVE  UNCHANGED accruedToTreasury /\ (Kept \/ InitReserve(r))
  BY <1>2 DEF ListingCall, DropReserve, InitReserve, userFlags
<1>3. ASSUME NEW paused, SetPoolPause(paused)
      PROVE  Kept
  BY <1>3 DEF SetPoolPause, positions, userFlags
<1>4. ASSUME NEW c, NEW s, SetEModeCategory(c, s)
      PROVE  Kept
  BY <1>4 DEF SetEModeCategory, positions, userFlags
<1> QED
  BY <1>1, <1>2, <1>3, <1>4, ConfiguratorAssumption DEF ConfiguratorCall

LEMMA ListingFlagged ==
    ASSUME GovernedTypeOK, DebtFlagged, NEW r \in Reserves, InitReserve(r)
    PROVE  DebtFlagged'
<1>1. \A u \in Users, q \in Reserves : Owes(u, q)' => Owes(u, q)
  BY DEF InitReserve, Owes, GovernedTypeOK, TypeOK
<1> QED
  BY <1>1 DEF DebtFlagged, InitReserve, userFlags

LEMMA GovernedFlagStep ==
    ASSUME GovernedTypeOK, DebtFlagged, [GovernedNext]_governedVars
    PROVE  DebtFlagged'
<1>1. ASSUME UNCHANGED <<debtTokens, borrowing>> PROVE DebtFlagged'
  BY <1>1 DEF DebtFlagged, Owes, debtTokens
<1>2. CASE UNCHANGED governedVars
  BY <1>1, <1>2 DEF governedVars, vars, userFlags
<1>3. CASE Next
  BY <1>3, FlagStep DEF GovernedTypeOK
<1>4. CASE ConfiguratorCall
  BY <1>1, <1>4, ConfiguratorFrame, ListingFlagged
<1> QED
  BY <1>2, <1>3, <1>4 DEF GovernedNext

(* No debt is invisible under any governance: neither dropping a reserve   *)
(* nor listing another in its slot leaves a debt without its flag.         *)
THEOREM GovernedDebtsFlagged == GovernedSpec => []DebtFlagged
<1>1. GovernedInit => DebtFlagged
  BY DEF GovernedInit, Init, DebtFlagged, Owes
<1>2. GovernedTypeOK /\ DebtFlagged /\ [GovernedNext]_governedVars => DebtFlagged'
  BY GovernedFlagStep
<1> QED
  BY <1>1, <1>2, GovernedTypeCorrect, PTL DEF GovernedSpec

-----------------------------------------------------------------------------
(* A paused reserve.                                                       *)

Still(u, r) ==
    /\ scaledBalance'[u][r] = scaledBalance[u][r]
    /\ scaledVariableDebt'[u][r] = scaledVariableDebt[u][r]
    /\ stableDebt'[u][r] = stableDebt[u][r]
(* Only the reserve's own positions move.                                  *)
OnlyIn(touched) == \A q \in Reserves \ touched, u \in Users : Still(u, q)

(* Each token writes the entries of one reserve.                           *)
LEMMA EntryWrites ==
    ASSUME NEW S, NEW f \in [S -> [Reserves -> Nat]], NEW a \in S, NEW r \in Reserves, NEW y
    PROVE  \A q \in Reserves \ {r}, u \in S : [f EXCEPT ![a][r] = y][u][q] = f[u][q]
OBVIOUS

LEMMA ATokenWrites ==
    ASSUME TypeOK, NEW a \in Accounts, NEW r \in Reserves, NEW x,
           MintAToken(a, r, x) \/ BurnAToken(a, r, x)
    PROVE  \A q \in Reserves \ {r}, u \in Users : scaledBalance'[u][q] = scaledBalance[u][q]
<1>1. PICK y : scaledBalance' = [scaledBalance EXCEPT ![a][r] = y]
  BY DEF MintAToken, BurnAToken
<1> QED
  BY <1>1, EntryWrites DEF TypeOK, Accounts

LEMMA VariableDebtWrites ==
    ASSUME TypeOK, NEW v \in Users, NEW r \in Reserves, NEW x,
           MintVariableDebt(v, r, x) \/ BurnVariableDebt(v, r, x)
    PROVE  \A q \in Reserves \ {r}, u \in Users :
               scaledVariableDebt'[u][q] = scaledVariableDebt[u][q]
<1>1. PICK y : scaledVariableDebt' = [scaledVariableDebt EXCEPT ![v][r] = y]
  BY DEF MintVariableDebt, BurnVariableDebt
<1> QED
  BY <1>1, EntryWrites DEF TypeOK

LEMMA StableDebtWrites ==
    ASSUME TypeOK, NEW v \in Users, NEW r \in Reserves, NEW x,
           MintStableDebt(v, r, x) \/ BurnStableDebt(v, r, x)
    PROVE  \A q \in Reserves \ {r}, u \in Users : stableDebt'[u][q] = stableDebt[u][q]
<1>1. PICK y : stableDebt' = [stableDebt EXCEPT ![v][r] = y]
  BY DEF MintStableDebt, BurnStableDebt
<1> QED
  BY <1>1, EntryWrites DEF TypeOK

LEMMA MovedWrites ==
    ASSUME NEW balances \in [Accounts -> [Reserves -> Int]],
           NEW from \in Accounts, NEW to \in Accounts, NEW r \in Reserves, NEW x \in Int
    PROVE  \A q \in Reserves \ {r}, a \in Accounts :
               Moved(balances, from, to, r, x)[a][q] = balances[a][q]
BY DEF Moved

(* The groups of calls.                                                    *)
LEMMA SupplierWrites ==
    ASSUME TypeOK, SupplierCall
    PROVE  OnlyIn({}) \/ \E r \in Reserves : ~config[r].paused /\ OnlyIn({r})
<1>1. UNCHANGED debtTokens
  BY SupplierCallFrame
<1>2. PICK v \in Users, r \in Reserves :
          \/ \E sender \in Users, x \in Amounts : Supply(sender, v, r, x)
          \/ \E x \in Requests : Withdraw(v, r, x)
          \/ \E to \in Users, x \in Amounts : Transfer(v, to, r, x)
          \/ \E use \in BOOLEAN : SetUserUseReserveAsCollateral(v, r, use)
  BY DEF SupplierCall
<1>3. ASSUME \A q \in Reserves \ {r}, u \in Users : scaledBalance'[u][q] = scaledBalance[u][q]
      PROVE  OnlyIn({r})
  BY <1>1, <1>3 DEF OnlyIn, Still, debtTokens
<1>4. v \in Accounts /\ Users \subseteq Accounts
  BY DEF Accounts
<1>5. ASSUME NEW sender, NEW x, Supply(sender, v, r, x)
      PROVE  ~config[r].paused /\ OnlyIn({r})
  BY <1>3, <1>4, <1>5, ATokenWrites DEF Supply, ValidateSupply, Operational
<1>6. ASSUME NEW x, Withdraw(v, r, x)
      PROVE  ~config[r].paused /\ OnlyIn({r})
  BY <1>3, <1>4, <1>6, ATokenWrites DEF Withdraw, ValidateWithdraw, Operational
<1>7. ASSUME NEW to \in Users, NEW x \in Amounts, Transfer(v, to, r, x)
      PROVE  ~config[r].paused /\ OnlyIn({r})
  <2>1. x \in Nat /\ to \in Accounts
    BY <1>4, StorageAssumption
  <2>2. rayDiv(x, liquidityIndex[r]) \in Int
    BY <2>1, ScaledNat
  <2>3. scaledBalance \in [Accounts -> [Reserves -> Int]]
    BY DEF TypeOK
  <2> QED
    BY <1>3, <1>4, <1>7, <2>1, <2>2, <2>3, MovedWrites DEF Transfer
<1>8. ASSUME NEW use, SetUserUseReserveAsCollateral(v, r, use)
      PROVE  OnlyIn({})
  BY <1>8 DEF SetUserUseReserveAsCollateral, OnlyIn, Still, aToken, debtTokens
<1> QED
  BY <1>2, <1>5, <1>6, <1>7, <1>8

LEMMA BorrowerWrites ==
    ASSUME TypeOK, BorrowerCall
    PROVE  \E r \in Reserves : ~config[r].paused /\ OnlyIn({r})
<1>1. PICK v \in Users, r \in Reserves, mode \in InterestRateModes :
          \/ \E x \in Amounts : Borrow(v, r, x, mode)
          \/ \E x \in Requests, useATokens \in BOOLEAN : Repay(v, r, x, mode, useATokens)
          \/ SwapBorrowRateMode(v, r, mode)
  BY DEF BorrowerCall
<1>2. v \in Accounts
  BY DEF Accounts
<1>3. ASSUME NEW x, Borrow(v, r, x, mode)
      PROVE  ~config[r].paused /\ OnlyIn({r})
  BY <1>3, VariableDebtWrites, StableDebtWrites
  DEF Borrow, ExecuteBorrow, OpenDebt, ValidateBorrow, Operational, OnlyIn, Still, aToken,
      variableDebtToken
<1>4. ASSUME NEW x, NEW useATokens, Repay(v, r, x, mode, useATokens)
      PROVE  ~config[r].paused /\ OnlyIn({r})
  <2>1. ~config[r].paused
    BY <1>4 DEF Repay, ValidateRepay, Operational
  <2>2. PICK y :
            /\ \/ BurnStableDebt(v, r, y) /\ UNCHANGED variableDebtToken
               \/ BurnVariableDebt(v, r, y) /\ UNCHANGED stableDebt
            /\ BurnAToken(v, r, y) \/ UNCHANGED aToken
    BY <1>4 DEF Repay, Settle
  <2> QED
    BY <1>2, <2>1, <2>2, VariableDebtWrites, StableDebtWrites, ATokenWrites
    DEF OnlyIn, Still, aToken, variableDebtToken
<1>5. ASSUME SwapBorrowRateMode(v, r, mode)
      PROVE  ~config[r].paused /\ OnlyIn({r})
  <2>1. /\ ~config[r].paused /\ UNCHANGED aToken
        /\ \E y : \/ BurnStableDebt(v, r, y) /\ MintVariableDebt(v, r, y)
                  \/ BurnVariableDebt(v, r, y) /\ MintStableDebt(v, r, y)
    BY <1>5 DEF SwapBorrowRateMode, ValidateSwapRateMode, Operational
  <2> QED
    BY <2>1, VariableDebtWrites, StableDebtWrites DEF OnlyIn, Still, aToken
<1> QED
  BY <1>1, <1>3, <1>4, <1>5

LEMMA SeizeWrites ==
    ASSUME TypeOK, NEW liquidator \in Users, NEW v \in Users, NEW rc \in Reserves,
           NEW seized \in Nat, NEW fee \in Nat, NEW receiveAToken \in BOOLEAN,
           SeizeATokens(liquidator, v, rc, seized, fee, receiveAToken)
    PROVE  \A q \in Reserves \ {rc}, a \in Accounts : scaledBalance'[a][q] = scaledBalance[a][q]
<1> DEFINE index == liquidityIndex[rc]
           scaled == rayDiv(seized, index)
           afterSeize == IF receiveAToken
                         THEN Moved(scaledBalance, v, liquidator, rc, scaled)
                         ELSE [scaledBalance EXCEPT ![v][rc] = @ - scaled]
           left == afterSeize[v][rc]
           paidFee == IF rayDiv(fee, index) > left THEN rayMul(left, index) ELSE fee
           scaledFee == rayDiv(paidFee, index)
<1>1. Users \subseteq Accounts /\ Treasury \in Accounts
  BY DEF Accounts
<1>2. scaled \in Nat /\ scaled <= scaledBalance[v][rc]
  BY ScaledNat DEF SeizeATokens
<1>3. scaledBalance \in [Accounts -> [Reserves -> Nat]]
  BY DEF TypeOK
<1>4. scaledBalance' = IF fee = 0 THEN afterSeize
                       ELSE Moved(afterSeize, v, Treasury, rc, scaledFee)
  BY DEF SeizeATokens
<1>5. afterSeize \in [Accounts -> [Reserves -> Nat]]
  <2> HIDE DEF scaled
  <2> QED
    BY <1>1, <1>2, <1>3, MovedType
<1>6. \A q \in Reserves \ {rc}, u \in Accounts : afterSeize[u][q] = scaledBalance[u][q]
  <2>1. scaledBalance \in [Accounts -> [Reserves -> Int]]
    BY <1>3
  <2> HIDE DEF scaled
  <2> QED
    BY <1>1, <1>2, <1>3, <2>1, MovedWrites, EntryWrites
<1>7. scaledFee \in Nat
  <2>1. left \in Nat
    <3> HIDE DEF afterSeize
    <3> QED
      BY <1>1, <1>5
  <2>2. paidFee \in Nat
    <3> HIDE DEF left
    <3> QED
      BY <2>1, IndexFacts, RayMulNat
  <2> HIDE DEF paidFee
  <2> QED
    BY <2>2, ScaledNat
<1> HIDE DEF index, scaled, afterSeize, left, paidFee, scaledFee
<1>8. /\ v \in Accounts /\ Treasury \in Accounts
      /\ afterSeize \in [Accounts -> [Reserves -> Int]] /\ scaledFee \in Int
  BY <1>1, <1>5, <1>7
<1>9. \A q \in Reserves \ {rc}, a \in Accounts :
          Moved(afterSeize, v, Treasury, rc, scaledFee)[a][q] = afterSeize[a][q]
  BY <1>8 DEF Moved
<1> QED
  BY <1>1, <1>4, <1>6, <1>9

LEMMA LiquidatorWrites ==
    ASSUME TypeOK, LiquidatorCall
    PROVE  \E rc, rd \in Reserves :
               ~config[rc].paused /\ ~config[rd].paused /\ OnlyIn({rc, rd})
<1>1. PICK liquidator \in Users, v \in Users, rc \in Reserves, rd \in Reserves :
          /\ ~config[rc].paused /\ ~config[rd].paused
          /\ LiquidationMoves(liquidator, v, rc, rd)
  BY LiquidatorFlows DEF Operational
<1>2. PICK covered \in Nat, seized \in Nat, fee \in Nat, receiveAToken \in BOOLEAN :
          /\ BurnDebtTokens(v, rd, covered)
          /\ SeizeATokens(liquidator, v, rc, seized, fee, receiveAToken)
  BY <1>1 DEF LiquidationMoves
<1>3. \A q \in Reserves \ {rc}, u \in Users : scaledBalance'[u][q] = scaledBalance[u][q]
  BY <1>2, SeizeWrites DEF Accounts
<1>4. \A q \in Reserves \ {rd}, u \in Users :
          /\ scaledVariableDebt'[u][q] = scaledVariableDebt[u][q]
          /\ stableDebt'[u][q] = stableDebt[u][q]
  <2>1. PICK y, z :
            \/ BurnVariableDebt(v, rd, y) /\ UNCHANGED stableDebt
            \/ BurnStableDebt(v, rd, z) /\ UNCHANGED variableDebtToken
            \/ BurnStableDebt(v, rd, z) /\ BurnVariableDebt(v, rd, y)
    BY <1>2 DEF BurnDebtTokens
  <2> QED
    BY <2>1, VariableDebtWrites, StableDebtWrites DEF variableDebtToken
<1>5. OnlyIn({rc, rd})
  BY <1>3, <1>4 DEF OnlyIn, Still
<1> QED
  BY <1>1, <1>5

LEMMA OtherWrites ==
    ASSUME TypeOK, OtherCall
    PROVE  OnlyIn({}) \/ \E r \in Reserves : ~config[r].paused /\ OnlyIn({r})
<1>1. ASSUME NEW u, NEW c, SetUserEMode(u, c) PROVE OnlyIn({})
  BY <1>1 DEF SetUserEMode, OnlyIn, Still, aToken, debtTokens
<1>2. ASSUME NEW v \in Users, NEW r \in Reserves, NEW x, MintUnbacked(v, r, x)
      PROVE  ~config[r].paused /\ OnlyIn({r})
  BY <1>2, ATokenWrites
  DEF MintUnbacked, ValidateSupply, Operational, OnlyIn, Still, debtTokens, Accounts
<1>3. ASSUME NEW r, NEW x, NEW fee, BackUnbacked(r, x, fee) PROVE OnlyIn({})
  BY <1>3 DEF BackUnbacked, OnlyIn, Still, aToken, debtTokens
<1>4. ASSUME NEW r \in Reserves, MintToTreasury(r) PROVE OnlyIn({})
  <2>1. PICK y : scaledBalance' = [scaledBalance EXCEPT ![Treasury][r] = y]
    BY <1>4 DEF MintToTreasury, MintAToken
  <2>2. \A u \in Users : scaledBalance'[u] = scaledBalance[u]
    BY <2>1, StorageAssumption DEF TypeOK, Accounts
  <2> QED
    BY <1>4, <2>2 DEF MintToTreasury, OnlyIn, Still, debtTokens
<1> QED
  BY <1>1, <1>2, <1>3, <1>4 DEF OtherCall

LEMMA ListingWrites ==
    ASSUME GovernedTypeOK, NEW r \in Reserves, InitReserve(r)
    PROVE  ~config[r].paused /\ OnlyIn({r})
<1>1. ~config[r].paused
  BY DEF InitReserve, GovernedTypeOK, NoConfiguration
<1>2. OnlyIn({r})
  BY DEF InitReserve, GovernedTypeOK, TypeOK, OnlyIn, Still, Accounts
<1> QED
  BY <1>1, <1>2

(* The calls that move the positions of a reserve look at its pause, and   *)
(* an unlisted slot is not paused.                                         *)
LEMMA PausedStill ==
    ASSUME GovernedTypeOK, [GovernedNext]_governedVars
    PROVE  \/ \A r \in Reserves : config[r].paused => \A u \in Users : Still(u, r)
           \/ Environment
<1> DEFINE Goal == \A r \in Reserves : config[r].paused => \A u \in Users : Still(u, r)
<1>1. ASSUME OnlyIn({}) PROVE Goal
  BY <1>1 DEF OnlyIn
<1>2. ASSUME NEW s \in Reserves, ~config[s].paused, OnlyIn({s}) PROVE Goal
  BY <1>2 DEF OnlyIn
<1>3. ASSUME NEW s \in Reserves, NEW t \in Reserves, ~config[s].paused, ~config[t].paused,
             OnlyIn({s, t})
      PROVE  Goal
  BY <1>3 DEF OnlyIn
<1>4. ASSUME UNCHANGED <<aToken, debtTokens>> PROVE Goal
  BY <1>4 DEF aToken, debtTokens, Still
<1>5. TypeOK
  BY DEF GovernedTypeOK
<1> HIDE DEF Goal
<1>6. CASE UNCHANGED governedVars
  BY <1>4, <1>6 DEF governedVars, vars, Goal
<1>7. CASE SupplierCall
  BY <1>1, <1>2, <1>5, <1>7, SupplierWrites DEF Goal
<1>8. CASE BorrowerCall
  BY <1>2, <1>5, <1>8, BorrowerWrites DEF Goal
<1>9. CASE LiquidatorCall
  BY <1>3, <1>5, <1>9, LiquidatorWrites DEF Goal
<1>10. CASE OtherCall
  BY <1>1, <1>2, <1>5, <1>10, OtherWrites DEF Goal
<1>11. CASE ConfiguratorCall
  BY <1>2, <1>4, <1>11, ConfiguratorFrame, ListingWrites DEF Goal
<1> QED
  BY <1>6, <1>7, <1>8, <1>9, <1>10, <1>11 DEF GovernedNext, Next, PoolCall

(* While a reserve is paused, no call of anybody, the listing of another   *)
(* asset included, moves a user's balance or debt of it.                   *)
THEOREM PausedReservesStandStill == GovernedSpec => PausedStandsStill
<1>1. ASSUME GovernedTypeOK, [GovernedNext]_governedVars
      PROVE  [\/ \A r \in Reserves : config[r].paused =>
                     \A u \in Users :
                         /\ scaledBalance'[u][r] = scaledBalance[u][r]
                         /\ scaledVariableDebt'[u][r] = scaledVariableDebt[u][r]
                         /\ stableDebt'[u][r] = stableDebt[u][r]
              \/ Environment]_governedVars
  BY <1>1, PausedStill DEF Still
<1> QED
  BY <1>1, GovernedTypeCorrect, PTL DEF GovernedSpec, PausedStandsStill

-----------------------------------------------------------------------------
(* A frozen reserve.                                                       *)

(* What the users hold of a reserve and what they owe of it do not grow.   *)
HoldingsShrink(q) ==
    aTokenSupply'[q] - scaledBalance'[Treasury][q] <= aTokenSupply[q] - scaledBalance[Treasury][q]
DebtsShrink(q) ==
    \A u \in Users : /\ scaledVariableDebt'[u][q] <= scaledVariableDebt[u][q]
                     /\ stableDebt'[u][q] <= stableDebt[u][q]
Shrinks(q) == HoldingsShrink(q) /\ DebtsShrink(q)
ShrinksBut(touched) == \A q \in Reserves \ touched : Shrinks(q)

LEMMA HoldingsStand ==
    ASSUME TypeOK, UNCHANGED aToken
    PROVE  \A q \in Reserves : HoldingsShrink(q)
BY DEF TypeOK, aToken, HoldingsShrink, Accounts

LEMMA DebtsStand ==
    ASSUME TypeOK, UNCHANGED debtTokens
    PROVE  \A q \in Reserves : DebtsShrink(q)
BY DEF TypeOK, debtTokens, DebtsShrink

LEMMA MintHoldings ==
    ASSUME TypeOK, NEW v \in Users, NEW r \in Reserves, NEW x \in Nat, MintAToken(v, r, x)
    PROVE  \A q \in Reserves \ {r} : HoldingsShrink(q)
<1> DEFINE scaled == rayDiv(x, liquidityIndex[r])
<1>1. scaled \in Nat
  BY ScaledNat
<1>2. /\ scaledBalance' = [scaledBalance EXCEPT ![v][r] = @ + scaled]
      /\ aTokenSupply' = [aTokenSupply EXCEPT ![r] = @ + scaled]
  BY DEF MintAToken
<1> HIDE DEF scaled
<1> QED
  BY <1>1, <1>2, StorageAssumption DEF TypeOK, HoldingsShrink, Accounts

LEMMA MintToTreasuryHoldings ==
    ASSUME TypeOK, NEW r \in Reserves, NEW x \in Nat, MintAToken(Treasury, r, x)
    PROVE  \A q \in Reserves : HoldingsShrink(q)
<1> DEFINE scaled == rayDiv(x, liquidityIndex[r])
<1>1. scaled \in Nat
  BY ScaledNat
<1>2. /\ scaledBalance' = [scaledBalance EXCEPT ![Treasury][r] = @ + scaled]
      /\ aTokenSupply' = [aTokenSupply EXCEPT ![r] = @ + scaled]
  BY DEF MintAToken
<1> HIDE DEF scaled
<1> QED
  BY <1>1, <1>2 DEF TypeOK, HoldingsShrink, Accounts

LEMMA BurnHoldings ==
    ASSUME TypeOK, NEW v \in Users, NEW r \in Reserves, NEW x \in Nat, BurnAToken(v, r, x)
    PROVE  \A q \in Reserves : HoldingsShrink(q)
<1> DEFINE scaled == rayDiv(x, liquidityIndex[r])
<1>1. scaled \in Nat
  BY ScaledNat
<1>2. /\ scaledBalance' = [scaledBalance EXCEPT ![v][r] = @ - scaled]
      /\ aTokenSupply' = [aTokenSupply EXCEPT ![r] = @ - scaled]
  BY DEF BurnAToken
<1> HIDE DEF scaled
<1> QED
  BY <1>1, <1>2, StorageAssumption DEF TypeOK, HoldingsShrink, Accounts

(* A move between users leaves the treasury's row, one to it raises it.    *)
LEMMA MovedTreasury ==
    ASSUME NEW balances \in [Accounts -> [Reserves -> Nat]], NEW from \in Users,
           NEW to \in Accounts, NEW r \in Reserves, NEW scaled \in Nat
    PROVE  \A q \in Reserves :
               balances[Treasury][q] <= Moved(balances, from, to, r, scaled)[Treasury][q]
<1> DEFINE debited == [balances EXCEPT ![from][r] = @ - scaled]
<1>1. from # Treasury /\ from \in Accounts /\ Treasury \in Accounts
  BY StorageAssumption DEF Accounts
<1>2. debited \in [Accounts -> [Reserves -> Int]] /\ debited[Treasury] = balances[Treasury]
  BY <1>1
<1>3. Moved(balances, from, to, r, scaled) = [debited EXCEPT ![to][r] = @ + scaled]
  BY DEF Moved
<1> HIDE DEF debited
<1> QED
  BY <1>1, <1>2, <1>3

LEMMA SeizeHoldings ==
    ASSUME TypeOK, NEW liquidator \in Users, NEW v \in Users, NEW rc \in Reserves,
           NEW seized \in Nat, NEW fee \in Nat, NEW receiveAToken \in BOOLEAN,
           SeizeATokens(liquidator, v, rc, seized, fee, receiveAToken)
    PROVE  \A q \in Reserves : HoldingsShrink(q)
<1> DEFINE index == liquidityIndex[rc]
           scaled == rayDiv(seized, index)
           afterSeize == IF receiveAToken
                         THEN Moved(scaledBalance, v, liquidator, rc, scaled)
                         ELSE [scaledBalance EXCEPT ![v][rc] = @ - scaled]
           left == afterSeize[v][rc]
           paidFee == IF rayDiv(fee, index) > left THEN rayMul(left, index) ELSE fee
           scaledFee == rayDiv(paidFee, index)
<1>1. v \in Accounts /\ liquidator \in Accounts /\ Treasury \in Accounts /\ Treasury # v
  BY StorageAssumption DEF Accounts
<1>2. scaled \in Nat /\ scaled <= scaledBalance[v][rc]
  BY ScaledNat DEF SeizeATokens
<1>3. scaledBalance \in [Accounts -> [Reserves -> Nat]] /\ aTokenSupply \in [Reserves -> Nat]
  BY DEF TypeOK
<1>4. /\ scaledBalance' = IF fee = 0 THEN afterSeize
                          ELSE Moved(afterSeize, v, Treasury, rc, scaledFee)
      /\ aTokenSupply' = IF receiveAToken THEN aTokenSupply
                         ELSE [aTokenSupply EXCEPT ![rc] = @ - scaled]
  BY DEF SeizeATokens
<1>5. afterSeize \in [Accounts -> [Reserves -> Nat]]
  <2> HIDE DEF scaled
  <2> QED
    BY <1>1, <1>2, <1>3, MovedType
<1>6. \A q \in Reserves : scaledBalance[Treasury][q] <= afterSeize[Treasury][q]
  <2> HIDE DEF scaled
  <2>1. \A q \in Reserves :
            scaledBalance[Treasury][q]
              <= Moved(scaledBalance, v, liquidator, rc, scaled)[Treasury][q]
    BY <1>1, <1>2, <1>3, MovedTreasury
  <2>2. \A q \in Reserves :
            scaledBalance[Treasury][q]
              <= [scaledBalance EXCEPT ![v][rc] = @ - scaled][Treasury][q]
    BY <1>1, <1>3
  <2> QED
    BY <2>1, <2>2
<1>7. scaledFee \in Nat
  <2>1. left \in Nat
    <3> HIDE DEF afterSeize
    <3> QED
      BY <1>1, <1>5
  <2>2. paidFee \in Nat
    <3> HIDE DEF left
    <3> QED
      BY <2>1, IndexFacts, RayMulNat
  <2> HIDE DEF paidFee
  <2> QED
    BY <2>2, ScaledNat
<1>8. \A q \in Reserves : aTokenSupply'[q] \in Int /\ aTokenSupply'[q] <= aTokenSupply[q]
  <2> HIDE DEF scaled
  <2> QED
    BY <1>2, <1>3, <1>4
<1>9. scaledBalance' \in [Accounts -> [Reserves -> Nat]]
  BY SeizeATokensType DEF ATokenType
<1> HIDE DEF afterSeize, scaledFee
<1>10. \A q \in Reserves :
           afterSeize[Treasury][q] <= Moved(afterSeize, v, Treasury, rc, scaledFee)[Treasury][q]
  BY <1>1, <1>5, <1>7, MovedTreasury
<1> HIDE DEF index, scaled, left, paidFee
<1>11. ASSUME NEW q \in Reserves
       PROVE  scaledBalance[Treasury][q] <= scaledBalance'[Treasury][q]
  <2> DEFINE moved == Moved(afterSeize, v, Treasury, rc, scaledFee)
             last == scaledBalance'
  <2>1. /\ scaledBalance[Treasury][q] \in Nat /\ afterSeize[Treasury][q] \in Nat
        /\ last[Treasury][q] \in Nat
    BY <1>1, <1>3, <1>5, <1>9
  <2>2. /\ scaledBalance[Treasury][q] <= afterSeize[Treasury][q]
        /\ afterSeize[Treasury][q] <= moved[Treasury][q]
    BY <1>6, <1>10
  <2>3. last = afterSeize \/ last = moved
    BY <1>4
  <2> HIDE DEF moved, last
  <2>4. scaledBalance[Treasury][q] <= last[Treasury][q]
    BY <2>1, <2>2, <2>3
  <2> QED
    BY <2>4 DEF last
<1> QED
  BY <1>1, <1>3, <1>8, <1>9, <1>11 DEF HoldingsShrink

LEMMA EntryLowered ==
    ASSUME NEW f \in [Users -> [Reserves -> Nat]], NEW v \in Users, NEW r \in Reserves,
           NEW d \in Nat
    PROVE  \A q \in Reserves, u \in Users : [f EXCEPT ![v][r] = @ - d][u][q] <= f[u][q]
OBVIOUS

LEMMA OthersKept ==
    ASSUME NEW f \in [Users -> [Reserves -> Nat]], NEW v \in Users, NEW r \in Reserves, NEW y
    PROVE  \A q \in Reserves \ {r}, u \in Users : [f EXCEPT ![v][r] = y][u][q] <= f[u][q]
<1>1. \A q \in Reserves, u \in Users : f[u][q] \in Nat
  OBVIOUS
<1> QED
  BY <1>1, EntryWrites

LEMMA VariableDebtShrinks ==
    ASSUME TypeOK, NEW v \in Users, NEW r \in Reserves, NEW x \in Nat
    PROVE  /\ BurnVariableDebt(v, r, x) =>
                  \A q \in Reserves, u \in Users :
                      scaledVariableDebt'[u][q] <= scaledVariableDebt[u][q]
           /\ MintVariableDebt(v, r, x) =>
                  \A q \in Reserves \ {r}, u \in Users :
                      scaledVariableDebt'[u][q] <= scaledVariableDebt[u][q]
<1>1. scaledVariableDebt \in [Users -> [Reserves -> Nat]]
  BY DEF TypeOK
<1>2. ASSUME BurnVariableDebt(v, r, x)
      PROVE  \A q \in Reserves, u \in Users :
                 scaledVariableDebt'[u][q] <= scaledVariableDebt[u][q]
  <2>1. PICK d \in Nat : scaledVariableDebt' = [scaledVariableDebt EXCEPT ![v][r] = @ - d]
    BY <1>2, ScaledNat DEF BurnVariableDebt
  <2> QED
    BY <1>1, <2>1, EntryLowered
<1>3. ASSUME MintVariableDebt(v, r, x)
      PROVE  \A q \in Reserves \ {r}, u \in Users :
                 scaledVariableDebt'[u][q] <= scaledVariableDebt[u][q]
  <2>1. PICK y : scaledVariableDebt' = [scaledVariableDebt EXCEPT ![v][r] = y]
    BY <1>3 DEF MintVariableDebt
  <2> QED
    BY <1>1, <2>1, OthersKept
<1> QED
  BY <1>2, <1>3

LEMMA StableDebtShrinks ==
    ASSUME TypeOK, NEW v \in Users, NEW r \in Reserves, NEW x \in Nat
    PROVE  /\ BurnStableDebt(v, r, x) =>
                  \A q \in Reserves, u \in Users : stableDebt'[u][q] <= stableDebt[u][q]
           /\ MintStableDebt(v, r, x) =>
                  \A q \in Reserves \ {r}, u \in Users : stableDebt'[u][q] <= stableDebt[u][q]
<1>1. stableDebt \in [Users -> [Reserves -> Nat]]
  BY DEF TypeOK
<1>2. ASSUME BurnStableDebt(v, r, x)
      PROVE  \A q \in Reserves, u \in Users : stableDebt'[u][q] <= stableDebt[u][q]
  BY <1>1, <1>2, EntryLowered DEF BurnStableDebt
<1>3. ASSUME MintStableDebt(v, r, x)
      PROVE  \A q \in Reserves \ {r}, u \in Users : stableDebt'[u][q] <= stableDebt[u][q]
  <2>1. PICK y : stableDebt' = [stableDebt EXCEPT ![v][r] = y]
    BY <1>3 DEF MintStableDebt
  <2> QED
    BY <1>1, <2>1, OthersKept
<1> QED
  BY <1>2, <1>3

LEMMA SameDebtsShrink ==
    ASSUME TypeOK
    PROVE  /\ UNCHANGED scaledVariableDebt =>
                  \A q \in Reserves, u \in Users :
                      scaledVariableDebt'[u][q] <= scaledVariableDebt[u][q]
           /\ UNCHANGED stableDebt =>
                  \A q \in Reserves, u \in Users : stableDebt'[u][q] <= stableDebt[u][q]
BY DEF TypeOK

LEMMA SupplierShrinks ==
    ASSUME TypeOK, SupplierCall
    PROVE  ShrinksBut({}) \/ \E r \in Reserves : ~config[r].frozen /\ ShrinksBut({r})
<1>1. \A q \in Reserves : DebtsShrink(q)
  BY SupplierCallFrame, DebtsStand
<1>2. PICK v \in Users, r \in Reserves :
          \/ \E sender \in Users, x \in Amounts : Supply(sender, v, r, x)
          \/ \E x \in Requests : Withdraw(v, r, x)
          \/ \E to \in Users, x \in Amounts : Transfer(v, to, r, x)
          \/ \E use \in BOOLEAN : SetUserUseReserveAsCollateral(v, r, use)
  BY DEF SupplierCall
<1>3. ASSUME NEW sender, NEW x \in Amounts, Supply(sender, v, r, x)
      PROVE  ~config[r].frozen /\ ShrinksBut({r})
  <2>1. x \in Nat
    BY StorageAssumption
  <2> QED
    BY <1>1, <1>3, <2>1, MintHoldings DEF Supply, ValidateSupply, ShrinksBut, Shrinks
<1>4. ASSUME NEW x \in Requests, Withdraw(v, r, x)
      PROVE  ShrinksBut({})
  <2>1. x \in Nat /\ BalanceOf(v, r) \in Nat
    BY RequestNat, BalanceNat DEF Accounts
  <2>2. PICK y \in Nat : BurnAToken(v, r, y)
    BY <1>4, <2>1 DEF Withdraw
  <2> QED
    BY <1>1, <2>2, BurnHoldings DEF ShrinksBut, Shrinks
<1>5. ASSUME NEW to \in Users, NEW x \in Amounts, Transfer(v, to, r, x)
      PROVE  ShrinksBut({})
  <2> DEFINE scaled == rayDiv(x, liquidityIndex[r])
  <2>1. /\ x \in Nat /\ to \in Accounts /\ v \in Accounts /\ Treasury \in Accounts
        /\ scaledBalance \in [Accounts -> [Reserves -> Nat]]
        /\ aTokenSupply \in [Reserves -> Nat]
    BY StorageAssumption DEF Accounts, TypeOK
  <2>2. scaled \in Nat
    BY <2>1, ScaledNat
  <2>3. /\ scaled <= scaledBalance[v][r] /\ aTokenSupply' = aTokenSupply
        /\ scaledBalance' = Moved(scaledBalance, v, to, r, scaled)
    BY <1>5 DEF Transfer
  <2> HIDE DEF scaled
  <2>4. scaledBalance' \in [Accounts -> [Reserves -> Nat]]
    BY <2>1, <2>2, <2>3, MovedType
  <2>5. \A q \in Reserves : scaledBalance[Treasury][q] <= scaledBalance'[Treasury][q]
    BY <2>1, <2>2, <2>3, MovedTreasury
  <2>6. \A q \in Reserves : HoldingsShrink(q)
    BY <2>1, <2>3, <2>4, <2>5 DEF HoldingsShrink
  <2> QED
    BY <1>1, <2>6 DEF ShrinksBut, Shrinks
<1>6. ASSUME NEW use, SetUserUseReserveAsCollateral(v, r, use)
      PROVE  ShrinksBut({})
  BY <1>1, <1>6, HoldingsStand DEF SetUserUseReserveAsCollateral, ShrinksBut, Shrinks
<1> QED
  BY <1>2, <1>3, <1>4, <1>5, <1>6

LEMMA BorrowerShrinks ==
    ASSUME TypeOK, BorrowerCall
    PROVE  ShrinksBut({}) \/ \E r \in Reserves : ~config[r].frozen /\ ShrinksBut({r})
<1>1. PICK v \in Users, r \in Reserves, mode \in InterestRateModes :
          \/ \E x \in Amounts : Borrow(v, r, x, mode)
          \/ \E x \in Requests, useATokens \in BOOLEAN : Repay(v, r, x, mode, useATokens)
          \/ SwapBorrowRateMode(v, r, mode)
  BY DEF BorrowerCall
<1>2. ASSUME NEW x \in Amounts, Borrow(v, r, x, mode)
      PROVE  ~config[r].frozen /\ ShrinksBut({r})
  <2>1. x \in Nat
    BY StorageAssumption
  <2>2. /\ ~config[r].frozen /\ UNCHANGED aToken
        /\ \/ MintStableDebt(v, r, x) /\ UNCHANGED scaledVariableDebt
           \/ MintVariableDebt(v, r, x) /\ UNCHANGED stableDebt
    BY <1>2 DEF Borrow, ExecuteBorrow, OpenDebt, ValidateBorrow, variableDebtToken
  <2>3. \A q \in Reserves \ {r} : DebtsShrink(q)
    BY <2>1, <2>2, VariableDebtShrinks, StableDebtShrinks, SameDebtsShrink DEF DebtsShrink
  <2> QED
    BY <2>2, <2>3, HoldingsStand DEF ShrinksBut, Shrinks
<1>3. ASSUME NEW x \in Requests, NEW useATokens, Repay(v, r, x, mode, useATokens)
      PROVE  ShrinksBut({})
  <2> DEFINE offered == IF useATokens /\ x = MaxUint256 THEN BalanceOf(v, r) ELSE x
             payback == AtMost(offered, IF mode = STABLE THEN stableDebt[v][r]
                                                         ELSE VariableDebtOf(v, r))
  <2>1. payback \in Nat
    <3>1. offered \in Nat
      BY RequestNat, BalanceNat DEF Accounts
    <3>2. (IF mode = STABLE THEN stableDebt[v][r] ELSE VariableDebtOf(v, r)) \in Nat
      BY DebtNat
    <3> QED
      BY <3>1, <3>2, AtMostNat
  <2>2. /\ \/ BurnStableDebt(v, r, payback) /\ UNCHANGED scaledVariableDebt
           \/ BurnVariableDebt(v, r, payback) /\ UNCHANGED stableDebt
        /\ BurnAToken(v, r, payback) \/ UNCHANGED aToken
    BY <1>3 DEF Repay, Settle, variableDebtToken
  <2> HIDE DEF payback
  <2>3. \A q \in Reserves : DebtsShrink(q)
    BY <2>1, <2>2, VariableDebtShrinks, StableDebtShrinks, SameDebtsShrink DEF DebtsShrink
  <2> QED
    BY <2>1, <2>2, <2>3, BurnHoldings, HoldingsStand DEF ShrinksBut, Shrinks
<1>4. ASSUME SwapBorrowRateMode(v, r, mode)
      PROVE  ~config[r].frozen /\ ShrinksBut({r})
  <2>1. stableDebt[v][r] \in Nat /\ VariableDebtOf(v, r) \in Nat
    BY DebtNat
  <2>2. PICK y \in Nat :
            \/ BurnStableDebt(v, r, y) /\ MintVariableDebt(v, r, y)
            \/ BurnVariableDebt(v, r, y) /\ MintStableDebt(v, r, y)
    BY <1>4, <2>1 DEF SwapBorrowRateMode
  <2>3. ~config[r].frozen /\ UNCHANGED aToken
    BY <1>4 DEF SwapBorrowRateMode, ValidateSwapRateMode
  <2>4. \A q \in Reserves \ {r} : DebtsShrink(q)
    BY <2>2, VariableDebtShrinks, StableDebtShrinks DEF DebtsShrink
  <2> QED
    BY <2>3, <2>4, HoldingsStand DEF ShrinksBut, Shrinks
<1> QED
  BY <1>1, <1>2, <1>3, <1>4

LEMMA LiquidatorShrinks ==
    ASSUME TypeOK, LiquidatorCall
    PROVE  ShrinksBut({})
<1>1. PICK liquidator \in Users, v \in Users, rc \in Reserves, rd \in Reserves :
          LiquidationMoves(liquidator, v, rc, rd)
  BY LiquidatorFlows
<1>2. PICK covered \in Nat, seized \in Nat, fee \in Nat, receiveAToken \in BOOLEAN :
          /\ BurnDebtTokens(v, rd, covered)
          /\ SeizeATokens(liquidator, v, rc, seized, fee, receiveAToken)
  BY <1>1 DEF LiquidationMoves
<1>3. \A q \in Reserves : HoldingsShrink(q)
  BY <1>2, SeizeHoldings
<1>4. VariableDebtOf(v, rd) \in Nat
  BY DebtNat
<1>5. PICK y \in Nat, z \in Nat :
          \/ BurnVariableDebt(v, rd, y) /\ UNCHANGED stableDebt
          \/ BurnStableDebt(v, rd, z) /\ UNCHANGED scaledVariableDebt
          \/ BurnStableDebt(v, rd, z) /\ BurnVariableDebt(v, rd, y)
  <2>1. CASE BurnVariableDebt(v, rd, covered) /\ UNCHANGED stableDebt
    BY <2>1
  <2>2. CASE /\ VariableDebtOf(v, rd) < covered
             /\ BurnStableDebt(v, rd, covered - VariableDebtOf(v, rd))
             /\ \/ BurnVariableDebt(v, rd, VariableDebtOf(v, rd))
                \/ UNCHANGED variableDebtToken
    <3>1. covered - VariableDebtOf(v, rd) \in Nat
      BY <1>4, <2>2
    <3> QED
      BY <1>4, <2>2, <3>1 DEF variableDebtToken
  <2> QED
    BY <1>2, <2>1, <2>2 DEF BurnDebtTokens
<1>6. \A q \in Reserves : DebtsShrink(q)
  BY <1>5, VariableDebtShrinks, StableDebtShrinks, SameDebtsShrink DEF DebtsShrink
<1> QED
  BY <1>3, <1>6 DEF ShrinksBut, Shrinks

LEMMA OtherShrinks ==
    ASSUME TypeOK, OtherCall
    PROVE  ShrinksBut({}) \/ \E r \in Reserves : ~config[r].frozen /\ ShrinksBut({r})
<1>1. ASSUME UNCHANGED <<aToken, debtTokens>> PROVE ShrinksBut({})
  BY <1>1, HoldingsStand, DebtsStand DEF ShrinksBut, Shrinks
<1>2. ASSUME NEW u, NEW c, SetUserEMode(u, c) PROVE ShrinksBut({})
  BY <1>1, <1>2 DEF SetUserEMode
<1>3. ASSUME NEW v \in Users, NEW r \in Reserves, NEW x \in Amounts, MintUnbacked(v, r, x)
      PROVE  ~config[r].frozen /\ ShrinksBut({r})
  <2>1. x \in Nat
    BY StorageAssumption
  <2> QED
    BY <1>3, <2>1, MintHoldings, DebtsStand
    DEF MintUnbacked, ValidateSupply, ShrinksBut, Shrinks
<1>4. ASSUME NEW r, NEW x, NEW fee, BackUnbacked(r, x, fee) PROVE ShrinksBut({})
  BY <1>1, <1>4 DEF BackUnbacked
<1>5. ASSUME NEW r \in Reserves, MintToTreasury(r) PROVE ShrinksBut({})
  <2>1. rayMul(accruedToTreasury[r], liquidityIndex[r]) \in Nat
    BY IndexFacts, RayMulNat DEF TypeOK
  <2> QED
    BY <1>5, <2>1, MintToTreasuryHoldings, DebtsStand DEF MintToTreasury, ShrinksBut, Shrinks
<1> QED
  BY <1>2, <1>3, <1>4, <1>5 DEF OtherCall

LEMMA ListingShrinks ==
    ASSUME GovernedTypeOK, NEW r \in Reserves, InitReserve(r)
    PROVE  ~config[r].frozen /\ ShrinksBut({r})
<1>1. ~config[r].frozen
  BY DEF InitReserve, GovernedTypeOK, NoConfiguration
<1>2. \A q \in Reserves \ {r} : HoldingsShrink(q)
  BY DEF InitReserve, GovernedTypeOK, TypeOK, HoldingsShrink, Accounts
<1>3. \A q \in Reserves \ {r} : DebtsShrink(q)
  BY DEF InitReserve, GovernedTypeOK, TypeOK, DebtsShrink
<1> QED
  BY <1>1, <1>2, <1>3 DEF ShrinksBut, Shrinks

LEMMA FrozenShrinks ==
    ASSUME GovernedTypeOK, [GovernedNext]_governedVars
    PROVE  (\A r \in Reserves : config[r].frozen => Shrinks(r)) \/ Environment
<1> DEFINE Goal == \A r \in Reserves : config[r].frozen => Shrinks(r)
<1>1. ASSUME ShrinksBut({}) PROVE Goal
  BY <1>1 DEF ShrinksBut
<1>2. ASSUME NEW s \in Reserves, ~config[s].frozen, ShrinksBut({s}) PROVE Goal
  BY <1>2 DEF ShrinksBut
<1>3. TypeOK
  BY DEF GovernedTypeOK
<1>4. ASSUME UNCHANGED <<aToken, debtTokens>> PROVE Goal
  BY <1>3, <1>4, HoldingsStand, DebtsStand DEF Shrinks
<1> HIDE DEF Goal
<1>5. CASE UNCHANGED governedVars
  BY <1>4, <1>5 DEF governedVars, vars, Goal
<1>6. CASE SupplierCall
  BY <1>1, <1>2, <1>3, <1>6, SupplierShrinks DEF Goal
<1>7. CASE BorrowerCall
  BY <1>1, <1>2, <1>3, <1>7, BorrowerShrinks DEF Goal
<1>8. CASE LiquidatorCall
  BY <1>1, <1>3, <1>8, LiquidatorShrinks DEF Goal
<1>9. CASE OtherCall
  BY <1>1, <1>2, <1>3, <1>9, OtherShrinks DEF Goal
<1>10. CASE ConfiguratorCall
  BY <1>2, <1>4, <1>10, ConfiguratorFrame, ListingShrinks DEF Goal
<1> QED
  BY <1>5, <1>6, <1>7, <1>8, <1>9, <1>10 DEF GovernedNext, Next, PoolCall

(* While a reserve is frozen, no call of anybody raises what the users     *)
(* hold of it or what one of them owes of it in either mode.               *)
THEOREM FrozenReservesOnlyShrink == GovernedSpec => FrozenOnlyShrinks
<1>1. ASSUME GovernedTypeOK, [GovernedNext]_governedVars
      PROVE  [\/ \A r \in Reserves : config[r].frozen =>
                     /\ aTokenSupply'[r] - scaledBalance'[Treasury][r]
                          <= aTokenSupply[r] - scaledBalance[Treasury][r]
                     /\ \A u \in Users :
                            /\ scaledVariableDebt'[u][r] <= scaledVariableDebt[u][r]
                            /\ stableDebt'[u][r] <= stableDebt[u][r]
              \/ Environment]_governedVars
  BY <1>1, FrozenShrinks DEF Shrinks, HoldingsShrink, DebtsShrink
<1> QED
  BY <1>1, GovernedTypeCorrect, PTL DEF GovernedSpec, FrozenOnlyShrinks

-----------------------------------------------------------------------------
(* The books under governance.                                             *)

LEMMA ListingAddsUp ==
    ASSUME GovernedTypeOK, SuppliesAddUp, NEW r \in Reserves, InitReserve(r)
    PROVE  SuppliesAddUp'
<1>1. /\ DOMAIN scaledBalance = Accounts /\ DOMAIN scaledBalance' = Accounts
      /\ DOMAIN scaledVariableDebt = Users /\ DOMAIN scaledVariableDebt' = Users
  BY DEF InitReserve, GovernedTypeOK, TypeOK
<1>2. /\ \A a \in Accounts : scaledBalance'[a][r] = 0
      /\ \A u \in Users : scaledVariableDebt'[u][r] = 0
      /\ aTokenSupply'[r] = 0 /\ variableDebtSupply'[r] = 0
  BY DEF InitReserve, GovernedTypeOK, TypeOK
<1>3. /\ Total(scaledBalance', r) = 0
      /\ Total(scaledVariableDebt', r) = 0
  BY <1>1, <1>2, TotalOfNothing
<1>4. ASSUME NEW q \in Reserves \ {r}
      PROVE  /\ aTokenSupply'[q] = Total(scaledBalance', q)
             /\ variableDebtSupply'[q] = Total(scaledVariableDebt', q)
  <2>1. /\ \A a \in Accounts : scaledBalance'[a][q] = scaledBalance[a][q]
        /\ \A u \in Users : scaledVariableDebt'[u][q] = scaledVariableDebt[u][q]
        /\ aTokenSupply'[q] = aTokenSupply[q]
        /\ variableDebtSupply'[q] = variableDebtSupply[q]
    BY DEF InitReserve, GovernedTypeOK, TypeOK
  <2>2. /\ Total(scaledBalance', q) = Total(scaledBalance, q)
        /\ Total(scaledVariableDebt', q) = Total(scaledVariableDebt, q)
    BY <1>1, <2>1, TotalUnchanged
  <2> QED
    BY <2>1, <2>2 DEF SuppliesAddUp
<1> QED
  BY <1>2, <1>3, <1>4 DEF SuppliesAddUp

LEMMA GovernedAddUpStep ==
    ASSUME GovernedTypeOK, SuppliesAddUp, [GovernedNext]_governedVars
    PROVE  SuppliesAddUp'
<1>1. ASSUME UNCHANGED <<aToken, debtTokens>> PROVE SuppliesAddUp'
  BY <1>1 DEF SuppliesAddUp, aToken, debtTokens
<1>2. CASE UNCHANGED governedVars
  BY <1>1, <1>2 DEF governedVars, vars
<1>3. CASE Next
  <2>1. ATokensAddUp' /\ VariableDebtsAddUp'
    BY <1>3, AddUpStep, SuppliesParts DEF GovernedTypeOK
  <2> QED
    BY <2>1 DEF SuppliesAddUp, ATokensAddUp, VariableDebtsAddUp
<1>4. CASE ConfiguratorCall
  BY <1>1, <1>4, ConfiguratorFrame, ListingAddsUp
<1> QED
  BY <1>2, <1>3, <1>4 DEF GovernedNext

(* The supplies are the sums of the balances under any governance, in a    *)
(* slot that was emptied and listed anew as well.                          *)
THEOREM GovernedSuppliesAddUp == GovernedSpec => []SuppliesAddUp
<1>1. GovernedInit => SuppliesAddUp
  BY InitAddsUp, SuppliesParts DEF GovernedInit
<1>2. GovernedTypeOK /\ SuppliesAddUp /\ [GovernedNext]_governedVars => SuppliesAddUp'
  BY GovernedAddUpStep
<1> QED
  BY <1>1, <1>2, GovernedTypeCorrect, PTL DEF GovernedSpec

-----------------------------------------------------------------------------
(* A reserve that is off.                                                  *)

Bare(r) ==
    /\ \A a \in Accounts : scaledBalance[a][r] = 0
    /\ accruedToTreasury[r] # 0 => variableDebtSupply[r] # 0 \/ TotalStableDebt(r) # 0

(* What a step leaves alone of a reserve.                                  *)
Stands(r) ==
    /\ \A a \in Accounts : scaledBalance'[a][r] = scaledBalance[a][r]
    /\ variableDebtSupply'[r] = variableDebtSupply[r]
    /\ \A u \in Users : stableDebt'[u][r] = stableDebt[u][r]
StaysBare(r) ==
    /\ Bare(r)'
    /\ variableDebtSupply'[r] = variableDebtSupply[r]
    /\ TotalStableDebt(r) = 0 => TotalStableDebt(r)' = 0

LEMMA StandingDebt ==
    ASSUME TypeOK, TypeOK', NEW r \in Reserves,
           \A u \in Users : stableDebt'[u][r] = stableDebt[u][r]
    PROVE  TotalStableDebt(r)' = TotalStableDebt(r)
<1>1. DOMAIN stableDebt = Users /\ DOMAIN stableDebt' = Users
  BY DEF TypeOK
<1>2. Total(stableDebt', r) = Total(stableDebt, r)
  BY <1>1, TotalUnchanged
<1> QED
  BY <1>2 DEF TotalStableDebt

LEMMA StandingBare ==
    ASSUME TypeOK, TypeOK', NEW r \in Reserves, Bare(r), Stands(r),
           \/ accruedToTreasury'[r] = accruedToTreasury[r]
           \/ accruedToTreasury[r] # 0
    PROVE  StaysBare(r)
<1>1. TotalStableDebt(r)' = TotalStableDebt(r)
  BY StandingDebt DEF Stands
<1> QED
  BY <1>1 DEF Bare, Stands, StaysBare

LEMMA SupplyWrites ==
    ASSUME NEW f \in [Reserves -> Nat], NEW r \in Reserves, NEW y
    PROVE  \A q \in Reserves \ {r} : [f EXCEPT ![r] = y][q] = f[q]
OBVIOUS

LEMMA TokensStand ==
    ASSUME TypeOK, NEW r \in Reserves, NEW s \in Reserves \ {r}, NEW x
    PROVE  /\ \A a \in Accounts : MintAToken(a, s, x) \/ BurnAToken(a, s, x) =>
                  \A b \in Accounts : scaledBalance'[b][r] = scaledBalance[b][r]
           /\ \A u \in Users : MintVariableDebt(u, s, x) \/ BurnVariableDebt(u, s, x) =>
                  variableDebtSupply'[r] = variableDebtSupply[r]
           /\ \A u \in Users : MintStableDebt(u, s, x) \/ BurnStableDebt(u, s, x) =>
                  \A v \in Users : stableDebt'[v][r] = stableDebt[v][r]
<1>1. ASSUME NEW a \in Accounts, MintAToken(a, s, x) \/ BurnAToken(a, s, x)
      PROVE  \A b \in Accounts : scaledBalance'[b][r] = scaledBalance[b][r]
  <2>1. PICK y : scaledBalance' = [scaledBalance EXCEPT ![a][s] = y]
    BY <1>1 DEF MintAToken, BurnAToken
  <2> QED
    BY <2>1, EntryWrites DEF TypeOK
<1>2. ASSUME NEW u \in Users, MintVariableDebt(u, s, x) \/ BurnVariableDebt(u, s, x)
      PROVE  variableDebtSupply'[r] = variableDebtSupply[r]
  <2>1. PICK y : variableDebtSupply' = [variableDebtSupply EXCEPT ![s] = y]
    BY <1>2 DEF MintVariableDebt, BurnVariableDebt
  <2> QED
    BY <2>1, SupplyWrites DEF TypeOK
<1>3. ASSUME NEW u \in Users, MintStableDebt(u, s, x) \/ BurnStableDebt(u, s, x)
      PROVE  \A v \in Users : stableDebt'[v][r] = stableDebt[v][r]
  BY <1>3, StableDebtWrites
<1> QED
  BY <1>1, <1>2, <1>3

(* Every call that moves a token of a reserve looks whether it is on, but  *)
(* for transfers, which have nothing to move.                              *)
LEMMA SupplierStands ==
    ASSUME TypeOK, NEW r \in Reserves, ~Operational(r),
           \A a \in Accounts : scaledBalance[a][r] = 0, SupplierCall
    PROVE  Stands(r) /\ UNCHANGED accruedToTreasury
<1>1. UNCHANGED <<reserveFrame, debtTokens>>
  BY SupplierFlows
<1> SUFFICES \A a \in Accounts : scaledBalance'[a][r] = scaledBalance[a][r]
  BY <1>1 DEF Stands, debtTokens, reserveFrame
<1>2. \A v \in Users : v \in Accounts
  BY DEF Accounts
<1>3. CASE UNCHANGED aToken
  BY <1>3 DEF aToken
<1>4. ASSUME NEW v \in Users, NEW s \in Reserves, NEW x \in Nat, Operational(s),
             MintAToken(v, s, x) \/ BurnAToken(v, s, x)
      PROVE  \A a \in Accounts : scaledBalance'[a][r] = scaledBalance[a][r]
  <2>1. s \in Reserves \ {r}
    BY <1>4
  <2> QED
    BY <1>2, <1>4, <2>1, TokensStand
<1>5. ASSUME NEW v \in Users, NEW to \in Users, NEW s \in Reserves, NEW scaled \in Nat,
             scaled <= scaledBalance[v][s],
             scaledBalance' = Moved(scaledBalance, v, to, s, scaled)
      PROVE  \A a \in Accounts : scaledBalance'[a][r] = scaledBalance[a][r]
  <2>1. /\ scaledBalance \in [Accounts -> [Reserves -> Int]]
        /\ v \in Accounts /\ to \in Accounts /\ scaled \in Int
    BY <1>2 DEF TypeOK
  <2>2. CASE s # r
    BY <1>5, <2>1, <2>2, MovedWrites
  <2>3. CASE s = r
    <3>1. scaled = 0
      BY <1>2, <1>5, <2>3
    <3> QED
      BY <1>5, <2>1, <2>3, <3>1 DEF Moved
  <2> QED
    BY <2>2, <2>3
<1> QED
  BY <1>3, <1>4, <1>5, SupplierFlows

LEMMA BorrowerStands ==
    ASSUME TypeOK, NEW r \in Reserves, ~Operational(r), BorrowerCall
    PROVE  Stands(r) /\ UNCHANGED accruedToTreasury
<1>1. PICK v \in Users, s \in Reserves, x \in Nat :
          /\ Operational(s)
          /\ \/ MintStableDebt(v, s, x) /\ UNCHANGED variableDebtToken
             \/ MintVariableDebt(v, s, x) /\ UNCHANGED stableDebt
             \/ BurnStableDebt(v, s, x) /\ UNCHANGED variableDebtToken
             \/ BurnVariableDebt(v, s, x) /\ UNCHANGED stableDebt
             \/ BurnStableDebt(v, s, x) /\ MintVariableDebt(v, s, x)
             \/ BurnVariableDebt(v, s, x) /\ MintStableDebt(v, s, x)
          /\ BurnAToken(v, s, x) \/ UNCHANGED aToken
  BY BorrowerFlows
<1>2. v \in Accounts /\ s \in Reserves \ {r}
  BY <1>1 DEF Accounts
<1>3. UNCHANGED accruedToTreasury
  BY BorrowerFlows DEF reserveFrame
<1>4. \A a \in Accounts : scaledBalance'[a][r] = scaledBalance[a][r]
  BY <1>1, <1>2, TokensStand DEF aToken
<1>5. variableDebtSupply'[r] = variableDebtSupply[r]
  BY <1>1, <1>2, TokensStand DEF variableDebtToken
<1>6. \A u \in Users : stableDebt'[u][r] = stableDebt[u][r]
  BY <1>1, <1>2, TokensStand
<1> QED
  BY <1>3, <1>4, <1>5, <1>6 DEF Stands

LEMMA LiquidatorStands ==
    ASSUME TypeOK, NEW r \in Reserves, ~Operational(r), LiquidatorCall
    PROVE  Stands(r) /\ UNCHANGED accruedToTreasury
<1>1. PICK liquidator \in Users, v \in Users, rc \in Reserves, rd \in Reserves :
          /\ Operational(rc) /\ Operational(rd)
          /\ LiquidationMoves(liquidator, v, rc, rd)
  BY LiquidatorFlows
<1>2. PICK covered \in Nat, seized \in Nat, fee \in Nat, receiveAToken \in BOOLEAN :
          /\ BurnDebtTokens(v, rd, covered)
          /\ SeizeATokens(liquidator, v, rc, seized, fee, receiveAToken)
  BY <1>1 DEF LiquidationMoves
<1>3. r \in Reserves \ {rc} /\ rd \in Reserves \ {r}
  BY <1>1
<1>4. \A a \in Accounts : scaledBalance'[a][r] = scaledBalance[a][r]
  BY <1>2, <1>3, SeizeWrites
<1>5. variableDebtSupply'[r] = variableDebtSupply[r]
  BY <1>2, <1>3, DebtBurned, TokensStand DEF variableDebtToken
<1>6. \A u \in Users : stableDebt'[u][r] = stableDebt[u][r]
  BY <1>2, <1>3, DebtBurned, TokensStand
<1>7. UNCHANGED accruedToTreasury
  BY LiquidatorFlows DEF reserveFrame
<1> QED
  BY <1>4, <1>5, <1>6, <1>7 DEF Stands

(* The bridge may back what is unbacked of a reserve that is off, while    *)
(* there is something to share the fee.                                    *)
LEMMA OtherStaysBare ==
    ASSUME TypeOK, TypeOK', ATokensAddUp, NEW r \in Reserves, ~config[r].active, Bare(r),
           OtherCall
    PROVE  StaysBare(r)
<1>1. CASE UNCHANGED <<reserveFrame, aToken, debtTokens, liquidity>>
  <2>1. Stands(r) /\ UNCHANGED accruedToTreasury
    BY <1>1 DEF Stands, reserveFrame, aToken, debtTokens
  <2> QED
    BY <2>1, StandingBare
<1>2. ASSUME NEW v \in Users, NEW s \in Reserves, NEW x \in Nat, Operational(s),
             MintAToken(v, s, x), UNCHANGED <<accruedToTreasury, debtTokens>>
      PROVE  StaysBare(r)
  <2>1. s \in Reserves \ {r} /\ v \in Accounts
    BY <1>2 DEF Operational, Accounts
  <2>2. Stands(r)
    BY <1>2, <2>1, TokensStand DEF Stands, debtTokens
  <2> QED
    BY <1>2, <2>2, StandingBare
<1>3. ASSUME NEW s \in Reserves, NEW x, NEW fee, BackUnbacked(s, x, fee)
      PROVE  StaysBare(r)
  <2>1. Stands(r)
    BY <1>3 DEF BackUnbacked, Stands, aToken, debtTokens
  <2>2. CASE s # r
    <3>1. accruedToTreasury'[r] = accruedToTreasury[r]
      BY <1>3, <2>2 DEF BackUnbacked, AccrueToTreasury, TypeOK
    <3> QED
      BY <2>1, <3>1, StandingBare
  <2>3. CASE s = r
    <3>1. aTokenSupply[r] = 0
      <4>1. DOMAIN scaledBalance = Accounts
        BY DEF TypeOK
      <4>2. Total(scaledBalance, r) = 0
        BY <4>1, TotalOfNothing DEF Bare
      <4> QED
        BY <4>2 DEF ATokensAddUp
    <3>2. rayMul(0, liquidityIndex[r]) = 0
      BY IndexFacts, RayMulZero
    <3>3. accruedToTreasury[r] # 0
      BY <1>3, <2>3, <3>1, <3>2 DEF BackUnbacked, TotalLiquidity
    <3> QED
      BY <2>1, <3>3, StandingBare
  <2> QED
    BY <2>2, <2>3
<1>4. ASSUME NEW s \in Reserves, MintToTreasury(s)
      PROVE  StaysBare(r)
  <2>1. s \in Reserves \ {r} /\ Treasury \in Accounts
    BY <1>4 DEF MintToTreasury, Accounts
  <2>2. Stands(r)
    BY <1>4, <2>1, TokensStand DEF MintToTreasury, Stands, debtTokens
  <2>3. accruedToTreasury'[r] = accruedToTreasury[r]
    BY <1>4, <2>1 DEF MintToTreasury, TypeOK
  <2> QED
    BY <2>2, <2>3, StandingBare
<1> QED
  BY <1>1, <1>2, <1>3, <1>4, OtherFlows

(* No interest without a debt.                                             *)
LEMMA NoInterest ==
    ASSUME TypeOK, TypeOK', NEW s \in Reserves, NEW li, NEW vi, Accrue(s, li, vi),
           variableDebtSupply[s] = 0
    PROVE  accruedToTreasury'[s] = accruedToTreasury[s]
<1>1. variableBorrowIndex[s] \in Nat /\ vi = variableBorrowIndex[s]
  <2>1. vi = variableBorrowIndex'[s]
    BY DEF Accrue, TypeOK
  <2>2. vi \in Nat
    BY <2>1, ScaleAssumption, PoolAssumption DEF TypeOK
  <2> QED
    BY <2>2, IndexFacts DEF Accrue
<1>2. rayMul(0, variableBorrowIndex[s]) = 0
  BY <1>1, IndexFacts, RayMulZero
<1>3. percentMul(0, config[s].reserveFactor) = 0
  <2>1. /\ percentMul(0, config[s].reserveFactor) \in Nat
        /\ percentMul(0, config[s].reserveFactor) <= 0
    BY ConfigFacts, PercentMulBounded
  <2> QED
    BY <2>1
<1>4. TreasuryShare(s, 0, li) = 0
  <2>1. li \in Nat \ {0}
    BY BooksNatNext DEF Accrue, TypeOK
  <2>2. rayDiv(0, li) = 0
    BY <2>1, RayDivOfNothing
  <2> QED
    BY <1>3, <2>2 DEF TreasuryShare
<1>5. AccrueToTreasury(s, 0)
  BY <1>1, <1>2, <1>4 DEF Accrue
<1>6. accruedToTreasury[s] \in Nat
  BY DEF TypeOK
<1> QED
  BY <1>5, <1>6 DEF AccrueToTreasury, TypeOK

LEMMA InterestStaysBare ==
    ASSUME TypeOK, TypeOK', NEW r \in Reserves, Bare(r), NEW s \in Reserves, NEW li, NEW vi,
           Accrue(s, li, vi)
    PROVE  StaysBare(r)
<1>1. Stands(r)
  BY DEF Accrue, Stands, aToken, debtTokens
<1>2. CASE accruedToTreasury'[r] = accruedToTreasury[r]
  BY <1>1, <1>2, StandingBare
<1>3. CASE variableDebtSupply[r] # 0
  <2>1. TotalStableDebt(r)' = TotalStableDebt(r)
    BY <1>1, StandingDebt DEF Stands
  <2> QED
    BY <1>1, <1>3, <2>1 DEF Bare, Stands, StaysBare
<1>4. CASE s # r
  <2>1. accruedToTreasury'[r] = accruedToTreasury[r]
    BY <1>4 DEF Accrue, AccrueToTreasury, TypeOK
  <2> QED
    BY <1>2, <2>1
<1> QED
  BY <1>2, <1>3, <1>4, NoInterest

LEMMA StableInterestStaysBare ==
    ASSUME TypeOK, TypeOK', NEW r \in Reserves, Bare(r), NEW v \in Users, NEW s \in Reserves,
           AccrueStable(v, s)
    PROVE  StaysBare(r)
<1>1. /\ UNCHANGED <<aToken, variableDebtToken>>
      /\ stableDebt' = [stableDebt EXCEPT ![v][s] = @ + 1]
      /\ stableDebt[v][s] >= 1 /\ stableDebt[v][s] \in Nat
  BY DEF AccrueStable, TypeOK
<1>2. CASE s # r
  <2>1. Stands(r)
    BY <1>1, <1>2 DEF Stands, aToken, variableDebtToken, TypeOK
  <2>2. accruedToTreasury'[r] = accruedToTreasury[r]
    BY <1>2 DEF AccrueStable, AccrueToTreasury, TypeOK
  <2> QED
    BY <2>1, <2>2, StandingBare
<1>3. CASE s = r
  <2>1. stableDebt' \in [Users -> [Reserves -> Nat]] /\ stableDebt \in [Users -> [Reserves -> Nat]]
    BY DEF TypeOK
  <2>2. stableDebt'[v][r] = stableDebt[v][r] + 1
    BY <1>1, <1>3, <2>1
  <2>3. /\ stableDebt[v][r] <= Total(stableDebt, r) /\ Total(stableDebt, r) \in Nat
        /\ stableDebt'[v][r] <= Total(stableDebt', r) /\ Total(stableDebt', r) \in Nat
    BY <2>1, StorageAssumption, TotalBounds, TotalNat
  <2>4. TotalStableDebt(r) # 0 /\ TotalStableDebt(r)' # 0
    BY <1>1, <1>3, <2>2, <2>3 DEF TotalStableDebt
  <2> QED
    BY <1>1, <2>4 DEF Bare, StaysBare, aToken, variableDebtToken
<1> QED
  BY <1>2, <1>3

LEMMA PoolStaysBare ==
    ASSUME TypeOK, ATokensAddUp, NEW r \in Reserves, ~config[r].active, Bare(r), [Next]_vars
    PROVE  StaysBare(r)
<1>1. TypeOK'
  BY TypeStep
<1>2. ~Operational(r) /\ \A a \in Accounts : scaledBalance[a][r] = 0
  BY DEF Operational, Bare
<1>3. ASSUME Stands(r), UNCHANGED accruedToTreasury PROVE StaysBare(r)
  BY <1>1, <1>3, StandingBare
<1>4. ASSUME UNCHANGED <<aToken, debtTokens, accruedToTreasury>> PROVE StaysBare(r)
  BY <1>3, <1>4 DEF Stands, aToken, debtTokens
<1>5. CASE UNCHANGED vars
  BY <1>4, <1>5 DEF vars
<1>6. CASE SupplierCall
  BY <1>2, <1>3, <1>6, SupplierStands
<1>7. CASE BorrowerCall
  BY <1>2, <1>3, <1>7, BorrowerStands
<1>8. CASE LiquidatorCall
  BY <1>2, <1>3, <1>8, LiquidatorStands
<1>9. CASE OtherCall
  BY <1>1, <1>9, OtherStaysBare
<1>10. CASE Environment
  <2>1. ASSUME NEW a, NEW p, SetPrice(a, p) PROVE StaysBare(r)
    BY <1>4, <2>1 DEF SetPrice
  <2>2. ASSUME SequencerChange PROVE StaysBare(r)
    BY <1>4, <2>2 DEF SequencerChange
  <2> QED
    BY <1>1, <1>10, <2>1, <2>2, InterestStaysBare, StableInterestStaysBare DEF Environment
<1> QED
  BY <1>5, <1>6, <1>7, <1>8, <1>9, <1>10 DEF Next, PoolCall

(* What the setters keep of a configuration: whether the reserve is on,    *)
(* and whether it is siloed.                                               *)
SwitchesKept(c, d) == d.active = c.active /\ d.siloedBorrowing = c.siloedBorrowing
(* A reserve is turned off once nobody supplies it, siloed once nobody     *)
(* owes it.                                                                *)
Switched(q) ==
    /\ config[q].active => config'[q].active \/ NoSuppliers(q)
    /\ config'[q].siloedBorrowing => config[q].siloedBorrowing \/ NoBorrowers(q)

LEMMA SettersKeepSwitches ==
    ASSUME NEW c \in ReserveConfiguration, NEW x
    PROVE  /\ SwitchesKept(c, [c EXCEPT !.borrowingEnabled = x])
           /\ SwitchesKept(c, [c EXCEPT !.stableBorrowingEnabled = x])
           /\ SwitchesKept(c, [c EXCEPT !.paused = x])
           /\ SwitchesKept(c, [c EXCEPT !.frozen = x])
           /\ SwitchesKept(c, [c EXCEPT !.flashLoanEnabled = x])
           /\ SwitchesKept(c, [c EXCEPT !.borrowableInIsolation = x])
           /\ SwitchesKept(c, [c EXCEPT !.reserveFactor = x])
           /\ SwitchesKept(c, [c EXCEPT !.liquidationProtocolFee = x])
           /\ SwitchesKept(c, [c EXCEPT !.borrowCap = x])
           /\ SwitchesKept(c, [c EXCEPT !.supplyCap = x])
           /\ SwitchesKept(c, [c EXCEPT !.unbackedMintCap = x])
           /\ SwitchesKept(c, [c EXCEPT !.debtCeiling = x])
           /\ SwitchesKept(c, [c EXCEPT !.eModeCategory = x])
BY DEF ReserveConfiguration, SwitchesKept

LEMMA SettersSwitch ==
    ASSUME NEW c \in ReserveConfiguration, NEW x \in BOOLEAN
    PROVE  /\ [c EXCEPT !.active = x].active = x
           /\ [c EXCEPT !.active = x].siloedBorrowing = c.siloedBorrowing
           /\ [c EXCEPT !.siloedBorrowing = x].siloedBorrowing = x
           /\ [c EXCEPT !.siloedBorrowing = x].active = c.active
BY DEF ReserveConfiguration

LEMMA SettingSwitches ==
    ASSUME GovernedTypeOK, NEW r, NEW d, SetConfiguration(r, d),
           config[r].active => d.active \/ NoSuppliers(r),
           d.siloedBorrowing => config[r].siloedBorrowing \/ NoBorrowers(r)
    PROVE  \A q \in Reserves : Switched(q)
<1>1. r \in Reserves /\ config' = [config EXCEPT ![r] = d]
  BY DEF SetConfiguration, GovernedTypeOK
<1> QED
  BY <1>1 DEF Switched, GovernedTypeOK, TypeOK

LEMMA SwitchCallSwitches ==
    ASSUME GovernedTypeOK, NEW r \in Reserves, SwitchCall(r)
    PROVE  \A q \in Reserves : Switched(q)
<1>1. config[r] \in ReserveConfiguration
  BY DEF GovernedTypeOK, TypeOK
<1>2. PICK on \in BOOLEAN :
          \/ SetReserveBorrowing(r, on)
          \/ SetReserveStableRateBorrowing(r, on)
          \/ SetReserveActive(r, on)
          \/ SetSiloedBorrowing(r, on)
          \/ SetReservePause(r, on)
          \/ SetReserveFreeze(r, on)
          \/ SetReserveFlashLoaning(r, on)
          \/ SetBorrowableInIsolation(r, on)
  BY DEF SwitchCall
<1>3. ASSUME NEW d, SetConfiguration(r, d), SwitchesKept(config[r], d)
      PROVE  \A q \in Reserves : Switched(q)
  BY <1>3, SettingSwitches DEF SwitchesKept
<1>4. CASE SetReserveActive(r, on)
  <2> DEFINE d == [config[r] EXCEPT !.active = on]
  <2>1. SetConfiguration(r, d) /\ (on \/ NoSuppliers(r))
    BY <1>4 DEF SetReserveActive, Reconfigure
  <2>2. d.active = on /\ d.siloedBorrowing = config[r].siloedBorrowing
    BY <1>1, SettersSwitch
  <2> HIDE DEF d
  <2> QED
    BY <2>1, <2>2, SettingSwitches
<1>5. CASE SetSiloedBorrowing(r, on)
  <2> DEFINE d == [config[r] EXCEPT !.siloedBorrowing = on]
  <2>1. SetConfiguration(r, d) /\ (on => NoBorrowers(r))
    BY <1>5 DEF SetSiloedBorrowing, Reconfigure
  <2>2. d.siloedBorrowing = on /\ d.active = config[r].active
    BY <1>1, SettersSwitch
  <2> HIDE DEF d
  <2> QED
    BY <2>1, <2>2, SettingSwitches
<1>6. CASE SetReserveBorrowing(r, on) \/ SetReserveStableRateBorrowing(r, on)
  BY <1>1, <1>3, <1>6, SettersKeepSwitches
  DEF SetReserveBorrowing, SetReserveStableRateBorrowing, Reconfigure
<1>7. CASE SetReservePause(r, on) \/ SetReserveFreeze(r, on)
  BY <1>1, <1>3, <1>7, SettersKeepSwitches DEF SetReservePause, SetReserveFreeze, Reconfigure
<1>8. CASE SetReserveFlashLoaning(r, on) \/ SetBorrowableInIsolation(r, on)
  BY <1>1, <1>3, <1>8, SettersKeepSwitches
  DEF SetReserveFlashLoaning, SetBorrowableInIsolation, Reconfigure
<1> QED
  BY <1>2, <1>4, <1>5, <1>6, <1>7, <1>8

LEMMA ParameterCallSwitches ==
    ASSUME GovernedTypeOK, NEW r \in Reserves, ParameterCall(r)
    PROVE  \A q \in Reserves : Switched(q)
<1>1. config[r] \in ReserveConfiguration
  BY DEF GovernedTypeOK, TypeOK
<1> SUFFICES \E d : SetConfiguration(r, d) /\ SwitchesKept(config[r], d)
  BY SettingSwitches DEF SwitchesKept
<1>2. ASSUME NEW s \in CollateralSettings, ConfigureReserveAsCollateral(r, s)
      PROVE  \E d : SetConfiguration(r, d) /\ SwitchesKept(config[r], d)
  <2>1. SwitchesKept(config[r],
            [config[r] EXCEPT !.ltv = s.ltv, !.liquidationThreshold = s.liquidationThreshold,
                              !.liquidationBonus = s.liquidationBonus])
    BY <1>1 DEF ReserveConfiguration, SwitchesKept
  <2> QED
    BY <1>2, <2>1 DEF ConfigureReserveAsCollateral, Reconfigure
<1>3. ASSUME NEW c, SetAssetEModeCategory(r, c)
      PROVE  \E d : SetConfiguration(r, d) /\ SwitchesKept(config[r], d)
  BY <1>1, <1>3, SettersKeepSwitches DEF SetAssetEModeCategory, Reconfigure
<1>4. ASSUME NEW p, SetReserveFactor(r, p) \/ SetLiquidationProtocolFee(r, p)
      PROVE  \E d : SetConfiguration(r, d) /\ SwitchesKept(config[r], d)
  BY <1>1, <1>4, SettersKeepSwitches
  DEF SetReserveFactor, SetLiquidationProtocolFee, Reconfigure
<1>5. ASSUME NEW cap,
             SetBorrowCap(r, cap) \/ SetSupplyCap(r, cap) \/ SetUnbackedMintCap(r, cap)
      PROVE  \E d : SetConfiguration(r, d) /\ SwitchesKept(config[r], d)
  BY <1>1, <1>5, SettersKeepSwitches
  DEF SetBorrowCap, SetSupplyCap, SetUnbackedMintCap, Reconfigure
<1>6. ASSUME NEW ceiling, SetDebtCeiling(r, ceiling)
      PROVE  \E d : SetConfiguration(r, d) /\ SwitchesKept(config[r], d)
  BY <1>1, <1>6, SettersKeepSwitches DEF SetDebtCeiling
<1> QED
  BY <1>2, <1>3, <1>4, <1>5, <1>6 DEF ParameterCall

LEMMA ConfiguratorSwitches ==
    ASSUME GovernedTypeOK, ConfiguratorCall
    PROVE  \A q \in Reserves : Switched(q)
<1>1. \A q \in Reserves : config[q] \in ReserveConfiguration
  BY DEF GovernedTypeOK, TypeOK
<1>2. ASSUME NEW r \in Governed, SwitchCall(r) \/ ParameterCall(r)
      PROVE  \A q \in Reserves : Switched(q)
  BY <1>2, SwitchCallSwitches, ParameterCallSwitches, ConfiguratorAssumption
<1>3. ASSUME NEW r \in Governed, DropReserve(r)
      PROVE  \A q \in Reserves : Switched(q)
  BY <1>3 DEF DropReserve, RecordDeleted, ValidateDropReserve, Switched, NoConfiguration,
              GovernedTypeOK, TypeOK
<1>4. ASSUME NEW r \in Governed, InitReserve(r)
      PROVE  \A q \in Reserves : Switched(q)
  BY <1>4 DEF InitReserve, Switched, NoConfiguration, GovernedTypeOK, TypeOK
<1>5. ASSUME NEW paused \in BOOLEAN, SetPoolPause(paused)
      PROVE  \A q \in Reserves : Switched(q)
  <2>1. \A q \in Reserves : SwitchesKept(config[q], config'[q])
    BY <1>1, <1>5, SettersKeepSwitches DEF SetPoolPause, SwitchesKept
  <2> QED
    BY <2>1 DEF SwitchesKept, Switched
<1>6. ASSUME NEW c, NEW s, SetEModeCategory(c, s)
      PROVE  \A q \in Reserves : Switched(q)
  BY <1>6 DEF SetEModeCategory, Switched
<1> QED
  BY <1>2, <1>3, <1>4, <1>5, <1>6 DEF ConfiguratorCall, ListingCall

(* What the checks of the configurator see is what there is.               *)
LEMMA NoSuppliersBare ==
    ASSUME TypeOK, ATokensAddUp, NEW r \in Reserves, NoSuppliers(r)
    PROVE  Bare(r)
<1>1. aTokenSupply[r] = 0 /\ accruedToTreasury[r] = 0
  <2>1. aTokenSupply[r] \in Nat
    BY DEF TypeOK
  <2> QED
    BY <2>1, IndexFacts, RayMulZero DEF NoSuppliers
<1>2. \A a \in Accounts : scaledBalance[a][r] <= 0 /\ scaledBalance[a][r] \in Nat
  <2>1. scaledBalance \in [Accounts -> [Reserves -> Nat]]
    BY DEF TypeOK
  <2> QED
    BY <1>1, <2>1, AccountsFinite, TotalBounds DEF ATokensAddUp
<1>3. \A a \in Accounts : scaledBalance[a][r] = 0
  BY <1>2
<1> QED
  BY <1>1, <1>3 DEF Bare

LEMMA NoBorrowersNothing ==
    ASSUME TypeOK, NEW r \in Reserves, NoBorrowers(r)
    PROVE  variableDebtSupply[r] = 0 /\ TotalStableDebt(r) = 0
<1>1. variableDebtSupply[r] \in Nat /\ TotalStableDebt(r) \in Nat
  BY BooksNat
<1>2. rayMul(variableDebtSupply[r], variableBorrowIndex[r]) \in Nat
  BY <1>1, IndexFacts, RayMulNat
<1>3. rayMul(variableDebtSupply[r], variableBorrowIndex[r]) = 0 /\ TotalStableDebt(r) = 0
  BY <1>1, <1>2 DEF NoBorrowers
<1> QED
  BY <1>1, <1>3, IndexFacts, RayMulZero

(* A slot that was emptied holds no debt either.                           *)
EmptySlots ==
    \A r \in Reserves \ listed : variableDebtSupply[r] = 0 /\ TotalStableDebt(r) = 0

LEMMA InactiveBare == InactiveIsEmpty <=> \A r \in Reserves : ~config[r].active => Bare(r)
BY DEF InactiveIsEmpty, Bare

LEMMA InactivePoolStep ==
    ASSUME GovernedTypeOK, ATokensAddUp, InactiveIsEmpty, EmptySlots, [Next]_vars,
           UNCHANGED listed
    PROVE  InactiveIsEmpty' /\ EmptySlots'
<1>1. TypeOK /\ config' = config
  BY ConfigFixed DEF GovernedTypeOK
<1>2. \A r \in Reserves : ~config[r].active => StaysBare(r)
  BY <1>1, PoolStaysBare, InactiveBare
<1>3. InactiveIsEmpty'
  <2>1. \A r \in Reserves : ~config'[r].active => Bare(r)'
    BY <1>1, <1>2 DEF StaysBare
  <2> QED
    BY <2>1 DEF InactiveIsEmpty, Bare
<1>4. \A r \in Reserves \ listed : ~config[r].active
  BY DEF GovernedTypeOK, NoConfiguration
<1>5. EmptySlots'
  BY <1>2, <1>4 DEF EmptySlots, StaysBare
<1> QED
  BY <1>3, <1>5

(* What is empty in a slot before a call of the configurator that leaves   *)
(* the tokens alone is empty after it.                                     *)
LEMMA BareKept ==
    ASSUME TypeOK, TypeOK', NEW r \in Reserves, UNCHANGED accruedToTreasury, Stands(r)
    PROVE  /\ Bare(r) => Bare(r)'
           /\ variableDebtSupply'[r] = variableDebtSupply[r]
           /\ TotalStableDebt(r)' = TotalStableDebt(r)
BY StandingBare, StandingDebt DEF Stands, StaysBare

LEMMA ListingChanges ==
    ASSUME GovernedTypeOK, ConfiguratorCall
    PROVE  listed' = listed \/ \E r \in Reserves : ListingCall(r)
<1>1. ASSUME NEW s \in Reserves, SwitchCall(s) \/ ParameterCall(s) PROVE listed' = listed
  <2>1. PICK t, c : SetConfiguration(t, c)
    BY <1>1, SwitchConfigures, ParameterConfigures DEF Configured
  <2> QED
    BY <2>1 DEF SetConfiguration
<1>2. ASSUME NEW paused, SetPoolPause(paused) PROVE listed' = listed
  BY <1>2 DEF SetPoolPause
<1>3. ASSUME NEW c, NEW s, SetEModeCategory(c, s) PROVE listed' = listed
  BY <1>3 DEF SetEModeCategory
<1> QED
  BY <1>1, <1>2, <1>3, ConfiguratorAssumption DEF ConfiguratorCall

LEMMA ListedBy ==
    ASSUME GovernedTypeOK, ConfiguratorCall, NEW r \in listed', r \notin listed
    PROVE  InitReserve(r)
BY ListingChanges DEF ListingCall, DropReserve, InitReserve

LEMMA DroppedBy ==
    ASSUME GovernedTypeOK, ConfiguratorCall, NEW r \in listed, r \notin listed'
    PROVE  NoBorrowers(r) /\ UNCHANGED <<aToken, debtTokens>>
<1>1. DropReserve(r)
  BY ListingChanges DEF ListingCall, DropReserve, InitReserve
<1> QED
  BY <1>1 DEF DropReserve, ValidateDropReserve

LEMMA ListingStands ==
    ASSUME GovernedTypeOK, NEW s \in Reserves, InitReserve(s)
    PROVE  /\ \A r \in Reserves \ {s} : Stands(r)
           /\ config'[s].active /\ s \in listed'
<1>1. \A r \in Reserves \ {s} : Stands(r)
  BY DEF InitReserve, GovernedTypeOK, TypeOK, Stands
<1>2. config'[s].active /\ s \in listed'
  BY DEF InitReserve, GovernedTypeOK, TypeOK, NoConfiguration
<1> QED
  BY <1>1, <1>2

LEMMA InactiveConfiguratorStep ==
    ASSUME GovernedTypeOK, ATokensAddUp, InactiveIsEmpty, EmptySlots, ConfiguratorCall
    PROVE  InactiveIsEmpty' /\ EmptySlots'
<1>1. TypeOK /\ TypeOK' /\ SlotsOK'
  BY ConfiguratorType DEF GovernedTypeOK
<1>2. UNCHANGED accruedToTreasury
  BY ConfiguratorFrame
<1>3. ASSUME NEW r \in Reserves, ~config'[r].active PROVE Bare(r)
  BY <1>1, <1>3, ConfiguratorSwitches, NoSuppliersBare, InactiveBare DEF Switched
<1>4. ASSUME NEW r \in Reserves \ listed' PROVE variableDebtSupply[r] = 0 /\ TotalStableDebt(r) = 0
  <2>1. CASE r \in listed
    BY <1>1, <1>4, <2>1, DroppedBy, NoBorrowersNothing
  <2>2. CASE r \notin listed
    BY <2>2 DEF EmptySlots
  <2> QED
    BY <2>1, <2>2
<1>5. ASSUME NEW r \in Reserves, ~config'[r].active \/ r \notin listed' PROVE Stands(r)
  <2>1. CASE UNCHANGED <<aToken, debtTokens>>
    BY <2>1 DEF Stands, aToken, debtTokens
  <2>2. ASSUME NEW s \in Reserves, InitReserve(s) PROVE Stands(r)
    BY <1>5, <2>2, ListingStands
  <2> QED
    BY <2>1, <2>2, ConfiguratorFrame
<1>6. \A r \in Reserves : ~config'[r].active => Bare(r)'
  BY <1>1, <1>2, <1>3, <1>5, BareKept
<1>7. \A r \in Reserves \ listed' : variableDebtSupply'[r] = 0 /\ TotalStableDebt(r)' = 0
  BY <1>1, <1>2, <1>4, <1>5, BareKept
<1>8. InactiveIsEmpty'
  BY <1>6 DEF InactiveIsEmpty, Bare
<1> QED
  BY <1>7, <1>8 DEF EmptySlots

LEMMA InactiveStep ==
    ASSUME GovernedTypeOK, SuppliesAddUp, InactiveIsEmpty, EmptySlots,
           [GovernedNext]_governedVars
    PROVE  InactiveIsEmpty' /\ EmptySlots'
<1>1. ATokensAddUp
  BY SuppliesParts
<1>2. CASE UNCHANGED governedVars
  BY <1>1, <1>2, InactivePoolStep DEF governedVars
<1>3. CASE Next /\ UNCHANGED <<listed, changes>>
  BY <1>1, <1>3, InactivePoolStep
<1>4. CASE ConfiguratorCall
  BY <1>1, <1>4, InactiveConfiguratorStep
<1> QED
  BY <1>2, <1>3, <1>4 DEF GovernedNext

LEMMA InactiveInit ==
    ASSUME GovernedInit
    PROVE  InactiveIsEmpty /\ EmptySlots
<1>1. \A r \in Reserves, a \in Accounts : scaledBalance[a][r] = 0 /\ accruedToTreasury[r] = 0
  BY DEF GovernedInit, Init
<1>2. InactiveIsEmpty
  BY <1>1 DEF InactiveIsEmpty, GovernedInit, Init
<1>3. EmptySlots
  BY DEF EmptySlots, GovernedInit
<1> QED
  BY <1>2, <1>3

LEMMA GovernedBooks ==
    GovernedSpec => [](InactiveIsEmpty /\ EmptySlots)
<1>1. GovernedInit => InactiveIsEmpty /\ EmptySlots
  BY InactiveInit
<1>2. /\ GovernedTypeOK /\ SuppliesAddUp /\ (InactiveIsEmpty /\ EmptySlots)
      /\ [GovernedNext]_governedVars
      => (InactiveIsEmpty /\ EmptySlots)'
  BY InactiveStep
<1> QED
  BY <1>1, <1>2, GovernedTypeCorrect, GovernedSuppliesAddUp, PTL DEF GovernedSpec

(* Nobody's funds are ever in a reserve that is off: what the checks of    *)
(* setReserveActive and dropReserve saw stays so, whatever anybody calls,  *)
(* until the reserve is on again.                                          *)
THEOREM InactiveReservesAreEmpty == GovernedSpec => []InactiveIsEmpty
<1> QED
  BY GovernedBooks, PTL

(* Listing an asset in a slot wipes out nothing: no balance, no debt and   *)
(* no treasury share was left in it by dropReserve, nor came since.        *)
THEOREM ListingsTakeNothing == GovernedSpec => ListingTakesNothing
<1>1. /\ GovernedTypeOK /\ SuppliesAddUp /\ (InactiveIsEmpty /\ EmptySlots)
      /\ [GovernedNext]_governedVars
      => [\A r \in listed' \ listed :
             aTokenSupply[r] = 0 /\ variableDebtSupply[r] = 0
             /\ accruedToTreasury[r] = 0 /\ \A u \in Users : stableDebt[u][r] = 0]_governedVars
  <2>1. ASSUME GovernedTypeOK, SuppliesAddUp, InactiveIsEmpty, EmptySlots, GovernedNext,
               NEW r \in listed' \ listed
        PROVE  /\ aTokenSupply[r] = 0 /\ variableDebtSupply[r] = 0
               /\ accruedToTreasury[r] = 0 /\ \A u \in Users : stableDebt[u][r] = 0
    <3>1. InitReserve(r)
      BY <2>1, ListedBy DEF GovernedNext
    <3>2. r \in Reserves \ listed /\ ~config[r].active
      <4>1. listed' \subseteq Reserves
        BY <2>1, GovernedTypeStep DEF GovernedTypeOK
      <4> QED
        BY <2>1, <4>1 DEF GovernedTypeOK, NoConfiguration
    <3>3. /\ variableDebtSupply[r] = 0 /\ TotalStableDebt(r) = 0 /\ accruedToTreasury[r] = 0
          /\ \A a \in Accounts : scaledBalance[a][r] = 0
      BY <2>1, <3>2 DEF EmptySlots, InactiveIsEmpty
    <3>4. /\ scaledBalance \in [Accounts -> [Reserves -> Nat]]
          /\ stableDebt \in [Users -> [Reserves -> Nat]]
      BY <2>1 DEF GovernedTypeOK, TypeOK
    <3>5. aTokenSupply[r] = 0
      <4>1. DOMAIN scaledBalance = Accounts
        BY <3>4
      <4>2. Total(scaledBalance, r) = 0
        BY <3>3, <4>1, TotalOfNothing
      <4> QED
        BY <2>1, <3>2, <4>2 DEF SuppliesAddUp
    <3>6. ASSUME NEW u \in Users PROVE stableDebt[u][r] = 0
      <4>1. stableDebt[u][r] <= Total(stableDebt, r)
        BY <3>2, <3>4, StorageAssumption, TotalBounds
      <4>2. stableDebt[u][r] \in Nat
        BY <3>2, <3>4
      <4> QED
        BY <3>3, <4>1, <4>2 DEF TotalStableDebt
    <3> QED
      BY <3>3, <3>5, <3>6
  <2> QED
    BY <2>1 DEF governedVars
<1> QED
  BY <1>1, GovernedTypeCorrect, GovernedSuppliesAddUp, GovernedBooks, PTL
  DEF GovernedSpec, ListingTakesNothing

-----------------------------------------------------------------------------
(* Siloed borrowing under governance.  The flags may hold more than the    *)
(* debts, so that an asset that becomes siloed has no exclusive flag; but  *)
(* who comes to owe it has.                                                *)
SiloedDebtFlaggedAlone ==
    \A u \in Users, r \in Reserves :
        Owes(u, r) /\ config[r].siloedBorrowing => borrowing[u] = {r}

(* A debt that appears was validated and flagged.                          *)
Appears(u, r) ==
    /\ borrowing' = [borrowing EXCEPT ![u] = @ \cup {r}]
    /\ ValidateSiloedBorrow(u, r)
NoDebtAppears == \A u \in Users, r \in Reserves : Owes(u, r)' => Owes(u, r)

LEMMA BorrowAppears ==
    ASSUME TypeOK, NEW v \in Users, NEW s \in Reserves, NEW x, NEW mode, Borrow(v, s, x, mode),
           NEW u \in Users, NEW r \in Reserves, Owes(u, r)', ~Owes(u, r)
    PROVE  Appears(u, r)
<1>1. OpenDebt(v, s, x, mode) /\ ValidateSiloedBorrow(v, s)
  BY DEF Borrow, ExecuteBorrow, ValidateBorrow
<1>2. u = v /\ r = s
  BY <1>1
  DEF OpenDebt, MintStableDebt, MintVariableDebt, variableDebtToken, Owes, TypeOK
<1>3. borrowing' = [borrowing EXCEPT ![v] = @ \cup {s}]
  BY <1>1, <1>2 DEF OpenDebt, Owes
<1> QED
  BY <1>1, <1>2, <1>3 DEF Appears

LEMMA BurnsShowNoDebt ==
    ASSUME TypeOK, NEW v \in Users, NEW s \in Reserves, NEW x \in Nat, NEW y \in Nat,
           BurnVariableDebt(v, s, x) \/ UNCHANGED scaledVariableDebt,
           BurnStableDebt(v, s, y) \/ UNCHANGED stableDebt
    PROVE  NoDebtAppears
BY VariableDebtFalls, StableDebtFalls DEF NoDebtAppears, Owes

LEMMA BorrowerAppears ==
    ASSUME TypeOK, BorrowerCall, NEW u \in Users, NEW r \in Reserves, Owes(u, r)', ~Owes(u, r)
    PROVE  Appears(u, r)
<1>1. ASSUME NEW v \in Users, NEW s \in Reserves, NEW mode \in InterestRateModes,
             NEW x \in Requests, NEW useATokens \in BOOLEAN, Repay(v, s, x, mode, useATokens)
      PROVE  FALSE
  <2> DEFINE offered == IF useATokens /\ x = MaxUint256 THEN BalanceOf(v, s) ELSE x
             payback == AtMost(offered, IF mode = STABLE THEN stableDebt[v][s]
                                                         ELSE VariableDebtOf(v, s))
  <2>1. payback \in Nat
    <3>1. offered \in Nat
      BY RequestNat, BalanceNat DEF Accounts
    <3>2. (IF mode = STABLE THEN stableDebt[v][s] ELSE VariableDebtOf(v, s)) \in Nat
      BY DebtNat
    <3> QED
      BY <3>1, <3>2, AtMostNat
  <2>2. /\ BurnVariableDebt(v, s, payback) \/ UNCHANGED scaledVariableDebt
        /\ BurnStableDebt(v, s, payback) \/ UNCHANGED stableDebt
    BY <1>1 DEF Repay, variableDebtToken
  <2> HIDE DEF payback
  <2> QED
    BY <2>1, <2>2, BurnsShowNoDebt DEF NoDebtAppears
<1>2. ASSUME NEW v \in Users, NEW s \in Reserves, NEW mode, SwapBorrowRateMode(v, s, mode)
      PROVE  FALSE
  <2>1. Owes(v, s)
    BY <1>2, NoVariableDebt DEF SwapBorrowRateMode, ValidateSwapRateMode, Owes
  <2>2. PICK y : \/ BurnStableDebt(v, s, y) /\ MintVariableDebt(v, s, y)
                 \/ BurnVariableDebt(v, s, y) /\ MintStableDebt(v, s, y)
    BY <1>2 DEF SwapBorrowRateMode
  <2>3. u # v \/ r # s => Owes(u, r)
    BY <2>2
    DEF Owes, TypeOK, BurnStableDebt, MintVariableDebt, BurnVariableDebt, MintStableDebt
  <2> QED
    BY <2>1, <2>3
<1> QED
  BY <1>1, <1>2, BorrowAppears DEF BorrowerCall

LEMMA DebtAppears ==
    ASSUME TypeOK, [Next]_vars, NEW u \in Users, NEW r \in Reserves, Owes(u, r)', ~Owes(u, r)
    PROVE  Appears(u, r)
<1>1. CASE UNCHANGED debtTokens
  BY <1>1 DEF debtTokens, Owes
<1>2. CASE SupplierCall \/ UNCHANGED vars
  BY <1>1, <1>2, SupplierFlows DEF vars
<1>3. CASE LiquidatorCall
  <2>1. PICK v \in Users, s \in Reserves, covered \in Nat : BurnDebtTokens(v, s, covered)
    BY <1>3, LiquidatorFlows DEF LiquidationMoves
  <2>2. PICK x \in Nat, y \in Nat :
            /\ BurnVariableDebt(v, s, x) \/ UNCHANGED scaledVariableDebt
            /\ BurnStableDebt(v, s, y) \/ UNCHANGED stableDebt
    BY <2>1, DebtBurned DEF variableDebtToken
  <2> QED
    BY <2>2, BurnsShowNoDebt DEF NoDebtAppears
<1>4. CASE OtherCall
  BY <1>1, <1>4, OtherFlows DEF BackUnbacked, MintToTreasury
<1>5. CASE Environment
  <2>1. ASSUME NEW v \in Users, NEW s \in Reserves, AccrueStable(v, s) PROVE FALSE
    BY <2>1 DEF AccrueStable, variableDebtToken, Owes, TypeOK
  <2> QED
    BY <1>1, <1>5, <2>1 DEF Environment, Accrue, SetPrice, SequencerChange
<1> QED
  BY <1>2, <1>3, <1>4, <1>5, BorrowerAppears DEF Next, PoolCall

(* Whose only flag is that of a siloed asset gets no other.                *)
LEMMA SiloedFlagStays ==
    ASSUME TypeOK, [Next]_vars, NEW v \in Users, NEW q \in Reserves, borrowing[v] = {q},
           config[q].siloedBorrowing
    PROVE  borrowing'[v] \subseteq {q}
<1>1. ASSUME NEW u \in Users, NEW r \in Reserves,
             borrowing' = [borrowing EXCEPT ![u] = @ \cup {r}], ValidateSiloedBorrow(u, r)
      PROVE  borrowing'[v] \subseteq {q}
  <2>1. CASE u # v
    BY <1>1, <2>1 DEF TypeOK
  <2>2. CASE u = v
    <3>1. Siloed(borrowing[v])
      BY DEF Siloed, SiloedOn
    <3>2. r = q
      BY <1>1, <2>2, <3>1 DEF ValidateSiloedBorrow
    <3> QED
      BY <1>1, <2>2, <3>2 DEF TypeOK
  <2> QED
    BY <2>1, <2>2
<1> QED
  BY <1>1, BorrowerFlags, OtherFlags

LEMMA SiloedPoolStep ==
    ASSUME TypeOK, DebtFlagged, SiloedDebtFlaggedAlone, [Next]_vars
    PROVE  SiloedDebtFlaggedAlone'
<1>1. DebtFlagged' /\ config' = config
  BY FlagStep, ConfigFixed
<1> SUFFICES ASSUME NEW u \in Users, NEW r \in Reserves, Owes(u, r)', config[r].siloedBorrowing
             PROVE  borrowing'[u] = {r}
  BY <1>1 DEF SiloedDebtFlaggedAlone
<1>2. r \in borrowing'[u]
  BY <1>1 DEF DebtFlagged
<1>3. CASE Owes(u, r)
  BY <1>2, <1>3, SiloedFlagStays DEF SiloedDebtFlaggedAlone
<1>4. CASE ~Owes(u, r)
  <2>1. Appears(u, r)
    BY <1>4, DebtAppears
  <2>2. borrowing[u] \subseteq {r}
    <3>1. CASE borrowing[u] # {}
      BY <2>1, <3>1 DEF Appears, ValidateSiloedBorrow
    <3> QED
      BY <3>1
  <2> QED
    BY <2>1, <2>2 DEF Appears, TypeOK
<1> QED
  BY <1>3, <1>4

LEMMA NoBorrowersOwe ==
    ASSUME TypeOK, VariableDebtsAddUp, NEW r \in Reserves, NoBorrowers(r), NEW u \in Users
    PROVE  ~Owes(u, r)
<1>1. /\ scaledVariableDebt \in [Users -> [Reserves -> Nat]]
      /\ stableDebt \in [Users -> [Reserves -> Nat]]
  BY DEF TypeOK
<1>2. Total(scaledVariableDebt, r) = 0 /\ Total(stableDebt, r) = 0
  BY NoBorrowersNothing DEF VariableDebtsAddUp, TotalStableDebt
<1>3. /\ scaledVariableDebt[u][r] <= Total(scaledVariableDebt, r)
      /\ stableDebt[u][r] <= Total(stableDebt, r)
  BY <1>1, StorageAssumption, TotalBounds
<1>4. scaledVariableDebt[u][r] \in Nat /\ stableDebt[u][r] \in Nat
  BY <1>1
<1> QED
  BY <1>2, <1>3, <1>4 DEF Owes

LEMMA SiloedConfiguratorStep ==
    ASSUME GovernedTypeOK, VariableDebtsAddUp, SiloedDebtFlaggedAlone, ConfiguratorCall
    PROVE  SiloedDebtFlaggedAlone'
<1> SUFFICES ASSUME NEW u \in Users, NEW r \in Reserves, Owes(u, r)', config'[r].siloedBorrowing
             PROVE  borrowing'[u] = {r}
  BY DEF SiloedDebtFlaggedAlone
<1>1. Owes(u, r) /\ UNCHANGED borrowing
  <2>1. ASSUME NEW s \in Reserves, InitReserve(s) PROVE Owes(u, r) /\ UNCHANGED borrowing
    BY <2>1 DEF InitReserve, Owes, GovernedTypeOK, TypeOK, userFlags
  <2> QED
    BY <2>1, ConfiguratorFrame DEF debtTokens, Owes
<1>2. config[r].siloedBorrowing
  BY <1>1, ConfiguratorSwitches, NoBorrowersOwe DEF Switched, GovernedTypeOK
<1> QED
  BY <1>1, <1>2 DEF SiloedDebtFlaggedAlone

LEMMA SiloedGovernedStep ==
    ASSUME GovernedTypeOK, SuppliesAddUp, DebtFlagged, SiloedDebtFlaggedAlone,
           [GovernedNext]_governedVars
    PROVE  SiloedDebtFlaggedAlone'
<1>1. TypeOK /\ VariableDebtsAddUp
  BY SuppliesParts DEF GovernedTypeOK
<1>2. CASE [Next]_vars
  BY <1>1, <1>2, SiloedPoolStep
<1>3. CASE ConfiguratorCall
  BY <1>1, <1>3, SiloedConfiguratorStep
<1> QED
  BY <1>2, <1>3 DEF GovernedNext, governedVars

(* Who owes a siloed asset owes nothing else, under any governance: making *)
(* an asset siloed needs that nobody owes it, and from then on the flags,  *)
(* stale ones included, keep other borrows out.                            *)
THEOREM SiloedDebtsAlone == GovernedSpec => []SiloedDebtAlone
<1>1. GovernedInit => SiloedDebtFlaggedAlone
  BY DEF GovernedInit, Init, SiloedDebtFlaggedAlone, Owes
<1>2. /\ GovernedTypeOK /\ SuppliesAddUp /\ DebtFlagged /\ SiloedDebtFlaggedAlone
      /\ [GovernedNext]_governedVars
      => SiloedDebtFlaggedAlone'
  BY SiloedGovernedStep
<1>3. DebtFlagged /\ SiloedDebtFlaggedAlone => SiloedDebtAlone
  <2>1. ASSUME DebtFlagged, SiloedDebtFlaggedAlone, NEW u \in Users, NEW r \in OwedBy(u),
               config[r].siloedBorrowing
        PROVE  OwedBy(u) = {r}
    <3>1. r \in Reserves /\ Owes(u, r)
      BY <2>1 DEF OwedBy
    <3>2. borrowing[u] = {r}
      BY <2>1, <3>1 DEF SiloedDebtFlaggedAlone
    <3> QED
      BY <2>1, <3>2 DEF OwedBy, DebtFlagged
  <2> QED
    BY <2>1 DEF SiloedDebtAlone
<1> QED
  BY <1>1, <1>2, <1>3, GovernedTypeCorrect, GovernedSuppliesAddUp, GovernedDebtsFlagged, PTL
  DEF GovernedSpec

-----------------------------------------------------------------------------
(* Collateral of LTV zero goes first.                                      *)

(* A burn of either debt token lowers what the user owes.                  *)
LEMMA DebtFalls ==
    ASSUME TypeOK, NEW v \in Users, NEW s \in Reserves, NEW x \in Nat, NEW y \in Nat,
           UNCHANGED variableBorrowIndex,
           \/ BurnVariableDebt(v, s, x) /\ (BurnStableDebt(v, s, y) \/ UNCHANGED stableDebt)
           \/ y # 0 /\ BurnStableDebt(v, s, y) /\ UNCHANGED scaledVariableDebt
    PROVE  DebtOf(v, s)' < DebtOf(v, s)
<1> DEFINE scaled == rayDiv(x, variableBorrowIndex[s])
           i == variableBorrowIndex[s]
           d == scaledVariableDebt[v][s]
           e == scaledVariableDebt'[v][s]
<1>1. /\ d \in Nat /\ stableDebt[v][s] \in Nat /\ scaled \in Nat
      /\ i \in Nat /\ RAY <= i
  BY DebtNat, ScaledNat, IndexFacts
<1>2. BurnVariableDebt(v, s, x) => e \in Nat /\ e < d
  <2>1. BurnVariableDebt(v, s, x) => scaled # 0 /\ scaled <= d /\ e = d - scaled
    BY DEF BurnVariableDebt, TypeOK
  <2> HIDE DEF scaled, d, e
  <2> QED
    BY <1>1, <2>1
<1>3. UNCHANGED scaledVariableDebt => e = d
  OBVIOUS
<1>4. /\ BurnStableDebt(v, s, y) => stableDebt'[v][s] = stableDebt[v][s] - y
      /\ UNCHANGED stableDebt => stableDebt'[v][s] = stableDebt[v][s]
  BY DEF BurnStableDebt, TypeOK
<1>5. DebtOf(v, s)' = rayMul(e, i) + stableDebt'[v][s]
  BY DEF DebtOf, VariableDebtOf
<1>6. DebtOf(v, s) = rayMul(d, i) + stableDebt[v][s]
  BY DEF DebtOf, VariableDebtOf
<1> HIDE DEF scaled, i, d, e
<1>7. CASE BurnVariableDebt(v, s, x) /\ (BurnStableDebt(v, s, y) \/ UNCHANGED stableDebt)
  <2>1. rayMul(e, i) < rayMul(d, i) /\ rayMul(e, i) \in Nat /\ rayMul(d, i) \in Nat
    BY <1>1, <1>2, <1>7, RayMulStrict, RayMulNat
  <2>2. stableDebt'[v][s] \in Int /\ stableDebt'[v][s] <= stableDebt[v][s]
    BY <1>1, <1>4, <1>7
  <2> QED
    BY <1>1, <1>5, <1>6, <2>1, <2>2
<1>8. CASE y # 0 /\ BurnStableDebt(v, s, y) /\ UNCHANGED scaledVariableDebt
  <2>1. e = d /\ rayMul(d, i) \in Nat
    BY <1>1, <1>3, <1>8, RayMulNat
  <2>2. stableDebt'[v][s] = stableDebt[v][s] - y
    BY <1>4, <1>8
  <2> QED
    BY <1>1, <1>5, <1>6, <1>8, <2>1, <2>2
<1> QED
  BY <1>7, <1>8

LEMMA LiquidatedDebtFalls ==
    ASSUME TypeOK, NEW v \in Users, NEW s \in Reserves, NEW x \in Nat,
           BurnDebtTokens(v, s, x), UNCHANGED variableBorrowIndex
    PROVE  DebtOf(v, s)' < DebtOf(v, s)
<1> DEFINE variable == VariableDebtOf(v, s)
<1>1. variable \in Nat
  BY DebtNat
<1>2. CASE BurnVariableDebt(v, s, x) /\ UNCHANGED stableDebt
  BY <1>2, DebtFalls
<1>3. CASE /\ variable < x
           /\ BurnStableDebt(v, s, x - variable)
           /\ IF variable # 0 THEN BurnVariableDebt(v, s, variable)
                              ELSE UNCHANGED variableDebtToken
  <2>1. x - variable \in Nat \ {0}
    BY <1>1, <1>3
  <2>2. CASE variable # 0
    BY <1>1, <1>3, <2>1, <2>2, DebtFalls
  <2>3. CASE variable = 0
    <3>1. UNCHANGED scaledVariableDebt
      BY <1>3, <2>3 DEF variableDebtToken
    <3> QED
      BY <1>3, <2>1, <3>1, DebtFalls
  <2> QED
    BY <2>2, <2>3
<1> QED
  BY <1>2, <1>3 DEF BurnDebtTokens

(* Who is not the one it is taken from loses nothing by a move.            *)
LEMMA MovedKeeps ==
    ASSUME NEW b \in [Accounts -> [Reserves -> Nat]], NEW from \in Accounts,
           NEW to \in Accounts, NEW r \in Reserves, NEW x \in Nat,
           NEW a \in Accounts \ {from}, NEW q \in Reserves
    PROVE  Moved(b, from, to, r, x)[a][q] >= b[a][q]
BY DEF Moved

LEMMA SeizeKeeps ==
    ASSUME TypeOK, NEW liquidator \in Users, NEW v \in Users, NEW rc \in Reserves,
           NEW seized \in Nat, NEW fee \in Nat, NEW receiveAToken \in BOOLEAN,
           SeizeATokens(liquidator, v, rc, seized, fee, receiveAToken),
           NEW u \in Users \ {v}, NEW q \in Reserves
    PROVE  scaledBalance'[u][q] >= scaledBalance[u][q]
<1> DEFINE index == liquidityIndex[rc]
           scaled == rayDiv(seized, index)
           afterSeize == IF receiveAToken
                         THEN Moved(scaledBalance, v, liquidator, rc, scaled)
                         ELSE [scaledBalance EXCEPT ![v][rc] = @ - scaled]
           left == afterSeize[v][rc]
           paidFee == IF rayDiv(fee, index) > left THEN rayMul(left, index) ELSE fee
           scaledFee == rayDiv(paidFee, index)
<1>1. Users \subseteq Accounts /\ Treasury \in Accounts
  BY DEF Accounts
<1>2. scaled \in Nat /\ scaled <= scaledBalance[v][rc]
  BY ScaledNat DEF SeizeATokens
<1>3. scaledBalance \in [Accounts -> [Reserves -> Nat]]
  BY DEF TypeOK
<1>4. scaledBalance' = IF fee = 0 THEN afterSeize
                       ELSE Moved(afterSeize, v, Treasury, rc, scaledFee)
  BY DEF SeizeATokens
<1>5. afterSeize \in [Accounts -> [Reserves -> Nat]]
  <2> HIDE DEF scaled
  <2>1. v \in Accounts /\ liquidator \in Accounts
    BY <1>1
  <2>2. Moved(scaledBalance, v, liquidator, rc, scaled) \in [Accounts -> [Reserves -> Nat]]
    BY <1>2, <1>3, <2>1, MovedType
  <2>3. [scaledBalance EXCEPT ![v][rc] = @ - scaled] \in [Accounts -> [Reserves -> Nat]]
    BY <1>2, <1>3, <2>1
  <2> QED
    BY <2>2, <2>3
<1>6. afterSeize[u][q] >= scaledBalance[u][q]
  <2> HIDE DEF scaled
  <2>1. Moved(scaledBalance, v, liquidator, rc, scaled)[u][q] >= scaledBalance[u][q]
    BY <1>1, <1>2, <1>3, MovedKeeps
  <2>2. [scaledBalance EXCEPT ![v][rc] = @ - scaled][u][q] >= scaledBalance[u][q]
    BY <1>1, <1>3
  <2> QED
    BY <2>1, <2>2
<1>7. scaledFee \in Nat
  <2>1. left \in Nat
    <3> HIDE DEF afterSeize
    <3> QED
      BY <1>1, <1>5
  <2>2. paidFee \in Nat
    <3> HIDE DEF left
    <3> QED
      BY <2>1, IndexFacts, RayMulNat
  <2> HIDE DEF paidFee
  <2> QED
    BY <2>2, ScaledNat
<1>8. afterSeize[u][q] \in Nat /\ scaledBalance[u][q] \in Nat
  <2> HIDE DEF afterSeize
  <2> QED
    BY <1>1, <1>3, <1>5
<1> HIDE DEF index, scaled, afterSeize, left, paidFee, scaledFee
<1>9. Moved(afterSeize, v, Treasury, rc, scaledFee)[u][q] >= afterSeize[u][q]
  BY <1>1, <1>5, <1>7, MovedKeeps
<1>10. scaledBalance'[u][q] >= afterSeize[u][q] /\ scaledBalance'[u][q] \in Int
  <2>1. Moved(afterSeize, v, Treasury, rc, scaledFee)[u][q] \in Int
    BY <1>1, <1>5, <1>7 DEF Moved
  <2> QED
    BY <1>4, <1>8, <1>9, <2>1
<1> QED
  BY <1>6, <1>8, <1>10

(* The steps the action property is about.                                 *)
TakesOther(u, r) ==
    /\ scaledBalance'[u][r] < scaledBalance[u][r]
    /\ config[r].ltv # 0 /\ governance' = governance
    /\ HasZeroLtvCollateral(Position(u)) /\ OwedBy(u) # {}
PaysDebt(u) == \E d \in Reserves : DebtOf(u, d)' < DebtOf(u, d)

(* What is taken out of other collateral leaves the zero-LTV one counted,  *)
(* so that the check on the way out finds it.                              *)
LEMMA ZeroLtvStays ==
    ASSUME NEW p, NEW r, NEW q, HasZeroLtvCollateral(p), config[r].ltv # 0,
           p.collateral \ {r} \subseteq q.collateral
    PROVE  ~ValidateHFAndLtv(q, r)
BY DEF HasZeroLtvCollateral, CountedCollateral, ValidateHFAndLtv

LEMMA SupplierGoesFirst ==
    ASSUME TypeOK, DebtFlagged, SupplierCall, NEW u \in Users, NEW r \in usingAsCollateral[u]
    PROVE  ~TakesOther(u, r)
<1> SUFFICES ASSUME TakesOther(u, r) PROVE FALSE
  OBVIOUS
<1>1. /\ scaledBalance'[u][r] < scaledBalance[u][r]
      /\ config[r].ltv # 0 /\ HasZeroLtvCollateral(Position(u)) /\ borrowing[u] # {}
  BY DEF TakesOther, OwedBy, DebtFlagged
<1>2. /\ scaledBalance \in [Accounts -> [Reserves -> Nat]] /\ Users \subseteq Accounts
      /\ usingAsCollateral \in [Users -> SUBSET Reserves] /\ r \in Reserves
  BY DEF TypeOK, Accounts
<1>3. Position(u).collateral = usingAsCollateral[u]
  BY DEF Position
<1>4. PICK v \in Users, s \in Reserves :
          \/ \E sender \in Users, x \in Amounts : Supply(sender, v, s, x)
          \/ \E x \in Requests : Withdraw(v, s, x)
          \/ \E to \in Users, x \in Amounts : Transfer(v, to, s, x)
          \/ \E use \in BOOLEAN : SetUserUseReserveAsCollateral(v, s, use)
  BY DEF SupplierCall
<1>5. ASSUME NEW sender \in Users, NEW x \in Amounts, Supply(sender, v, s, x)
      PROVE  FALSE
  <2>1. PICK y \in Nat : scaledBalance' = [scaledBalance EXCEPT ![v][s] = @ + y]
    <3>1. x \in Nat
      BY StorageAssumption
    <3> QED
      BY <1>5, <3>1, ScaledNat DEF Supply, MintAToken
  <2> QED
    BY <1>1, <1>2, <2>1
<1>6. ASSUME NEW x \in Requests, Withdraw(v, s, x) PROVE FALSE
  <2>1. PICK y : scaledBalance' = [scaledBalance EXCEPT ![v][s] = y]
    BY <1>6 DEF Withdraw, BurnAToken
  <2>2. v = u /\ s = r
    BY <1>1, <1>2, <2>1
  <2>3. ValidateHFAndLtv(Position(u)', r)
    BY <1>1, <1>6, <2>2 DEF Withdraw
  <2>4. usingAsCollateral[u] \ {r} \subseteq usingAsCollateral'[u]
    BY <1>2, <1>6, <2>2 DEF Withdraw
  <2>5. Position(u)'.collateral = usingAsCollateral'[u]
    BY DEF Position
  <2> QED
    BY <1>1, <1>3, <2>3, <2>4, <2>5, ZeroLtvStays
<1>7. ASSUME NEW to \in Users, NEW x \in Amounts, Transfer(v, to, s, x) PROVE FALSE
  <2>1. PICK y \in Nat : scaledBalance' = Moved(scaledBalance, v, to, s, y)
    <3>1. x \in Nat
      BY StorageAssumption
    <3> QED
      BY <1>7, <3>1, ScaledNat DEF Transfer
  <2>2. v = u
    <3>1. v # u => scaledBalance'[u][r] >= scaledBalance[u][r]
      BY <1>2, <2>1, MovedKeeps
    <3>2. v # u => scaledBalance'[u][r] \in Int
      BY <1>2, <2>1 DEF Moved
    <3> QED
      BY <1>1, <1>2, <3>1, <3>2
  <2>3. s = r
    <3>1. s # r => scaledBalance'[u][r] = scaledBalance[u][r]
      BY <1>2, <2>1 DEF Moved
    <3> QED
      BY <1>1, <1>2, <3>1
  <2> DEFINE q == [Position(v)' EXCEPT !.collateral = usingAsCollateral[v]]
  <2>4. ValidateHFAndLtv(q, r)
    BY <1>1, <1>7, <2>2, <2>3 DEF Transfer
  <2>5. q.collateral = usingAsCollateral[u]
    BY <2>2 DEF Position
  <2> HIDE DEF q
  <2> QED
    BY <1>1, <1>3, <2>4, <2>5, ZeroLtvStays
<1>8. ASSUME NEW use, SetUserUseReserveAsCollateral(v, s, use) PROVE FALSE
  BY <1>1, <1>2, <1>8 DEF SetUserUseReserveAsCollateral, aToken
<1> QED
  BY <1>4, <1>5, <1>6, <1>7, <1>8

LEMMA BorrowerGoesFirst ==
    ASSUME TypeOK, BorrowerCall, NEW u \in Users, NEW r \in usingAsCollateral[u],
           TakesOther(u, r)
    PROVE  PaysDebt(u)
<1>1. /\ scaledBalance'[u][r] < scaledBalance[u][r]
      /\ scaledBalance \in [Accounts -> [Reserves -> Nat]] /\ Users \subseteq Accounts
      /\ r \in Reserves
  BY DEF TakesOther, TypeOK, Accounts
<1>2. scaledBalance' # scaledBalance
  BY <1>1
<1>3. PICK v \in Users, s \in Reserves, mode \in InterestRateModes, x \in Requests,
           useATokens \in BOOLEAN : Repay(v, s, x, mode, useATokens)
  BY <1>2 DEF BorrowerCall, Borrow, ExecuteBorrow, SwapBorrowRateMode, aToken
<1> DEFINE offered == IF useATokens /\ x = MaxUint256 THEN BalanceOf(v, s) ELSE x
           payback == AtMost(offered, IF mode = STABLE THEN stableDebt[v][s]
                                                       ELSE VariableDebtOf(v, s))
<1>4. payback \in Nat
  <2>1. offered \in Nat
    BY RequestNat, BalanceNat DEF Accounts
  <2>2. (IF mode = STABLE THEN stableDebt[v][s] ELSE VariableDebtOf(v, s)) \in Nat
    BY DebtNat
  <2> QED
    BY <2>1, <2>2, AtMostNat
<1>5. /\ \/ BurnStableDebt(v, s, payback) /\ UNCHANGED scaledVariableDebt
         \/ BurnVariableDebt(v, s, payback) /\ UNCHANGED stableDebt
      /\ BurnAToken(v, s, payback)
      /\ UNCHANGED variableBorrowIndex
  BY <1>2, <1>3 DEF Repay, Settle, aToken, variableDebtToken, indices
<1> HIDE DEF payback
<1>6. payback # 0
  BY <1>5, IndexFacts, RayDivOfNothing DEF BurnAToken
<1>7. v = u
  <2>1. PICK y : scaledBalance' = [scaledBalance EXCEPT ![v][s] = y]
    BY <1>5 DEF BurnAToken
  <2> QED
    BY <1>1, <2>1
<1>8. DebtOf(v, s)' < DebtOf(v, s)
  BY <1>4, <1>5, <1>6, DebtFalls
<1> QED
  BY <1>7, <1>8 DEF PaysDebt

LEMMA LiquidatorGoesFirst ==
    ASSUME TypeOK, LiquidatorCall, NEW u \in Users, NEW r \in usingAsCollateral[u],
           TakesOther(u, r)
    PROVE  PaysDebt(u)
<1>1. PICK liquidator \in Users, v \in Users, rc \in Reserves, rd \in Reserves :
          LiquidationMoves(liquidator, v, rc, rd)
  BY LiquidatorFlows
<1>2. PICK covered \in Nat, seized \in Nat, fee \in Nat, receiveAToken \in BOOLEAN :
          /\ BurnDebtTokens(v, rd, covered)
          /\ SeizeATokens(liquidator, v, rc, seized, fee, receiveAToken)
  BY <1>1 DEF LiquidationMoves
<1>3. /\ scaledBalance'[u][r] < scaledBalance[u][r] /\ r \in Reserves
      /\ scaledBalance[u][r] \in Nat
  BY DEF TakesOther, TypeOK, Accounts
<1>4. v = u
  <2>1. TypeOK'
    BY TypeStep DEF Next, PoolCall
  <2>2. scaledBalance'[u][r] \in Nat
    BY <1>3, <2>1 DEF TypeOK, Accounts
  <2>3. ASSUME v # u PROVE scaledBalance'[u][r] >= scaledBalance[u][r]
    <3>1. u \in Users \ {v}
      BY <2>3
    <3> QED
      BY <1>2, <1>3, <3>1, SeizeKeeps
  <2> QED
    BY <1>3, <2>2, <2>3
<1>5. UNCHANGED variableBorrowIndex
  BY LiquidatorFlows DEF reserveFrame, indices
<1>6. DebtOf(v, rd)' < DebtOf(v, rd)
  BY <1>2, <1>5, LiquidatedDebtFalls
<1> QED
  BY <1>4, <1>6 DEF PaysDebt

(* Nothing else takes aTokens from a user.                                 *)
LEMMA OthersTakeNothing ==
    ASSUME TypeOK, NEW u \in Users, NEW r \in Reserves,
           OtherCall \/ Environment \/ UNCHANGED vars
    PROVE  scaledBalance'[u][r] >= scaledBalance[u][r]
<1>1. /\ scaledBalance[u][r] \in Nat /\ Users \subseteq Accounts
      /\ scaledBalance \in [Accounts -> [Reserves -> Nat]]
  BY DEF TypeOK, Accounts
<1>2. CASE UNCHANGED scaledBalance
  BY <1>1, <1>2
<1>3. ASSUME NEW v \in Accounts, NEW s \in Reserves, NEW x \in Nat, MintAToken(v, s, x)
      PROVE  scaledBalance'[u][r] >= scaledBalance[u][r]
  <2>1. PICK y \in Nat : scaledBalance' = [scaledBalance EXCEPT ![v][s] = @ + y]
    BY <1>3, ScaledNat DEF MintAToken
  <2> QED
    BY <1>1, <2>1
<1>4. ASSUME NEW s \in Reserves, MintToTreasury(s)
      PROVE  scaledBalance'[u][r] >= scaledBalance[u][r]
  <2>1. PICK y : scaledBalance' = [scaledBalance EXCEPT ![Treasury][s] = y]
    BY <1>4 DEF MintToTreasury, MintAToken
  <2>2. scaledBalance'[u] = scaledBalance[u]
    BY <1>1, <2>1, StorageAssumption
  <2> QED
    BY <1>1, <2>2
<1>5. CASE OtherCall
  <2>1. ASSUME NEW s \in Reserves, NEW x, NEW fee, BackUnbacked(s, x, fee)
        PROVE  UNCHANGED scaledBalance
    BY <2>1 DEF BackUnbacked, aToken
  <2> QED
    BY <1>1, <1>2, <1>3, <1>4, <1>5, <2>1, OtherFlows DEF aToken
<1>6. CASE Environment \/ UNCHANGED vars
  <2>1. UNCHANGED scaledBalance
    BY <1>6
    DEF Environment, Accrue, AccrueStable, SetPrice, SequencerChange, aToken, vars
  <2> QED
    BY <1>2, <2>1
<1> QED
  BY <1>5, <1>6

LEMMA ListedSlotHasNoLtv ==
    ASSUME GovernedTypeOK, ConfiguratorCall, NEW u \in Users, NEW r \in Reserves,
           TakesOther(u, r)
    PROVE  FALSE
<1>1. scaledBalance'[u][r] < scaledBalance[u][r] /\ config[r].ltv # 0
      /\ scaledBalance \in [Accounts -> [Reserves -> Nat]] /\ Users \subseteq Accounts
  BY DEF TakesOther, GovernedTypeOK, TypeOK, Accounts
<1>2. PICK s \in Reserves : InitReserve(s)
  BY <1>1, ConfiguratorFrame DEF aToken
<1>3. s = r
  BY <1>1, <1>2 DEF InitReserve
<1>4. config[r] = NoConfiguration
  BY <1>2, <1>3 DEF InitReserve, GovernedTypeOK
<1> QED
  BY <1>1, <1>4 DEF NoConfiguration

(* A borrower with a collateral whose LTV governance set to zero takes no  *)
(* other collateral out but with a debt, by any call of anybody            *)
(* (ValidationLogic.validateHFAndLtv in executeWithdraw and                *)
(* executeFinalizeTransfer).                                               *)
THEOREM ZeroLtvAlwaysGoesFirst == GovernedSpec => ZeroLtvGoesFirst
<1>1. ASSUME GovernedTypeOK, DebtFlagged, [GovernedNext]_governedVars,
             NEW u \in Users, NEW r \in usingAsCollateral[u], TakesOther(u, r)
      PROVE  PaysDebt(u)
  <2>1. TypeOK /\ r \in Reserves
    BY <1>1 DEF GovernedTypeOK, TypeOK
  <2>2. CASE OtherCall \/ Environment \/ UNCHANGED vars
    <3>1. scaledBalance'[u][r] >= scaledBalance[u][r]
      BY <2>1, <2>2, OthersTakeNothing
    <3>2. scaledBalance'[u][r] < scaledBalance[u][r] /\ scaledBalance[u][r] \in Nat
      BY <1>1, <2>1 DEF TakesOther, TypeOK, Accounts
    <3>3. scaledBalance'[u][r] \in Nat
      <4>1. TypeOK'
        BY <2>1, <2>2, TypeStep DEF Next, PoolCall
      <4> QED
        BY <2>1, <4>1 DEF TypeOK, Accounts
    <3> QED
      BY <3>1, <3>2, <3>3
  <2>3. CASE SupplierCall
    BY <1>1, <2>1, <2>3, SupplierGoesFirst
  <2>4. CASE BorrowerCall
    BY <1>1, <2>1, <2>4, BorrowerGoesFirst
  <2>5. CASE LiquidatorCall
    BY <1>1, <2>1, <2>5, LiquidatorGoesFirst
  <2>6. CASE ConfiguratorCall
    BY <1>1, <2>1, <2>6, ListedSlotHasNoLtv
  <2> QED
    BY <1>1, <2>2, <2>3, <2>4, <2>5, <2>6
    DEF GovernedNext, Next, PoolCall, governedVars
<1>2. /\ GovernedTypeOK /\ DebtFlagged /\ [GovernedNext]_governedVars
      => [\A u \in Users : \A r \in usingAsCollateral[u] :
             /\ scaledBalance'[u][r] < scaledBalance[u][r]
             /\ config[r].ltv # 0 /\ governance' = governance
             /\ HasZeroLtvCollateral(Position(u)) /\ OwedBy(u) # {}
             => \E d \in Reserves : DebtOf(u, d)' < DebtOf(u, d)]_governedVars
  BY <1>1 DEF TakesOther, PaysDebt
<1> QED
  BY <1>2, GovernedTypeCorrect, GovernedDebtsFlagged, PTL DEF GovernedSpec, ZeroLtvGoesFirst

=============================================================================
