-------------------------- MODULE PoolConfigurator --------------------------
(***************************************************************************)
(* The governance of the pool: PoolConfigurator.sol and the functions of   *)
(* Pool.sol it alone may call, one action per setter, composed with the    *)
(* pool whose users go on in between.  A member of Reserves is a slot of   *)
(* _reservesList: it may be emptied and listed again, with the same asset  *)
(* or another, while the users' bitmaps keep the slot's bits.              *)
(*                                                                         *)
(* Who may call what is left out: an administrator calls anything its      *)
(* requirements let through.  The rate strategies, the implementations of  *)
(* the tokens, the bridge's fee and the flash loan premiums, which are     *)
(* constants of the models, are not set here.                              *)
(* A definition introduced by "Slip:" is a plausible error in the one that *)
(* follows it, used by the mutation runs and by no action.                 *)
(***************************************************************************)
EXTENDS Pool

CONSTANTS
    CollateralSettings, \* the arguments of configureReserveAsCollateral
    CategorySettings,   \* the arguments of setEModeCategory
    Percentages,        \* the reserve factors and liquidation fees set
    Caps,               \* the caps set
    Ceilings,           \* the debt ceilings set
    Governed,           \* bound: the reserves whose configuration changes
    MaxChanges          \* bound: the changes the administrators make

ASSUME ConfiguratorAssumption ==
    /\ CollateralSettings \subseteq
           [ltv : Nat, liquidationThreshold : Nat, liquidationBonus : Nat]
    /\ CategorySettings \subseteq EModeCategory
    /\ Percentages \subseteq Nat
    /\ Caps \subseteq Nat /\ Ceilings \subseteq Nat
    /\ Governed \subseteq Reserves
    /\ MaxChanges \in Nat

VARIABLES
    listed,             \* the slots of _reservesList that hold an asset
    changes             \* the changes the administrators made so far

positions == <<indices, accruedToTreasury, unbacked, liquidity, aToken,
               debtTokens, userFlags, eModeCategory, market>>
governedVars == <<vars, listed, changes>>

(* A configuration map of zeros, as a slot without an asset has.           *)
NoConfiguration ==
    [ltv |-> 0, liquidationThreshold |-> 0, liquidationBonus |-> 0,
     unit |-> 1, ceilingUnit |-> 1,
     active |-> FALSE, frozen |-> FALSE, paused |-> FALSE,
     borrowingEnabled |-> FALSE, stableBorrowingEnabled |-> FALSE,
     borrowableInIsolation |-> FALSE, siloedBorrowing |-> FALSE,
     flashLoanEnabled |-> FALSE,
     reserveFactor |-> 0, supplyCap |-> 0, borrowCap |-> 0,
     unbackedMintCap |-> 0, debtCeiling |-> 0,
     liquidationProtocolFee |-> 0, eModeCategory |-> NoCategory]

-----------------------------------------------------------------------------
(* What the setters require.                                               *)

(* Slip: the supply is not looked at.                                      *)
NothingAccrued(r) == accruedToTreasury[r] = 0
(* _checkNoSuppliers                                                       *)
NoSuppliers(r) ==
    rayMul(aTokenSupply[r], liquidityIndex[r]) = 0 /\ accruedToTreasury[r] = 0

(* Slip: the stable debts are forgotten.                                   *)
NoVariableBorrowers(r) == rayMul(variableDebtSupply[r], variableBorrowIndex[r]) = 0
(* _checkNoBorrowers                                                       *)
NoBorrowers(r) ==
    rayMul(variableDebtSupply[r], variableBorrowIndex[r]) + TotalStableDebt(r) = 0

(* The bonus exceeds 100%, and the collateral that a threshold leaves to a *)
(* loan covers it when the loan is taken.                                  *)
BonusIsCovered(threshold, bonus) ==
    /\ bonus > PERCENTAGE_FACTOR
    /\ percentMul(threshold, bonus) <= PERCENTAGE_FACTOR

(* Slip: only the debts are looked at.                                     *)
ValidateDropReserveDebts(r) == NoBorrowers(r)
(* ValidationLogic.validateDropReserve                                     *)
ValidateDropReserve(r) == NoBorrowers(r) /\ NoSuppliers(r)

-----------------------------------------------------------------------------
(* The setters.                                                            *)

(* Pool.setConfiguration                                                   *)
SetConfiguration(r, configuration) ==
    /\ r \in listed
    /\ config' = [config EXCEPT ![r] = configuration]
    /\ UNCHANGED <<eModeCategories, positions, listed>>
Reconfigure(r, configuration) ==
    SetConfiguration(r, configuration) /\ UNCHANGED isolationModeTotalDebt

SetReserveBorrowing(r, enabled) ==
    /\ enabled \/ ~config[r].stableBorrowingEnabled
    /\ Reconfigure(r, [config[r] EXCEPT !.borrowingEnabled = enabled])

SetReserveStableRateBorrowing(r, enabled) ==
    /\ enabled => config[r].borrowingEnabled
    /\ Reconfigure(r, [config[r] EXCEPT !.stableBorrowingEnabled = enabled])

(* An asset stops being collateral only while nobody supplies it.          *)
ConfigureReserveAsCollateral(r, s) ==
    /\ s.ltv <= s.liquidationThreshold
    /\ IF s.liquidationThreshold # 0
       THEN BonusIsCovered(s.liquidationThreshold, s.liquidationBonus)
       ELSE s.liquidationBonus = 0 /\ NoSuppliers(r)
    /\ Reconfigure(r, [config[r] EXCEPT !.ltv = s.ltv,
                               !.liquidationThreshold = s.liquidationThreshold,
                               !.liquidationBonus = s.liquidationBonus])

SetReserveActive(r, active) ==
    /\ active \/ NoSuppliers(r)
    /\ Reconfigure(r, [config[r] EXCEPT !.active = active])

(* An asset becomes isolated only while nobody supplies it; the counted    *)
(* debt is forgotten when it stops being isolated.                         *)
SetDebtCeiling(r, ceiling) ==
    /\ config[r].debtCeiling = 0 => NoSuppliers(r)
    /\ SetConfiguration(r, [config[r] EXCEPT !.debtCeiling = ceiling])
    /\ isolationModeTotalDebt' =
           [isolationModeTotalDebt EXCEPT ![r] = IF ceiling = 0 THEN 0 ELSE @]

(* An asset becomes siloed only while nobody owes it.                      *)
SetSiloedBorrowing(r, siloed) ==
    /\ siloed => NoBorrowers(r)
    /\ Reconfigure(r, [config[r] EXCEPT !.siloedBorrowing = siloed])

(* The debts and collateral of users in the old category are not looked at.*)
SetAssetEModeCategory(r, c) ==
    /\ c # NoCategory =>
           eModeCategories[c].liquidationThreshold > config[r].liquidationThreshold
    /\ Reconfigure(r, [config[r] EXCEPT !.eModeCategory = c])

(* The setters that look at nothing but their argument.                    *)
SetReservePause(r, paused) ==
    Reconfigure(r, [config[r] EXCEPT !.paused = paused])
SetReserveFreeze(r, freeze) ==
    Reconfigure(r, [config[r] EXCEPT !.frozen = freeze])
SetReserveFlashLoaning(r, enabled) ==
    Reconfigure(r, [config[r] EXCEPT !.flashLoanEnabled = enabled])
SetBorrowableInIsolation(r, borrowable) ==
    Reconfigure(r, [config[r] EXCEPT !.borrowableInIsolation = borrowable])
SetReserveFactor(r, newReserveFactor) ==
    /\ newReserveFactor <= PERCENTAGE_FACTOR
    /\ Reconfigure(r, [config[r] EXCEPT !.reserveFactor = newReserveFactor])
SetLiquidationProtocolFee(r, newFee) ==
    /\ newFee <= PERCENTAGE_FACTOR
    /\ Reconfigure(r, [config[r] EXCEPT !.liquidationProtocolFee = newFee])
SetBorrowCap(r, newBorrowCap) ==
    Reconfigure(r, [config[r] EXCEPT !.borrowCap = newBorrowCap])
SetSupplyCap(r, newSupplyCap) ==
    Reconfigure(r, [config[r] EXCEPT !.supplyCap = newSupplyCap])
SetUnbackedMintCap(r, newUnbackedMintCap) ==
    Reconfigure(r, [config[r] EXCEPT !.unbackedMintCap = newUnbackedMintCap])

SetPoolPause(paused) ==
    /\ config' = [r \in Reserves |->
           IF r \in listed THEN [config[r] EXCEPT !.paused = paused] ELSE config[r]]
    /\ UNCHANGED <<eModeCategories, isolationModeTotalDebt, positions, listed>>

(* A category must be better than every listed asset in it.                *)
SetEModeCategory(c, s) ==
    /\ s.ltv # 0 /\ s.liquidationThreshold # 0
    /\ s.ltv <= s.liquidationThreshold
    /\ BonusIsCovered(s.liquidationThreshold, s.liquidationBonus)
    /\ \A r \in listed : config[r].eModeCategory = c =>
           /\ s.ltv > config[r].ltv
           /\ s.liquidationThreshold > config[r].liquidationThreshold
    /\ eModeCategories' = [eModeCategories EXCEPT ![c] = s]
    /\ UNCHANGED <<config, isolationModeTotalDebt, positions, listed>>

-----------------------------------------------------------------------------
(* The listing of reserves.                                                *)

(* Slip: the slot is emptied and the record left as it was.                *)
RecordLeft(r) == config
RecordDeleted(r) == [config EXCEPT ![r] = NoConfiguration]

(* The record of the reserve is deleted and its slot emptied; its tokens   *)
(* are no longer reached, and the users' bits stay.  Indices are kept at   *)
(* one ray where the code has the zeros that init replaces.                *)
DropReserve(r) ==
    /\ r \in listed
    /\ ValidateDropReserve(r)
    /\ listed' = listed \ {r}
    /\ config' = RecordDeleted(r)
    /\ liquidityIndex' = [liquidityIndex EXCEPT ![r] = RAY]
    /\ variableBorrowIndex' = [variableBorrowIndex EXCEPT ![r] = RAY]
    /\ unbacked' = [unbacked EXCEPT ![r] = 0]
    /\ isolationModeTotalDebt' = [isolationModeTotalDebt EXCEPT ![r] = 0]
    /\ UNCHANGED <<eModeCategories, accruedToTreasury, liquidity, aToken, debtTokens,
                   userFlags, eModeCategory, market>>

(* Proxies of new tokens, the record, and an active configuration with     *)
(* nothing else in it.                                                     *)
InitReserve(r) ==
    /\ r \notin listed
    /\ listed' = listed \cup {r}
    /\ config' = [config EXCEPT ![r] = [NoConfiguration EXCEPT !.active = TRUE]]
    /\ scaledBalance' = [a \in Accounts |-> [scaledBalance[a] EXCEPT ![r] = 0]]
    /\ aTokenSupply' = [aTokenSupply EXCEPT ![r] = 0]
    /\ scaledVariableDebt' = [u \in Users |-> [scaledVariableDebt[u] EXCEPT ![r] = 0]]
    /\ variableDebtSupply' = [variableDebtSupply EXCEPT ![r] = 0]
    /\ stableDebt' = [u \in Users |-> [stableDebt[u] EXCEPT ![r] = 0]]
    /\ liquidity' = [liquidity EXCEPT ![r] = 0]
    /\ UNCHANGED <<eModeCategories, indices, accruedToTreasury, unbacked,
                   isolationModeTotalDebt, userFlags, eModeCategory, market>>

-----------------------------------------------------------------------------
SwitchCall(r) ==
    \E on \in BOOLEAN :
        \/ SetReserveBorrowing(r, on)
        \/ SetReserveStableRateBorrowing(r, on)
        \/ SetReserveActive(r, on)
        \/ SetSiloedBorrowing(r, on)
        \/ SetReservePause(r, on)
        \/ SetReserveFreeze(r, on)
        \/ SetReserveFlashLoaning(r, on)
        \/ SetBorrowableInIsolation(r, on)

ParameterCall(r) ==
    \/ \E s \in CollateralSettings : ConfigureReserveAsCollateral(r, s)
    \/ \E c \in Categories \cup {NoCategory} : SetAssetEModeCategory(r, c)
    \/ \E p \in Percentages : SetReserveFactor(r, p) \/ SetLiquidationProtocolFee(r, p)
    \/ \E ceiling \in Ceilings : SetDebtCeiling(r, ceiling)
    \/ \E cap \in Caps :
           \/ SetBorrowCap(r, cap)
           \/ SetSupplyCap(r, cap)
           \/ SetUnbackedMintCap(r, cap)

ListingCall(r) == DropReserve(r) \/ InitReserve(r)

ConfiguratorCall ==
    \/ \E r \in Governed : SwitchCall(r) \/ ParameterCall(r) \/ ListingCall(r)
    \/ \E paused \in BOOLEAN : SetPoolPause(paused)
    \/ \E c \in Categories, s \in CategorySettings : SetEModeCategory(c, s)

(* The administrators and the users take turns in any order; a call that   *)
(* leaves everything as it was is no change.                               *)
GovernedInit == Init /\ listed = Reserves /\ changes = 0

GovernedNext ==
    \/ /\ changes < MaxChanges
       /\ ConfiguratorCall
       /\ changes' = IF UNCHANGED <<governance, listed>> THEN changes ELSE changes + 1
    \/ Next /\ UNCHANGED <<listed, changes>>

GovernedSpec == GovernedInit /\ [][GovernedNext]_governedVars

-----------------------------------------------------------------------------
(* What governance promises.                                               *)

(* Every variable keeps its type, and a slot without an asset keeps a      *)
(* configuration map of zeros.                                             *)
GovernedTypeOK ==
    /\ TypeOK
    /\ listed \subseteq Reserves
    /\ changes \in Nat
    /\ \A r \in Reserves \ listed : config[r] = NoConfiguration

(* A reserve that is off holds no supply: nobody's funds are locked in it  *)
(* by setReserveActive or dropReserve, whose checks read the tokens of     *)
(* that moment, and nothing arrives afterwards by any path.  The treasury  *)
(* has a share to come of the interest on debts that were left, only.      *)
InactiveIsEmpty ==
    \A r \in Reserves : ~config[r].active =>
        /\ \A a \in Accounts : scaledBalance[a][r] = 0
        /\ accruedToTreasury[r] # 0 => variableDebtSupply[r] # 0 \/ TotalStableDebt(r) # 0

(* Who owes a siloed asset owes nothing else, although the asset may have  *)
(* become siloed while the users were borrowing (setSiloedBorrowing), its  *)
(* slot may have been listed anew, and the bits of past borrows may be on. *)
OwedBy(u) == {r \in Reserves : Owes(u, r)}
SiloedDebtAlone ==
    \A u \in Users : \A r \in OwedBy(u) :
        r \in listed /\ config[r].siloedBorrowing => OwedBy(u) = {r}

(* "A paused reserve does not allow any interaction (supply, borrow,       *)
(* repay, swap interest rate, liquidate, atoken transfers)"                *)
(* (IPoolConfigurator.sol:356): while it is paused no user's balance or    *)
(* debt of it moves, but for interest.                                     *)
PausedStandsStill ==
    [][\/ \A r \in Reserves : config[r].paused =>
              \A u \in Users :
                  /\ scaledBalance'[u][r] = scaledBalance[u][r]
                  /\ scaledVariableDebt'[u][r] = scaledVariableDebt[u][r]
                  /\ stableDebt'[u][r] = stableDebt[u][r]
       \/ Environment]_governedVars

(* "A frozen reserve doesn't allow any new supply, borrow or rate swap but *)
(* allows repayments, liquidations ... and withdrawals"                    *)
(* (IPoolConfigurator.sol:337): what the users hold of it and owe in each  *)
(* mode only shrinks, aTokens and the treasury's fee changing hands aside. *)
FrozenOnlyShrinks ==
    [][\/ \A r \in Reserves : config[r].frozen =>
              /\ aTokenSupply'[r] - scaledBalance'[Treasury][r]
                   <= aTokenSupply[r] - scaledBalance[Treasury][r]
              /\ \A u \in Users :
                     /\ scaledVariableDebt'[u][r] <= scaledVariableDebt[u][r]
                     /\ stableDebt'[u][r] <= stableDebt[u][r]
       \/ Environment]_governedVars

(* Once governance has set the LTV of a collateral to zero, a borrower who *)
(* uses it takes none of the other collateral out: that shrinks only with  *)
(* a debt (ValidationLogic.validateHFAndLtv).                              *)
ZeroLtvGoesFirst ==
    [][\A u \in Users : \A r \in usingAsCollateral[u] :
          /\ scaledBalance'[u][r] < scaledBalance[u][r]
          /\ config[r].ltv # 0 /\ governance' = governance
          /\ HasZeroLtvCollateral(Position(u)) /\ OwedBy(u) # {}
          => \E d \in Reserves : DebtOf(u, d)' < DebtOf(u, d)]_governedVars

(* Listing an asset in a slot that was used before takes nothing from      *)
(* anybody: the tokens it replaces stood for no balance and no debt.       *)
ListingTakesNothing ==
    [][\A r \in listed' \ listed :
          aTokenSupply[r] = 0 /\ variableDebtSupply[r] = 0
          /\ accruedToTreasury[r] = 0 /\ \A u \in Users : stableDebt[u][r] = 0]_governedVars

-----------------------------------------------------------------------------
(* What comments of the code say and the code does not do.                 *)

(* "isolated assets are not enabled as collateral automatically"           *)
(* (ValidationLogic.sol:728): the isolated assets that reach a user        *)
(* without any are not collateral at once, unless the call was a trusted   *)
(* supplier's.  A repayment with aTokens may leave the flag of an empty    *)
(* balance on, and the asset become isolated under it.                     *)
IsolatedNotAutomatic ==
    [][\A u \in Users, r \in Reserves :
          /\ IsolatedSuppliers = {} /\ config[r].debtCeiling # 0
          /\ scaledBalance[u][r] = 0 /\ scaledBalance'[u][r] # 0
          => r \notin usingAsCollateral'[u]]_governedVars

=============================================================================
