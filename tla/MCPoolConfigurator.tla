-------------------------- MODULE MCPoolConfigurator ------------------------
(***************************************************************************)
(* A small instance of the governed pool for TLC: one ordinary collateral  *)
(* and one asset that is collateral and can be borrowed in both modes,     *)
(* whose configuration changes.                                            *)
(***************************************************************************)
EXTENDS PoolConfigurator, TLC

CONSTANTS alice, bob, treasury, bridge, ColA, DebtA, noAsset

Asset == [NoConfiguration EXCEPT !.active = TRUE, !.flashLoanEnabled = TRUE,
              !.ltv = 7, !.liquidationThreshold = 8, !.liquidationBonus = 11]

GovernedConfig ==
    (ColA  :> [Asset EXCEPT !.supplyCap = 1, !.borrowingEnabled = TRUE, !.borrowCap = 1]) @@
    (DebtA :> [Asset EXCEPT !.borrowingEnabled = TRUE, !.stableBorrowingEnabled = TRUE,
                            !.supplyCap = 2, !.borrowCap = 1, !.reserveFactor = 5])
(* The same with an LTV at which no loan of the asset is backed by itself.  *)
LowLtvConfig == [GovernedConfig EXCEPT ![DebtA].ltv = 4]
GovernedPrices == (ColA :> {2}) @@ (DebtA :> {1})

(* A category nobody has configured, and one.                              *)
NoParameters == [ltv |-> 0, liquidationThreshold |-> 0, liquidationBonus |-> 0,
                 priceSource |-> NoAsset]
GovernedCategories == 1 :> NoParameters
NewCategories == {[NoParameters EXCEPT !.ltv = 8, !.liquidationThreshold = 9,
                                       !.liquidationBonus = 11]}
NewSettings == {[ltv |-> 0, liquidationThreshold |-> 6, liquidationBonus |-> 11],
                [ltv |-> 1, liquidationThreshold |-> 2, liquidationBonus |-> 11],
                [ltv |-> 0, liquidationThreshold |-> 0, liquidationBonus |-> 0]}
UserSymmetry == Permutations(Users)
=============================================================================
