------------------------------- MODULE MCPool -------------------------------
(***************************************************************************)
(* Small instances of the pool for TLC.  One operator per configuration;   *)
(* a .cfg picks one.  Scales: RAY, WAD and PERCENTAGE_FACTOR are small     *)
(* even numbers given in the .cfg, units are 1 unless a run is about them. *)
(***************************************************************************)
EXTENDS Pool, TLC

CONSTANTS alice, bob, treasury, bridge, ColA, ColB, DebtA, DebtB, Feed, noAsset

(* An asset that can be supplied but is neither collateral nor borrowable. *)
Plain ==
    [ltv |-> 0, liquidationThreshold |-> 0, liquidationBonus |-> 0,
     unit |-> 1, ceilingUnit |-> 1,
     active |-> TRUE, frozen |-> FALSE, paused |-> FALSE,
     borrowingEnabled |-> FALSE, stableBorrowingEnabled |-> FALSE,
     borrowableInIsolation |-> FALSE, siloedBorrowing |-> FALSE,
     flashLoanEnabled |-> TRUE,
     reserveFactor |-> 0, supplyCap |-> 0, borrowCap |-> 0,
     unbackedMintCap |-> 0, debtCeiling |-> 0,
     liquidationProtocolFee |-> 0, eModeCategory |-> NoCategory]

UserSymmetry == Permutations(Users)

NoCategories == [c \in Categories |-> <<>>]

-----------------------------------------------------------------------------
(* Isolation: ColA is isolated and has room for two units of debt, ColB is *)
(* ordinary collateral that can be borrowed but not in isolation, DebtA is *)
(* borrowable in isolation.                                                *)
IsolationConfig ==
    (ColA  :> [Plain EXCEPT !.ltv = 8, !.liquidationThreshold = 9, !.liquidationBonus = 11,
                            !.debtCeiling = 2, !.supplyCap = 2]) @@
    (ColB  :> [Plain EXCEPT !.ltv = 8, !.liquidationThreshold = 9, !.liquidationBonus = 11,
                            !.borrowingEnabled = TRUE, !.supplyCap = 1]) @@
    (DebtA :> [Plain EXCEPT !.borrowingEnabled = TRUE, !.borrowableInIsolation = TRUE,
                            !.supplyCap = 2])
IsolationPrices == (ColA :> {1, 4}) @@ (ColB :> {4}) @@ (DebtA :> {1})

-----------------------------------------------------------------------------
(* Efficiency mode and siloed borrowing: ColA and DebtA are in category 1, *)
(* where the thresholds are higher, DebtB is siloed and in category 2.     *)
EModeConfig ==
    (ColA  :> [Plain EXCEPT !.ltv = 3, !.liquidationThreshold = 4, !.liquidationBonus = 11,
                            !.supplyCap = 2, !.eModeCategory = 1]) @@
    (DebtA :> [Plain EXCEPT !.borrowingEnabled = TRUE, !.supplyCap = 2,
                            !.eModeCategory = 1]) @@
    (DebtB :> [Plain EXCEPT !.borrowingEnabled = TRUE, !.siloedBorrowing = TRUE,
                            !.supplyCap = 1, !.eModeCategory = 2])
EModeCategoriesPlain ==
    [c \in {1, 2} |-> [ltv |-> 8, liquidationThreshold |-> 9, liquidationBonus |-> 11,
                       priceSource |-> NoAsset]]
EModePrices == (ColA :> {3, 5}) @@ (DebtA :> {2}) @@ (DebtB :> {1})

-----------------------------------------------------------------------------
(* Bridge: a reserve that is collateral and debt in both modes at once,    *)
(* with unbacked mints, a reserve factor and a liquidation fee.            *)
BridgeConfig ==
    ColA :> [Plain EXCEPT !.ltv = 5, !.liquidationThreshold = 6, !.liquidationBonus = 12,
                          !.borrowingEnabled = TRUE, !.stableBorrowingEnabled = TRUE,
                          !.supplyCap = 2, !.borrowCap = 2,
                          !.unbackedMintCap = 1, !.reserveFactor = 5,
                          !.liquidationProtocolFee = 5]
BridgePrices == ColA :> {1}

-----------------------------------------------------------------------------
(* Efficiency mode whose category prices its assets with a source of its   *)
(* own; the collateral is outside of the category.                         *)
PricedEModeConfig ==
    (ColA  :> [Plain EXCEPT !.ltv = 8, !.liquidationThreshold = 9, !.liquidationBonus = 11,
                            !.supplyCap = 1]) @@
    (DebtA :> [Plain EXCEPT !.borrowingEnabled = TRUE, !.supplyCap = 2, !.eModeCategory = 1])
PricedEModeCategories ==
    1 :> [ltv |-> 8, liquidationThreshold |-> 9, liquidationBonus |-> 11,
          priceSource |-> Feed]
PricedEModePrices == (ColA :> {4}) @@ (DebtA :> {2}) @@ (Feed :> {5})

-----------------------------------------------------------------------------
(* All the modes at once.  ColA is isolated with room for one unit of debt *)
(* and, with DebtA, in category 1; ColB is ordinary collateral with a      *)
(* liquidation fee, in category 2; DebtA is borrowable in isolation,       *)
(* siloed, a dusty collateral of a low threshold, and its price rises.     *)
ModesConfig ==
    (ColA  :> [Plain EXCEPT !.ltv = 3, !.liquidationThreshold = 4, !.liquidationBonus = 11,
                            !.borrowingEnabled = TRUE, !.debtCeiling = 1, !.supplyCap = 1,
                            !.eModeCategory = 1]) @@
    (ColB  :> [Plain EXCEPT !.ltv = 7, !.liquidationThreshold = 7, !.liquidationBonus = 11,
                            !.liquidationProtocolFee = 5, !.supplyCap = 1,
                            !.eModeCategory = 2]) @@
    (DebtA :> [Plain EXCEPT !.ltv = 1, !.liquidationThreshold = 2, !.liquidationBonus = 12,
                            !.borrowingEnabled = TRUE, !.borrowableInIsolation = TRUE,
                            !.siloedBorrowing = TRUE, !.supplyCap = 2, !.eModeCategory = 1])
ModesPrices == (ColA :> {8}) @@ (ColB :> {16}) @@ (DebtA :> {3, 7})
=============================================================================
