---------------------------- MODULE MCFlashLoan ----------------------------
(***************************************************************************)
(* Small instances of the pool with flash loans.  The reserves'            *)
(* configurations are those of MCPool or as below.                         *)
(***************************************************************************)
EXTENDS FlashLoan, TLC

CONSTANTS alice, bob, treasury, bridge, ColA, ColB, DebtA, DebtB, noAsset

Plain ==
    [ltv |-> 8, liquidationThreshold |-> 9, liquidationBonus |-> 11,
     unit |-> 1, ceilingUnit |-> 1,
     active |-> TRUE, frozen |-> FALSE, paused |-> FALSE,
     borrowingEnabled |-> TRUE, stableBorrowingEnabled |-> FALSE,
     borrowableInIsolation |-> FALSE, siloedBorrowing |-> FALSE,
     flashLoanEnabled |-> TRUE,
     reserveFactor |-> 0, supplyCap |-> 3, borrowCap |-> 0,
     unbackedMintCap |-> 0, debtCeiling |-> 0,
     liquidationProtocolFee |-> 0, eModeCategory |-> NoCategory]

UserSymmetry == Permutations(Users)
NoCategories == [c \in Categories |-> <<>>]

Borrowed(r, x, m) == [asset |-> r, amount |-> x, mode |-> m]

(* Fees: one isolated reserve, repaid or owed in either mode, nested once. *)
FeesConfig == ColA :> [Plain EXCEPT !.stableBorrowingEnabled = TRUE, !.supplyCap = 2,
                                    !.debtCeiling = 1, !.borrowableInIsolation = TRUE]
FeesPrices == ColA :> {1}
FeesLegs == {<<Borrowed(ColA, 2, NONE)>>, <<Borrowed(ColA, 1, STABLE)>>,
             <<Borrowed(ColA, 1, NONE), Borrowed(ColA, 1, VARIABLE_)>>}

-----------------------------------------------------------------------------
(* EMode: an asset of category 1, and a category 2 without assets.         *)
EModeConfig ==
    (ColA  :> [Plain EXCEPT !.borrowingEnabled = FALSE, !.supplyCap = 1]) @@
    (DebtA :> [Plain EXCEPT !.ltv = 0, !.liquidationThreshold = 0, !.supplyCap = 1,
                            !.eModeCategory = 1])
EModePrices == (ColA :> {4}) @@ (DebtA :> {1})
EModeCategoriesPlain ==
    [c \in {1, 2} |-> [ltv |-> 8, liquidationThreshold |-> 9, liquidationBonus |-> 11,
                       priceSource |-> NoAsset]]
EModeLegs == {<<Borrowed(DebtA, 1, VARIABLE_)>>}
=============================================================================
