----------------------------- MODULE FlashLoan -----------------------------
(***************************************************************************)
(* FlashLoanLogic.sol composed with the pool.  A flash loan pays out its   *)
(* legs, calls the receiver, and then settles the legs one by one, each    *)
(* repaid with a premium or turned into a debt.  The receiver may call the *)
(* pool again, flash loans included, so the open loans form a stack, and   *)
(* between opening and settling any call of the pool may happen.           *)
(*                                                                         *)
(* All of it is one transaction: neither time nor the oracle moves while a *)
(* loan is open, and a loan that cannot be settled reverts to the state    *)
(* before it was opened.  States with open loans are those the receiver's  *)
(* calls see; states without, those that are left behind.                  *)
(*                                                                         *)
(* Left out: the value executeOperation returns, the allowance onBehalfOf  *)
(* gave the initiator, and handleRepayment, which does nothing.            *)
(***************************************************************************)
EXTENDS Pool, Sequences

CONSTANTS
    FlashLoanPremiumTotal,      \* _flashLoanPremiumTotal
    FlashLoanPremiumToProtocol, \* _flashLoanPremiumToProtocol
    LegLists,                   \* the legs a flash loan is asked for
    MaxDepth                    \* bound: flash loans open at once

NONE == "none"

Leg == [asset : Reserves, amount : Nat, mode : InterestRateModes \cup {NONE}]

ASSUME FlashLoanAssumption ==
    /\ FlashLoanPremiumTotal \in 0..PERCENTAGE_FACTOR
    /\ FlashLoanPremiumToProtocol \in 0..PERCENTAGE_FACTOR
    /\ LegLists \subseteq Seq(Leg) \ {<<>>}
    /\ MaxDepth \in Nat

VARIABLE
    loans   \* the open flash loans, the innermost last

flashVars == <<vars, loans>>

(* The borrower's category and the premium are read when the loan opens;   *)
(* "next" is 0 until the receiver returns, then the leg to settle next.    *)
Loan == [onBehalfOf : Users, legs : LegLists, eMode : Categories \cup {NoCategory},
         premiumTotal : Nat, next : Nat]

FlashInit == Init /\ loans = <<>>

-----------------------------------------------------------------------------
Innermost == loans[Len(loans)]

(* A call enters from outside, or from the receiver of the innermost loan. *)
PoolIsCallable == loans # <<>> => Innermost.next = 0

(* What the legs draw on a reserve, all of them or from the first given.   *)
LegDraws(leg) == [r \in Reserves |-> IF leg.asset = r THEN leg.amount ELSE 0]
LentFrom(legs, first, r) == Total([i \in first..Len(legs) |-> LegDraws(legs[i])], r)
Lent(legs, r) == LentFrom(legs, 1, r)

ValidateFlashloanSimple(r) == Operational(r) /\ config[r].flashLoanEnabled

(* Slip: each leg is compared with the liquidity on its own.               *)
AvailableLegByLeg(legs) == \A i \in DOMAIN legs : legs[i].amount <= liquidity[legs[i].asset]
(* The legs are paid out one after the other.                              *)
Available(legs) == \A r \in Reserves : Lent(legs, r) \in 0..liquidity[r]

(* flashLoan; flashLoanSimple is a single leg of mode NONE, never exempt.  *)
OpenFlashLoan(onBehalfOf, legs, authorized) ==
    /\ PoolIsCallable
    /\ Len(loans) < MaxDepth
    /\ \A i \in DOMAIN legs : ValidateFlashloanSimple(legs[i].asset)
    /\ Available(legs)
    /\ liquidity' = [r \in Reserves |-> liquidity[r] - Lent(legs, r)]
    /\ loans' = Append(loans,
           [onBehalfOf |-> onBehalfOf, legs |-> legs, eMode |-> eModeCategory[onBehalfOf],
            premiumTotal |-> IF authorized THEN 0 ELSE FlashLoanPremiumTotal, next |-> 0])
    /\ UNCHANGED <<governance, indices, accruedToTreasury, unbacked,
                   isolationModeTotalDebt, aToken, debtTokens, userFlags,
                   eModeCategory, market>>

(* executeOperation returns.                                               *)
ReceiverReturns ==
    /\ loans # <<>> /\ Innermost.next = 0
    /\ loans' = [loans EXCEPT ![Len(loans)].next = 1]
    /\ UNCHANGED vars

(* Slip: the protocol's part is not taken off.                             *)
SuppliersShareWhole(premium) == premium
(* What is left of the premium for the suppliers.                          *)
SuppliersShare(premium) == premium - percentMul(premium, FlashLoanPremiumToProtocol)

(* _handleFlashLoanRepayment.  For an authorized borrower the protocol's   *)
(* share is zero because the premium is.                                   *)
RepayLeg(leg, premiumTotal) ==
    LET r       == leg.asset
        premium == percentMul(leg.amount, premiumTotal)
        premiumToProtocol == percentMul(premium, FlashLoanPremiumToProtocol)
        index   == CumulatedLiquidityIndex(r, TotalLiquidity(r), SuppliersShare(premium))
    IN  /\ premiumToProtocol <= premium
        /\ TotalLiquidity(r) # 0
        /\ index <= MaxIndex
        /\ liquidityIndex' = [liquidityIndex EXCEPT ![r] = index]
        /\ AccrueToTreasury(r, rayDiv(premiumToProtocol, index))
        /\ PayIn(r, leg.amount + premium)
        /\ UNCHANGED <<governance, variableBorrowIndex, unbacked, isolationModeTotalDebt,
                       aToken, debtTokens, userFlags, eModeCategory, market>>

(* Slip: the debt is opened as by a call to borrow.                        *)
OweLegReleasing(loan, leg) ==
    ExecuteBorrow(loan.onBehalfOf, leg.asset, leg.amount, leg.mode, loan.eMode, TRUE)
(* Slip: the validation is left to the opening of the loan.                *)
OweLegUnchecked(loan, leg) ==
    /\ OpenDebt(loan.onBehalfOf, leg.asset, leg.amount, leg.mode)
    /\ UNCHANGED <<governance, indices, accruedToTreasury, unbacked, liquidity,
                   isolationModeTotalDebt, aToken, usingAsCollateral, eModeCategory, market>>
(* The debt is checked with the category read when the loan was opened;    *)
(* the underlying left the reserve then.                                   *)
OweLeg(loan, leg) ==
    ExecuteBorrow(loan.onBehalfOf, leg.asset, leg.amount, leg.mode, loan.eMode, FALSE)

SettleLeg ==
    /\ loans # <<>> /\ Innermost.next # 0
    /\ LET loan == Innermost
           leg  == loan.legs[loan.next]
       IN  /\ \/ leg.mode = NONE /\ RepayLeg(leg, loan.premiumTotal)
              \/ leg.mode # NONE /\ OweLeg(loan, leg)
           /\ loans' = IF loan.next = Len(loan.legs)
                       THEN SubSeq(loans, 1, Len(loans) - 1)
                       ELSE [loans EXCEPT ![Len(loans)].next = @ + 1]

FlashNext ==
    \/ \E u \in Users, legs \in LegLists, authorized \in BOOLEAN :
           OpenFlashLoan(u, legs, authorized)
    \/ ReceiverReturns
    \/ SettleLeg
    \/ PoolIsCallable /\ PoolCall /\ UNCHANGED loans
    \/ loans = <<>> /\ Environment /\ UNCHANGED loans

FlashSpec == FlashInit /\ [][FlashNext]_flashVars

-----------------------------------------------------------------------------
FlashTypeOK ==
    /\ TypeOK
    /\ loans \in Seq(Loan) /\ Len(loans) <= MaxDepth
    /\ \A i \in 1..Len(loans) : loans[i].next \in 0..Len(loans[i].legs)

(* What has been lent and is not settled.                                  *)
NextToSettle(loan) == IF loan.next = 0 THEN 1 ELSE loan.next
Unsettled(loan) == [r \in Reserves |-> LentFrom(loan.legs, NextToSettle(loan), r)]
Outstanding(r) == Total([i \in DOMAIN loans |-> Unsettled(loans[i])], r)

(* Nested in whatever way, and whatever the receivers do, every amount     *)
(* lent is either on its way back or owed: claims less holdings, debts and *)
(* what is still lent out grow by at most the rounding of one token in a   *)
(* step of a flash loan, the debt minted for a leg that is owed or the     *)
(* treasury's part of a premium, and of one call of the pool in any other  *)
(* (FlashLoanLogic.executeFlashLoan).                                      *)
FlashBacking(r) == Backing(r) + Outstanding(r) * RAY
HalfOfLarger(m, n) == (IF m > n THEN m ELSE n) \div 2
FlashSlack(r) ==
    IF loans' # loans THEN HalfOfLarger(liquidityIndex[r], variableBorrowIndex[r])
                      ELSE RoundingSlack(r)
LoansAreSettled ==
    [][\A r \in Reserves :
          liquidityIndex'[r] = liquidityIndex[r]
          /\ variableBorrowIndex'[r] = variableBorrowIndex[r]
          => Claims(r)' - FlashBacking(r)' <= Claims(r) - FlashBacking(r) + FlashSlack(r)]_flashVars

(* The premium of a flash loan pays for the income it gives to suppliers   *)
(* and treasury, whatever the receiver did to the supply in between        *)
(* (FlashLoanLogic._handleFlashLoanRepayment).                             *)
PremiumPaid(r) == (liquidity'[r] - liquidity[r]) - (Outstanding(r) - Outstanding(r)')
PremiumsPayForIncome ==
    [][\A r \in Reserves :
          Outstanding(r)' < Outstanding(r) /\ liquidityIndex'[r] # liquidityIndex[r]
          => Claims(r)' - FlashBacking(r)' <=
                 Claims(r) - FlashBacking(r) + FeeSlack(r, PremiumPaid(r))]_flashVars

(* No receiver takes a position out of health: neither its own calls       *)
(* between the opening and the settlement of any number of loans do, nor   *)
(* a leg that becomes a debt, nor the premium of one that is repaid        *)
(* (HealthyStaysHealthy in Pool).  The debt is checked in the category     *)
(* read when the loan was opened (FlashLoanLogic:153), so for a borrower   *)
(* who has changed it since, the check says nothing about the position.    *)
OwesInOtherCategory(u) ==
    /\ loans # <<>> /\ Innermost.next # 0
    /\ Innermost.legs[Innermost.next].mode # NONE
    /\ Innermost.onBehalfOf = u /\ Innermost.eMode # eModeCategory[u]
HealthyThroughFlashLoans ==
    [][\/ \A u \in Users :
              Healthy(u) /\ ~EntersUnchecked(u) /\ ~OwesInOtherCategory(u)
              => Healthy(u)' \/ CoveredUpToRounding(u)
       \/ Environment]_vars

(* What a comment of the code says and the code does not do: "when in      *)
(* eMode, debt will always be in the same eMode category"                  *)
(* (LiquidationLogic.sol:424).  A receiver that changes the borrower's     *)
(* category while the loan is open leaves a debt of the category before.   *)
EModeDebtAfterFlashLoans == loans = <<>> => EModeDebt
=============================================================================
