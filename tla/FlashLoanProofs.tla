-------------------------- MODULE FlashLoanProofs --------------------------
(***************************************************************************)
(* Theorems about FlashLoan.tla: what PoolProofs shows of the pool stays   *)
(* true with flash loans in progress, and what is lent is on its way back  *)
(* or owed, for every list of legs, every premium and every depth of       *)
(* nesting.                                                                *)
(***************************************************************************)
EXTENDS FlashLoan, AccountingProofs, SequenceTheorems

-----------------------------------------------------------------------------
(* What a step of a flash loan is to the pool.                             *)

LEMMA LegFacts ==
    ASSUME NEW legs \in LegLists
    PROVE  /\ Len(legs) \in Nat \ {0}
           /\ \A i \in 1..Len(legs) : legs[i] \in Leg
<1>1. legs \in Seq(Leg) /\ legs # <<>>
  BY FlashLoanAssumption
<1> QED
  BY <1>1, EmptySeq, LenProperties, ElementOfSeq

LEMMA InnermostFacts ==
    ASSUME FlashTypeOK, loans # <<>>
    PROVE  /\ Len(loans) \in Nat \ {0}
           /\ Innermost \in Loan
           /\ Innermost.next \in 0..Len(Innermost.legs)
<1>1. loans \in Seq(Loan)
  BY DEF FlashTypeOK
<1>2. Len(loans) \in Nat \ {0}
  BY <1>1, EmptySeq, LenProperties
<1>3. Len(loans) \in 1..Len(loans)
  BY <1>2
<1> QED
  BY <1>1, <1>2, <1>3, ElementOfSeq DEF FlashTypeOK, Innermost

(* The leg to settle, when there is one.                                   *)
LEMMA LegToSettle ==
    ASSUME FlashTypeOK, loans # <<>>, Innermost.next # 0
    PROVE  Innermost.legs[Innermost.next] \in Leg
<1>1. Innermost.legs \in LegLists /\ Innermost.next \in 0..Len(Innermost.legs)
  BY InnermostFacts DEF Loan
<1>2. Len(Innermost.legs) \in Nat
  BY <1>1, LegFacts
<1>3. Innermost.next \in 1..Len(Innermost.legs)
  BY <1>1, <1>2
<1> QED
  BY <1>1, <1>3, LegFacts

(* A step is one of the pool, the opening of a loan, a leg repaid or a leg *)
(* owed.                                                                   *)
LEMMA FlashSteps ==
    ASSUME FlashTypeOK, [FlashNext]_flashVars
    PROVE  \/ [Next]_vars
           \/ \E u \in Users, legs \in LegLists, authorized \in BOOLEAN :
                 OpenFlashLoan(u, legs, authorized)
           \/ \E leg \in Leg, premiumTotal \in Nat : RepayLeg(leg, premiumTotal)
           \/ \E loan \in Loan, leg \in Leg : leg.mode # NONE /\ OweLeg(loan, leg)
<1>1. CASE UNCHANGED flashVars
  BY <1>1 DEF flashVars
<1>2. CASE ReceiverReturns
  BY <1>2 DEF ReceiverReturns
<1>3. CASE SettleLeg
  <2>1. Innermost \in Loan /\ Innermost.premiumTotal \in Nat
    BY <1>3, InnermostFacts DEF SettleLeg, Loan
  <2>2. Innermost.legs[Innermost.next] \in Leg
    BY <1>3, LegToSettle DEF SettleLeg
  <2> QED
    BY <1>3, <2>1, <2>2 DEF SettleLeg
<1>4. CASE PoolCall \/ Environment
  BY <1>4 DEF Next
<1>5. CASE \E u \in Users, legs \in LegLists, authorized \in BOOLEAN :
               OpenFlashLoan(u, legs, authorized)
  BY <1>5
<1> QED
  BY <1>1, <1>2, <1>3, <1>4, <1>5 DEF FlashNext

-----------------------------------------------------------------------------
(* Types.                                                                  *)

LEMMA OpenFlashLoanType ==
    ASSUME TypeOK, NEW u \in Users, NEW legs \in LegLists, NEW authorized \in BOOLEAN,
           OpenFlashLoan(u, legs, authorized)
    PROVE  TypeOK'
<1>1. liquidity' \in [Reserves -> Nat]
  <2>1. \A r \in Reserves : Lent(legs, r) \in 0..liquidity[r] /\ liquidity[r] \in Nat
    BY DEF OpenFlashLoan, Available, TypeOK
  <2>2. liquidity' = [r \in Reserves |-> liquidity[r] - Lent(legs, r)]
    BY DEF OpenFlashLoan
  <2> QED
    BY <2>1, <2>2
<1> QED
  BY <1>1 DEF TypeOK, OpenFlashLoan, governance, indices, aToken, debtTokens, userFlags, market

LEMMA RepayLegType ==
    ASSUME TypeOK, NEW leg \in Leg, NEW premiumTotal \in Nat, RepayLeg(leg, premiumTotal)
    PROVE  TypeOK'
<1> DEFINE r == leg.asset
           premium == percentMul(leg.amount, premiumTotal)
           toProtocol == percentMul(premium, FlashLoanPremiumToProtocol)
           share == premium - toProtocol
           index == CumulatedLiquidityIndex(r, TotalLiquidity(r), share)
<1>1. r \in Reserves /\ leg.amount \in Nat
  BY DEF Leg
<1>2. /\ toProtocol <= premium /\ TotalLiquidity(r) # 0 /\ index <= MaxIndex
      /\ liquidityIndex' = [liquidityIndex EXCEPT ![r] = index]
      /\ AccrueToTreasury(r, rayDiv(toProtocol, index))
      /\ PayIn(r, leg.amount + premium)
  BY DEF RepayLeg, SuppliersShare
<1>3. premium \in Nat
  BY <1>1, PercentMulNat
<1>4. toProtocol \in Nat
  <2>1. FlashLoanPremiumToProtocol \in Nat
    BY FlashLoanAssumption
  <2> HIDE DEF premium
  <2> QED
    BY <1>3, <2>1, PercentMulNat
<1>5. share \in Nat
  <2> HIDE DEF premium, toProtocol
  <2> QED
    BY <1>2, <1>3, <1>4
<1>6. index \in RAY..MaxIndex
  <2> HIDE DEF share, r
  <2> QED
    BY <1>1, <1>2, <1>5, CumulatedIndexType
<1> HIDE DEF index, share, toProtocol, premium, r
<1>7. accruedToTreasury' \in [Reserves -> Nat]
  <2>1. index \in Nat \ {0}
    BY <1>6, ScaleAssumption, PoolAssumption
  <2>2. rayDiv(toProtocol, index) \in Nat
    BY <1>4, <2>1, RayDivNat
  <2> QED
    BY <1>1, <1>2, <2>2, AccrueToTreasuryType
<1>8. liquidityIndex' \in [Reserves -> RAY..MaxIndex]
  BY <1>1, <1>2, <1>6 DEF TypeOK
<1>9. liquidity' \in [Reserves -> Nat]
  BY <1>1, <1>2, <1>3 DEF TypeOK, PayIn
<1> QED
  BY <1>7, <1>8, <1>9 DEF TypeOK, RepayLeg, governance, aToken, debtTokens, userFlags, market

LEMMA OweLegType ==
    ASSUME TypeOK, NEW loan \in Loan, NEW leg \in Leg, leg.mode # NONE, OweLeg(loan, leg)
    PROVE  TypeOK'
<1>1. /\ loan.onBehalfOf \in Users /\ leg.asset \in Reserves /\ leg.amount \in Nat
      /\ leg.mode \in InterestRateModes
  BY DEF Loan, Leg
<1> QED
  BY <1>1, ExecuteBorrowType DEF OweLeg

LEMMA FlashPoolType ==
    ASSUME FlashTypeOK, [FlashNext]_flashVars
    PROVE  TypeOK'
  BY FlashSteps, TypeStep, OpenFlashLoanType, RepayLegType, OweLegType DEF FlashTypeOK

(* The stack of open loans.                                                *)
LoansType(open) ==
    /\ open \in Seq(Loan) /\ Len(open) <= MaxDepth
    /\ \A i \in 1..Len(open) : open[i].next \in 0..Len(open[i].legs)

LEMMA LoansPushed ==
    ASSUME LoansType(loans), Len(loans) < MaxDepth, NEW loan \in Loan, loan.next = 0
    PROVE  LoansType(Append(loans, loan))
<1>1. loans \in Seq(Loan) /\ Len(loans) \in Nat /\ MaxDepth \in Nat
  BY FlashLoanAssumption, LenProperties DEF LoansType
<1>2. Append(loans, loan) \in Seq(Loan) /\ Len(Append(loans, loan)) = Len(loans) + 1
  BY <1>1, AppendProperties
<1>3. 0 \in 0..Len(loan.legs)
  BY LegFacts DEF Loan
<1>4. ASSUME NEW i \in 1..Len(loans) + 1
      PROVE  Append(loans, loan)[i].next \in 0..Len(Append(loans, loan)[i].legs)
  <2>1. CASE i = Len(loans) + 1
    <3>1. Append(loans, loan)[i] = loan
      BY <1>1, <2>1, AppendProperties
    <3> QED
      BY <1>3, <3>1
  <2>2. CASE i \in 1..Len(loans)
    <3>1. Append(loans, loan)[i] = loans[i]
      BY <1>1, <2>2, AppendProperties
    <3> QED
      BY <2>2, <3>1 DEF LoansType
  <2> QED
    BY <1>1, <2>1, <2>2
<1> QED
  BY <1>1, <1>2, <1>4 DEF LoansType

LEMMA ShorterByOne ==
    ASSUME NEW open \in Seq(Loan), open # <<>>
    PROVE  LET n == Len(open)
               rest == SubSeq(open, 1, n - 1)
           IN  /\ rest \in Seq(Loan) /\ Len(rest) = n - 1 /\ DOMAIN rest = (1..n) \ {n}
               /\ \A i \in (1..n) \ {n} : rest[i] = open[i]
<1>1. Len(open) \in Nat \ {0}
  BY LenProperties, EmptySeq
<1> DEFINE n == Len(open) - 1
<1>2. 1 \in Int /\ n \in Int /\ n >= 0 /\ 1..n = (1..Len(open)) \ {Len(open)}
  BY <1>1
<1>3. \A i \in 1..n : open[i] \in Loan
  BY <1>1, ElementOfSeq
<1> HIDE DEF n
<1>4. /\ SubSeq(open, 1, n) \in Seq(Loan)
      /\ Len(SubSeq(open, 1, n)) = IF 1 <= n THEN n - 1 + 1 ELSE 0
      /\ \A i \in 1..n - 1 + 1 : SubSeq(open, 1, n)[i] = open[1 + i - 1]
  BY <1>2, <1>3, SubSeqProperties
<1>5. n - 1 + 1 = n /\ \A i \in 1..n : 1 + i - 1 = i
  BY <1>2
<1>6. Len(SubSeq(open, 1, n)) = n /\ \A i \in 1..n : SubSeq(open, 1, n)[i] = open[i]
  BY <1>2, <1>4, <1>5
<1>7. DOMAIN SubSeq(open, 1, n) = 1..n
  BY <1>4, <1>6, LenProperties
<1> QED
  BY <1>2, <1>4, <1>6, <1>7 DEF n

LEMMA LoansPopped ==
    ASSUME LoansType(loans), loans # <<>>
    PROVE  LoansType(SubSeq(loans, 1, Len(loans) - 1))
<1>1. loans \in Seq(Loan) /\ Len(loans) \in Nat \ {0} /\ MaxDepth \in Nat
  BY FlashLoanAssumption, LenProperties, EmptySeq DEF LoansType
<1> DEFINE rest == SubSeq(loans, 1, Len(loans) - 1)
<1>2. /\ rest \in Seq(Loan) /\ Len(rest) = Len(loans) - 1
      /\ \A i \in 1..Len(loans) - 1 : rest[i] = loans[i]
  <2>1. 1..Len(loans) - 1 = (1..Len(loans)) \ {Len(loans)}
    BY <1>1
  <2> QED
    BY <1>1, <2>1, ShorterByOne
<1> HIDE DEF rest
<1>3. LoansType(rest)
  BY <1>1, <1>2 DEF LoansType
<1> QED
  BY <1>3 DEF rest

LEMMA LoansAdvanced ==
    ASSUME LoansType(loans), loans # <<>>, NEW n \in 0..Len(Innermost.legs)
    PROVE  LoansType([loans EXCEPT ![Len(loans)].next = n])
<1>1. loans \in Seq(Loan) /\ Len(loans) \in Nat \ {0}
  BY LenProperties, EmptySeq DEF LoansType
<1>2. Len(loans) \in 1..Len(loans)
  BY <1>1
<1>3. Innermost \in Loan /\ Innermost = loans[Len(loans)]
  BY <1>1, <1>2, ElementOfSeq DEF Innermost
<1> DEFINE loan == [Innermost EXCEPT !.next = n]
           open == [loans EXCEPT ![Len(loans)] = loan]
<1>4. loan \in Loan /\ loan.next = n /\ loan.legs = Innermost.legs
  <2>1. n \in Nat
    BY <1>3, LegFacts DEF Loan
  <2> QED
    BY <1>3, <2>1 DEF Loan
<1>5. open = [loans EXCEPT ![Len(loans)].next = n]
  BY <1>3
<1> HIDE DEF loan
<1>6. /\ open \in Seq(Loan) /\ Len(open) = Len(loans)
      /\ \A i \in 1..Len(loans) : open[i] = IF i = Len(loans) THEN loan ELSE loans[i]
  BY <1>1, <1>2, <1>4, ExceptSeq
<1> HIDE DEF open
<1>7. LoansType(open)
  BY <1>4, <1>6 DEF LoansType
<1> QED
  BY <1>5, <1>7

LEMMA FlashLoansType ==
    ASSUME FlashTypeOK, [FlashNext]_flashVars
    PROVE  LoansType(loans')
<1>1. LoansType(loans)
  BY DEF FlashTypeOK, LoansType
<1>2. CASE loans' = loans
  BY <1>1, <1>2
<1>3. ASSUME NEW u \in Users, NEW legs \in LegLists, NEW authorized \in BOOLEAN,
             OpenFlashLoan(u, legs, authorized)
      PROVE  LoansType(loans')
  <2> DEFINE loan == [onBehalfOf |-> u, legs |-> legs, eMode |-> eModeCategory[u],
                      premiumTotal |-> IF authorized THEN 0 ELSE FlashLoanPremiumTotal,
                      next |-> 0]
  <2>1. loan \in Loan /\ loan.next = 0
    <3>1. /\ eModeCategory[u] \in Categories \cup {NoCategory}
          /\ (IF authorized THEN 0 ELSE FlashLoanPremiumTotal) \in Nat
      BY FlashLoanAssumption DEF FlashTypeOK, TypeOK
    <3> QED
      BY <3>1 DEF Loan
  <2>2. Len(loans) < MaxDepth /\ loans' = Append(loans, loan)
    BY <1>3 DEF OpenFlashLoan
  <2> HIDE DEF loan
  <2> QED
    BY <1>1, <2>1, <2>2, LoansPushed
<1>4. CASE ReceiverReturns
  <2>1. loans # <<>> /\ loans' = [loans EXCEPT ![Len(loans)].next = 1]
    BY <1>4 DEF ReceiverReturns
  <2>2. Innermost.legs \in LegLists
    BY <2>1, InnermostFacts DEF Loan
  <2>3. 1 \in 0..Len(Innermost.legs)
    BY <2>2, LegFacts
  <2> QED
    BY <1>1, <2>1, <2>3, LoansAdvanced
<1>5. CASE SettleLeg
  <2>1. /\ loans # <<>>
        /\ loans' = IF Innermost.next = Len(Innermost.legs)
                    THEN SubSeq(loans, 1, Len(loans) - 1)
                    ELSE [loans EXCEPT ![Len(loans)].next = @ + 1]
    BY <1>5 DEF SettleLeg
  <2>2. CASE Innermost.next = Len(Innermost.legs)
    BY <1>1, <2>1, <2>2, LoansPopped
  <2>3. CASE Innermost.next # Len(Innermost.legs)
    <3>1. Innermost.legs \in LegLists /\ Innermost.next \in 0..Len(Innermost.legs)
      BY <2>1, InnermostFacts DEF Loan
    <3>2. Innermost.next + 1 \in 0..Len(Innermost.legs)
      BY <2>3, <3>1, LegFacts
    <3>3. loans' = [loans EXCEPT ![Len(loans)].next = Innermost.next + 1]
      BY <2>1, <2>3 DEF Innermost
    <3> QED
      BY <1>1, <2>1, <3>2, <3>3, LoansAdvanced
  <2> QED
    BY <2>2, <2>3
<1> QED
  BY <1>2, <1>3, <1>4, <1>5 DEF FlashNext, flashVars

(* Every variable of the pool keeps its type while loans are open, and a   *)
(* loan never settles a leg it does not have: no list of legs, however     *)
(* often it names a reserve, pays out more than the reserve holds.         *)
THEOREM FlashTypeCorrect == FlashSpec => []FlashTypeOK
<1>1. FlashInit => FlashTypeOK
  <2> SUFFICES ASSUME FlashInit PROVE FlashTypeOK
    OBVIOUS
  <2>1. TypeOK /\ loans = <<>>
    BY InitType DEF FlashInit
  <2>2. loans \in Seq(Loan) /\ Len(loans) = 0
    BY <2>1, EmptySeq
  <2> QED
    BY <2>1, <2>2, FlashLoanAssumption DEF FlashTypeOK
<1>2. FlashTypeOK /\ [FlashNext]_flashVars => FlashTypeOK'
  BY FlashPoolType, FlashLoansType DEF FlashTypeOK, LoansType
<1> QED
  BY <1>1, <1>2, PTL DEF FlashSpec

-----------------------------------------------------------------------------
(* What the legs leave alone.                                              *)

(* Opening a loan and repaying a leg touch no debt, no flag and no         *)
(* category.                                                               *)
LEMMA OpenFlashLoanFrame ==
    ASSUME NEW u, NEW legs, NEW authorized, OpenFlashLoan(u, legs, authorized)
    PROVE  UNCHANGED <<governance, isolationModeTotalDebt, debtTokens, userFlags, eModeCategory>>
  BY DEF OpenFlashLoan

LEMMA RepayLegFrame ==
    ASSUME NEW leg, NEW premiumTotal, RepayLeg(leg, premiumTotal)
    PROVE  UNCHANGED <<governance, isolationModeTotalDebt, debtTokens, userFlags, eModeCategory>>
  BY DEF RepayLeg

(* Whoever is left with a debt by a flash loan has its borrowing flag set. *)
THEOREM FlashDebtsFlagged == FlashSpec => []DebtFlagged
<1>1. FlashInit => DebtFlagged
  BY DEF FlashInit, Init, DebtFlagged, Owes
<1>2. FlashTypeOK /\ DebtFlagged /\ [FlashNext]_flashVars => DebtFlagged'
  <2> SUFFICES ASSUME FlashTypeOK, DebtFlagged, [FlashNext]_flashVars PROVE DebtFlagged'
    OBVIOUS
  <2>1. ASSUME UNCHANGED <<debtTokens, userFlags>> PROVE DebtFlagged'
    BY <2>1 DEF DebtFlagged, Owes, debtTokens, userFlags
  <2>2. ASSUME NEW loan \in Loan, NEW leg \in Leg, OweLeg(loan, leg) PROVE DebtFlagged'
    BY <2>2, OpenDebtFlagged DEF OweLeg, ExecuteBorrow, Loan, Leg, FlashTypeOK
  <2>3. TypeOK
    BY DEF FlashTypeOK
  <2> QED
    BY <2>1, <2>2, <2>3, FlashSteps, FlagStep, OpenFlashLoanFrame, RepayLegFrame
<1> QED
  BY <1>1, <1>2, FlashTypeCorrect, PTL DEF FlashSpec

(* No receiver, by opening positions in the middle of a loan, combines     *)
(* isolated collateral with other collateral.                              *)
THEOREM FlashIsolationIsExclusive == FlashSpec => []IsolationExclusive
<1>1. FlashInit => IsolationExclusive
  BY DEF FlashInit, Init, IsolationExclusive
<1>2. FlashTypeOK /\ IsolationExclusive /\ [FlashNext]_flashVars => IsolationExclusive'
  <2> SUFFICES ASSUME FlashTypeOK, IsolationExclusive, [FlashNext]_flashVars
               PROVE  IsolationExclusive'
    OBVIOUS
  <2>1. ASSUME UNCHANGED <<governance, usingAsCollateral>> PROVE IsolationExclusive'
    BY <2>1 DEF IsolationExclusive, governance
  <2>2. ASSUME NEW loan \in Loan, NEW leg \in Leg, OweLeg(loan, leg)
        PROVE  IsolationExclusive'
    BY <2>1, <2>2 DEF OweLeg, ExecuteBorrow
  <2>3. TypeOK
    BY DEF FlashTypeOK
  <2>4. ASSUME UNCHANGED <<governance, userFlags>> PROVE IsolationExclusive'
    BY <2>1, <2>4 DEF userFlags
  <2> QED
    BY <2>2, <2>3, <2>4, FlashSteps, IsolationStep, OpenFlashLoanFrame, RepayLegFrame
<1> QED
  BY <1>1, <1>2, FlashTypeCorrect, PTL DEF FlashSpec

(* A leg that is turned into a debt is checked against the borrows its     *)
(* receiver made in the meantime: a siloed asset stays alone.              *)
THEOREM FlashSiloedIsExclusive == FlashSpec => []SiloedExclusive
<1>1. FlashInit => SiloedExclusive
  BY DEF FlashInit, Init, SiloedExclusive
<1>2. FlashTypeOK /\ SiloedExclusive /\ [FlashNext]_flashVars => SiloedExclusive'
  <2> SUFFICES ASSUME FlashTypeOK, SiloedExclusive, [FlashNext]_flashVars
               PROVE  SiloedExclusive'
    OBVIOUS
  <2>1. TypeOK
    BY DEF FlashTypeOK
  <2>2. ASSUME UNCHANGED <<governance, userFlags>> PROVE SiloedExclusive'
    BY <2>2 DEF SiloedExclusive, governance, userFlags
  <2>3. ASSUME NEW loan \in Loan, NEW leg \in Leg, OweLeg(loan, leg)
        PROVE  SiloedExclusive'
    <3> DEFINE u == loan.onBehalfOf
               r == leg.asset
    <3>1. u \in Users /\ r \in Reserves
      BY DEF Loan, Leg
    <3>2. /\ ValidateSiloedBorrow(u, r)
          /\ OpenDebt(u, r, leg.amount, leg.mode)
          /\ config' = config
      BY <2>3 DEF OweLeg, ExecuteBorrow, ValidateBorrow, governance
    <3> HIDE DEF u, r
    <3>3. borrowing' = borrowing \/ borrowing' = [borrowing EXCEPT ![u] = @ \cup {r}]
      BY <3>2 DEF OpenDebt
    <3>4. CASE borrowing' = borrowing
      BY <3>2, <3>4 DEF SiloedExclusive
    <3>5. CASE borrowing' = [borrowing EXCEPT ![u] = @ \cup {r}]
      BY <2>1, <3>1, <3>2, <3>5, SiloedWith
    <3> QED
      BY <3>3, <3>4, <3>5
  <2> QED
    BY <2>1, <2>2, <2>3, FlashSteps, SiloedStep, OpenFlashLoanFrame, RepayLegFrame
<1> QED
  BY <1>1, <1>2, FlashTypeCorrect, PTL DEF FlashSpec

(* The legs of a flash loan that become debts are counted against the      *)
(* ceiling one after the other, so that together they cannot pass it.      *)
THEOREM FlashCeilingsHold == FlashSpec => []DebtWithinCeiling
<1>1. FlashInit => DebtWithinCeiling
  BY StorageAssumption DEF FlashInit, Init, DebtWithinCeiling, ReserveConfiguration
<1>2. FlashTypeOK /\ DebtWithinCeiling /\ [FlashNext]_flashVars => DebtWithinCeiling'
  <2> SUFFICES ASSUME FlashTypeOK, DebtWithinCeiling, [FlashNext]_flashVars
               PROVE  DebtWithinCeiling'
    OBVIOUS
  <2>1. TypeOK
    BY DEF FlashTypeOK
  <2>2. ASSUME UNCHANGED <<governance, isolationModeTotalDebt>> PROVE DebtWithinCeiling'
    BY <2>2 DEF DebtWithinCeiling, governance
  <2>3. ASSUME NEW loan, NEW leg, OweLeg(loan, leg) PROVE DebtWithinCeiling'
    BY <2>3, CeilingAfterBorrow DEF OweLeg
  <2> QED
    BY <2>1, <2>2, <2>3, FlashSteps, CeilingStep, OpenFlashLoanFrame, RepayLegFrame
<1> QED
  BY <1>1, <1>2, FlashTypeCorrect, PTL DEF FlashSpec
-----------------------------------------------------------------------------
(* What is lent out.  A sum without one of its holders falls short of the  *)
(* sum by what that holder has.                                            *)
Balances(S, b) == IsFiniteSet(S) /\ b \in [S -> [Reserves -> Nat]]
Peeled(S, b, c, a, r) == DOMAIN c = S \ {a} /\ \A d \in S \ {a} : c[d][r] = b[d][r]

LEMMA BalancesNat ==
    ASSUME NEW S, NEW b, Balances(S, b), NEW r \in Reserves
    PROVE  Total(b, r) \in Nat
  BY TotalNat DEF Balances

LEMMA TotalPeeled ==
    ASSUME NEW S, NEW b, NEW c, NEW a \in S, NEW r \in Reserves,
           Balances(S, b), Peeled(S, b, c, a, r)
    PROVE  Total(b, r) = Total(c, r) + b[a][r]
<1> USE DEF Balances, Peeled
<1>1. Units(b, r, S \ {a}) = Units(c, r, S \ {a})
  BY UnitsSame
<1>2. Total(c, r) = Cardinality(Units(c, r, S \ {a}))
  BY DEF Total, Units
<1> QED
  BY <1>1, <1>2, UnitsSplit

ChangedAt(S, b, c, a, r) ==
    Balances(S, b) /\ Balances(S, c) /\ a \in S /\ \A d \in S \ {a} : c[d][r] = b[d][r]

LEMMA TotalChanged ==
    ASSUME NEW S, NEW b, NEW c, NEW a, NEW r \in Reserves, ChangedAt(S, b, c, a, r)
    PROVE  Total(c, r) = Total(b, r) + c[a][r] - b[a][r]
  BY TotalMoves DEF Balances, ChangedAt

LEMMA LegDrawsType ==
    ASSUME NEW leg \in Leg
    PROVE  LegDraws(leg) \in [Reserves -> Nat]
  BY DEF Leg, LegDraws

(* The draws of the legs from the first given on.                          *)
DrawsFrom(legs, first) == [i \in first..Len(legs) |-> LegDraws(legs[i])]

LEMMA DrawsType ==
    ASSUME NEW legs \in LegLists, NEW first \in Nat \ {0}
    PROVE  Balances(first..Len(legs), DrawsFrom(legs, first))
<1>1. Len(legs) \in Int /\ first \in Int
  BY LegFacts
<1>2. IsFiniteSet(first..Len(legs))
  BY <1>1, FS_Interval
<1>3. \A i \in first..Len(legs) : legs[i] \in Leg
  BY <1>1, LegFacts
<1> QED
  BY <1>2, <1>3, LegDrawsType DEF DrawsFrom, Balances

LEMMA LentNat ==
    ASSUME NEW legs \in LegLists, NEW first \in Nat \ {0}, NEW r \in Reserves
    PROVE  LentFrom(legs, first, r) \in Nat
<1>1. LentFrom(legs, first, r) = Total(DrawsFrom(legs, first), r)
  BY DEF LentFrom, DrawsFrom
<1> QED
  BY <1>1, DrawsType, BalancesNat

(* Settling a leg takes its amount off what its asset lent, and the last   *)
(* leg leaves nothing.                                                     *)
LEMMA LentSplit ==
    ASSUME NEW legs \in LegLists, NEW n \in 1..Len(legs), NEW r \in Reserves
    PROVE  /\ LentFrom(legs, n, r) = LentFrom(legs, n + 1, r) + LegDraws(legs[n])[r]
           /\ n = Len(legs) => LentFrom(legs, n + 1, r) = 0
<1>1. Len(legs) \in Nat \ {0} /\ n \in Nat \ {0}
  BY LegFacts
<1> DEFINE S == n..Len(legs)
           b == DrawsFrom(legs, n)
           c == DrawsFrom(legs, n + 1)
<1>2. Balances(S, b)
  BY <1>1, DrawsType
<1>3. S \ {n} = (n + 1)..Len(legs) /\ n \in S
  BY <1>1
<1>4. DOMAIN c = S \ {n} /\ (\A d \in S \ {n} : c[d][r] = b[d][r]) /\ b[n] = LegDraws(legs[n])
  BY <1>3 DEF DrawsFrom
<1>5. LentFrom(legs, n, r) = Total(b, r) /\ LentFrom(legs, n + 1, r) = Total(c, r)
  BY DEF LentFrom, DrawsFrom
<1>6. n = Len(legs) => Total(c, r) = 0
  <2>1. ASSUME n = Len(legs) PROVE S \ {n} = {}
    BY <1>1, <2>1
  <2> HIDE DEF S, c
  <2> QED
    BY <1>4, <2>1, TotalOfNothing
<1> HIDE DEF S, b, c
<1>7. Total(b, r) = Total(c, r) + b[n][r]
  <2>1. Peeled(S, b, c, n, r)
    BY <1>4 DEF Peeled
  <2> QED
    BY <1>2, <1>3, <2>1, TotalPeeled
<1> QED
  BY <1>4, <1>5, <1>6, <1>7

LEMMA UnsettledType ==
    ASSUME NEW loan \in Loan
    PROVE  Unsettled(loan) \in [Reserves -> Nat]
<1>1. loan.legs \in LegLists /\ NextToSettle(loan) \in Nat \ {0}
  BY DEF Loan, NextToSettle
<1> QED
  BY <1>1, LentNat DEF Unsettled

(* What each open loan has yet to settle.                                  *)
Parts(open) == [i \in DOMAIN open |-> Unsettled(open[i])]

LEMMA PartsType ==
    ASSUME NEW open \in Seq(Loan)
    PROVE  /\ Len(open) \in Nat /\ DOMAIN open = 1..Len(open)
           /\ Balances(1..Len(open), Parts(open))
<1>1. Len(open) \in Nat /\ DOMAIN open = 1..Len(open)
  BY LenProperties
<1>2. IsFiniteSet(1..Len(open))
  BY <1>1, FS_Interval
<1>3. \A i \in 1..Len(open) : open[i] \in Loan
  BY ElementOfSeq
<1> QED
  BY <1>1, <1>2, <1>3, UnsettledType DEF Parts, Balances

LEMMA OutstandingOf ==
    /\ \A r \in Reserves : Outstanding(r) = Total(Parts(loans), r)
    /\ \A r \in Reserves : Outstanding(r)' = Total(Parts(loans'), r)
  BY DEF Outstanding, Parts

LEMMA OutstandingNat ==
    ASSUME FlashTypeOK, NEW r \in Reserves
    PROVE  Outstanding(r) \in Nat
<1>1. loans \in Seq(Loan)
  BY DEF FlashTypeOK
<1> QED
  BY <1>1, PartsType, OutstandingOf, BalancesNat

LEMMA OpeningLends ==
    ASSUME FlashTypeOK, NEW u \in Users, NEW legs \in LegLists, NEW authorized \in BOOLEAN,
           OpenFlashLoan(u, legs, authorized), NEW r \in Reserves
    PROVE  Outstanding(r)' = Outstanding(r) + Lent(legs, r)
<1> DEFINE loan == [onBehalfOf |-> u, legs |-> legs, eMode |-> eModeCategory[u],
                    premiumTotal |-> IF authorized THEN 0 ELSE FlashLoanPremiumTotal,
                    next |-> 0]
           n == Len(loans) + 1
           S == 1..n
           b == Parts(loans')
           c == Parts(loans)
<1>1. loans \in Seq(Loan) /\ Len(loans) \in Nat /\ DOMAIN loans = 1..Len(loans)
  BY PartsType DEF FlashTypeOK
<1>2. loans' = Append(loans, loan)
  BY DEF OpenFlashLoan
<1>3. loan \in Loan
  <2>1. /\ eModeCategory[u] \in Categories \cup {NoCategory}
        /\ (IF authorized THEN 0 ELSE FlashLoanPremiumTotal) \in Nat
    BY FlashLoanAssumption DEF FlashTypeOK, TypeOK
  <2> QED
    BY <2>1 DEF Loan
<1>4. Unsettled(loan)[r] = Lent(legs, r)
  BY DEF Unsettled, NextToSettle, Lent
<1> HIDE DEF loan
<1>5. /\ loans' \in Seq(Loan) /\ Len(loans') = n
      /\ loans'[n] = loan /\ \A i \in 1..Len(loans) : loans'[i] = loans[i]
  BY <1>1, <1>2, <1>3, AppendProperties
<1>6. Balances(S, b) /\ DOMAIN loans' = S
  BY <1>5, PartsType
<1>7. n \in S /\ S \ {n} = 1..Len(loans)
  BY <1>1
<1>8. DOMAIN c = S \ {n} /\ (\A d \in S \ {n} : c[d][r] = b[d][r]) /\ b[n] = Unsettled(loan)
  BY <1>1, <1>5, <1>6, <1>7 DEF Parts
<1> HIDE DEF S, b, c, n
<1>9. Total(b, r) = Total(c, r) + b[n][r]
  <2>1. Peeled(S, b, c, n, r)
    BY <1>8 DEF Peeled
  <2> QED
    BY <1>6, <1>7, <2>1, TotalPeeled
<1> QED
  BY <1>4, <1>8, <1>9, OutstandingOf DEF b, c

LEMMA ReturningKeeps ==
    ASSUME FlashTypeOK, ReceiverReturns, NEW r \in Reserves
    PROVE  Outstanding(r)' = Outstanding(r)
<1>1. /\ loans \in Seq(Loan) /\ loans # <<>> /\ Innermost.next = 0
      /\ loans' = [loans EXCEPT ![Len(loans)].next = 1]
  BY DEF FlashTypeOK, ReceiverReturns
<1>2. \A i \in DOMAIN loans : Unsettled(loans'[i]) = Unsettled(loans[i])
  <2>1. DOMAIN loans = 1..Len(loans) /\ Len(loans) \in DOMAIN loans
    BY <1>1, PartsType, InnermostFacts
  <2>2. loans[Len(loans)] \in Loan /\ loans[Len(loans)].next = 0
    BY <1>1, InnermostFacts DEF Innermost
  <2>3. [loans[Len(loans)] EXCEPT !.next = 1].legs = loans[Len(loans)].legs
    OBVIOUS
  <2>4. ASSUME NEW i \in DOMAIN loans PROVE Unsettled(loans'[i]) = Unsettled(loans[i])
    <3>1. CASE i = Len(loans)
      <4>1. loans'[i] = [loans[Len(loans)] EXCEPT !.next = 1]
        BY <1>1, <2>1, <3>1
      <4>2. loans'[i].legs = loans[i].legs /\ loans'[i].next = 1
        BY <2>2, <2>3, <3>1, <4>1 DEF Loan
      <4> QED
        BY <2>2, <3>1, <4>2 DEF Unsettled, NextToSettle
    <3>2. CASE i # Len(loans)
      BY <1>1, <2>1, <3>2
    <3> QED
      BY <3>1, <3>2
  <2> QED
    BY <2>4
<1>3. DOMAIN loans' = DOMAIN loans
  BY <1>1
<1>4. Parts(loans') = Parts(loans)
  BY <1>2, <1>3 DEF Parts
<1> QED
  BY <1>4, OutstandingOf

LEMMA SettlingReturns ==
    ASSUME FlashTypeOK, SettleLeg, NEW r \in Reserves
    PROVE  Outstanding(r)' = Outstanding(r) - LegDraws(Innermost.legs[Innermost.next])[r]
<1> DEFINE n == Len(loans)
           loan == Innermost
           first == loan.next
           leg == loan.legs[first]
           b == Parts(loans)
           c == Parts(loans')
           S == 1..n
<1>1. /\ loans \in Seq(Loan) /\ loans # <<>> /\ loan.next # 0
      /\ loans' = IF first = Len(loan.legs) THEN SubSeq(loans, 1, n - 1)
                  ELSE [loans EXCEPT ![n].next = @ + 1]
  BY DEF FlashTypeOK, SettleLeg
<1>2. loan \in Loan /\ loan = loans[n] /\ loan.legs \in LegLists /\ n \in Nat \ {0}
  BY <1>1, InnermostFacts DEF Innermost, Loan
<1>3. first \in 1..Len(loan.legs)
  <2>1. first \in 0..Len(loan.legs) /\ Len(loan.legs) \in Nat
    BY <1>1, <1>2, InnermostFacts, LegFacts
  <2> QED
    BY <1>1, <2>1
<1>4. /\ LentFrom(loan.legs, first, r) = LentFrom(loan.legs, first + 1, r) + LegDraws(leg)[r]
      /\ first = Len(loan.legs) => LentFrom(loan.legs, first + 1, r) = 0
      /\ LentFrom(loan.legs, first + 1, r) \in Nat
      /\ LegDraws(leg)[r] \in Nat
  <2>1. first + 1 \in Nat \ {0} /\ leg \in Leg
    BY <1>2, <1>3, LegFacts
  <2>2. LegDraws(leg)[r] \in Nat
    BY <2>1, LegDrawsType
  <2> HIDE DEF loan, leg, first
  <2>3. LentFrom(loan.legs, first + 1, r) \in Nat
    BY <1>2, <2>1, LentNat
  <2> QED
    BY <1>2, <1>3, <2>2, <2>3, LentSplit DEF leg
<1>5. Unsettled(loan)[r] = LentFrom(loan.legs, first, r)
  BY <1>1 DEF Unsettled, NextToSettle
<1>6. /\ Balances(S, b) /\ DOMAIN loans = S /\ n \in S
      /\ b[n] = Unsettled(loan)
  BY <1>1, <1>2, PartsType DEF Parts
<1>7. CASE first = Len(loan.legs)
  <2>1. loans' = SubSeq(loans, 1, n - 1)
    BY <1>1, <1>7
  <2>2. DOMAIN loans' = S \ {n} /\ \A i \in S \ {n} : loans'[i] = loans[i]
    BY <1>1, <1>2, <2>1, ShorterByOne
  <2>3. Peeled(S, b, c, n, r)
    BY <1>6, <2>2 DEF Parts, Peeled
  <2> HIDE DEF S, b, c, n, loan, leg, first
  <2>4. Total(b, r) = Total(c, r) + b[n][r]
    BY <1>6, <2>3, TotalPeeled
  <2>5. b[n][r] = LegDraws(leg)[r]
    BY <1>4, <1>5, <1>6, <1>7
  <2>6. Outstanding(r) = Total(b, r) /\ Outstanding(r)' = Total(c, r) /\ Outstanding(r) \in Nat
    BY OutstandingOf, OutstandingNat DEF b, c
  <2>7. Outstanding(r)' \in Nat
    <3>1. LoansType(loans')
      BY <2>1, LoansPopped, <1>1 DEF n, FlashTypeOK, LoansType
    <3>2. loans' \in Seq(Loan)
      BY <3>1 DEF LoansType
    <3> QED
      BY <2>6, <3>2, PartsType, BalancesNat DEF c
  <2> QED
    BY <1>4, <2>4, <2>5, <2>6, <2>7 DEF leg, loan, first
<1>8. CASE first # Len(loan.legs)
  <2>1. /\ loans' = [loans EXCEPT ![n].next = @ + 1]
        /\ loans' = [loans EXCEPT ![n].next = first + 1]
    BY <1>1, <1>2, <1>8
  <2>2. first + 1 \in 0..Len(loan.legs) /\ first + 1 # 0
    BY <1>2, <1>3, <1>8, LegFacts
  <2>3. LoansType(loans')
    BY <1>1, <2>1, <2>2, LoansAdvanced DEF FlashTypeOK, LoansType
  <2>4. DOMAIN loans' = S /\ loans'[n] = [loan EXCEPT !.next = first + 1]
        /\ \A i \in S \ {n} : loans'[i] = loans[i]
    BY <1>1, <1>2, <1>6, <2>1
  <2>5. loans'[n].legs = loan.legs /\ loans'[n].next = first + 1
    BY <1>2, <2>4 DEF Loan
  <2>6. Unsettled(loans'[n])[r] = LentFrom(loan.legs, first + 1, r)
    BY <2>2, <2>5 DEF Unsettled, NextToSettle
  <2>7. Balances(S, c) /\ c[n] = Unsettled(loans'[n])
    <3>1. loans' \in Seq(Loan)
      BY <2>3 DEF LoansType
    <3>2. Balances(1..Len(loans'), c) /\ DOMAIN loans' = 1..Len(loans')
      BY <3>1, PartsType
    <3> QED
      BY <1>6, <2>4, <3>2 DEF Parts
  <2>8. ChangedAt(S, b, c, n, r)
    <3>1. \A d \in S \ {n} : c[d][r] = b[d][r]
      BY <1>6, <2>4 DEF Parts
    <3> HIDE DEF S, b, c, n
    <3> QED
      BY <1>6, <2>7, <3>1 DEF ChangedAt
  <2> HIDE DEF S, b, c, n, loan, leg, first
  <2>9. Total(c, r) = Total(b, r) + c[n][r] - b[n][r]
    BY <2>8, TotalChanged
  <2>10. Outstanding(r) = Total(b, r) /\ Outstanding(r)' = Total(c, r) /\ Outstanding(r) \in Nat
    BY OutstandingOf, OutstandingNat DEF b, c
  <2> QED
    BY <1>4, <1>5, <1>6, <2>6, <2>7, <2>9, <2>10 DEF leg, loan, first
<1> QED
  BY <1>7, <1>8
-----------------------------------------------------------------------------
(* The books with loans open.  A step is one of the pool, which leaves the *)
(* loans alone, or moves what is lent out with what it does to the pool.   *)
LegSettled(leg) ==
    \A r \in Reserves : Outstanding(r)' = Outstanding(r) - LegDraws(leg)[r]

LEMMA FlashBooks ==
    ASSUME FlashTypeOK, [FlashNext]_flashVars
    PROVE  \/ [Next]_vars /\ loans' = loans
           \/ UNCHANGED vars /\ \A r \in Reserves : Outstanding(r)' = Outstanding(r)
           \/ \E u \in Users, legs \in LegLists, authorized \in BOOLEAN :
                 /\ OpenFlashLoan(u, legs, authorized)
                 /\ \A r \in Reserves : Outstanding(r)' = Outstanding(r) + Lent(legs, r)
           \/ \E leg \in Leg, premiumTotal \in Nat :
                 RepayLeg(leg, premiumTotal) /\ LegSettled(leg)
           \/ \E loan \in Loan, leg \in Leg :
                 leg.mode # NONE /\ OweLeg(loan, leg) /\ LegSettled(leg)
<1>1. CASE UNCHANGED flashVars
  BY <1>1 DEF flashVars
<1>2. CASE ReceiverReturns
  BY <1>2, ReturningKeeps DEF ReceiverReturns
<1>3. CASE SettleLeg
  <2> DEFINE leg == Innermost.legs[Innermost.next]
             total == Innermost.premiumTotal
  <2>1. Innermost \in Loan /\ total \in Nat
    BY <1>3, InnermostFacts DEF SettleLeg, Loan
  <2>2. leg \in Leg
    BY <1>3, LegToSettle DEF SettleLeg
  <2>3. LegSettled(leg)
    BY <1>3, SettlingReturns DEF LegSettled
  <2>4. \/ RepayLeg(leg, total)
        \/ leg.mode # NONE /\ OweLeg(Innermost, leg)
    BY <1>3 DEF SettleLeg
  <2> HIDE DEF leg, total
  <2> QED
    BY <2>1, <2>2, <2>3, <2>4
<1>4. CASE (PoolCall \/ Environment) /\ UNCHANGED loans
  BY <1>4 DEF Next
<1>5. CASE \E u \in Users, legs \in LegLists, authorized \in BOOLEAN :
               OpenFlashLoan(u, legs, authorized)
  BY <1>5, OpeningLends
<1> QED
  BY <1>1, <1>2, <1>3, <1>4, <1>5 DEF FlashNext

(* Flash loans mint no aToken, and a debt for a leg that is owed is minted *)
(* to its holder and the supply alike.                                     *)
THEOREM FlashSuppliesAddUp == FlashSpec => []SuppliesAddUp
<1>1. FlashInit => SuppliesAddUp
  BY InitAddsUp, SuppliesParts DEF FlashInit
<1>2. FlashTypeOK /\ SuppliesAddUp /\ [FlashNext]_flashVars => SuppliesAddUp'
  <2> SUFFICES ASSUME FlashTypeOK, SuppliesAddUp, [FlashNext]_flashVars
               PROVE  ATokensAddUp' /\ VariableDebtsAddUp'
    BY DEF SuppliesAddUp, ATokensAddUp, VariableDebtsAddUp
  <2>1. TypeOK /\ ATokensAddUp /\ VariableDebtsAddUp
    BY SuppliesParts DEF FlashTypeOK
  <2>2. ASSUME UNCHANGED <<aToken, debtTokens>> PROVE ATokensAddUp' /\ VariableDebtsAddUp'
    BY <2>1, <2>2, SuppliesKept DEF debtTokens
  <2>3. ASSUME NEW u, NEW legs, NEW authorized, OpenFlashLoan(u, legs, authorized)
        PROVE  UNCHANGED <<aToken, debtTokens>>
    BY <2>3 DEF OpenFlashLoan
  <2>4. ASSUME NEW leg, NEW premiumTotal, RepayLeg(leg, premiumTotal)
        PROVE  UNCHANGED <<aToken, debtTokens>>
    BY <2>4 DEF RepayLeg
  <2>5. ASSUME NEW loan \in Loan, NEW leg \in Leg, OweLeg(loan, leg)
        PROVE  ATokensAddUp' /\ VariableDebtsAddUp'
    <3>1. loan.onBehalfOf \in Users /\ leg.asset \in Reserves /\ leg.amount \in Nat
      BY DEF Loan, Leg
    <3>2. UNCHANGED aToken
      BY <2>5 DEF OweLeg, ExecuteBorrow
    <3>3. \/ MintVariableDebt(loan.onBehalfOf, leg.asset, leg.amount)
          \/ UNCHANGED variableDebtToken
      BY <2>5 DEF OweLeg, ExecuteBorrow, OpenDebt
    <3> QED
      BY <2>1, <3>1, <3>2, <3>3, VariableDebtWrite, SuppliesKept DEF variableDebtToken
  <2> QED
    BY <2>1, <2>2, <2>3, <2>4, <2>5, FlashSteps, AddUpStep
<1> QED
  BY <1>1, <1>2, FlashTypeCorrect, PTL DEF FlashSpec

LEMMA FlashSlackCovers ==
    ASSUME TypeOK, NEW r \in Reserves
    PROVE  /\ FlashSlack(r) \in Nat /\ RoundingSlack(r) \in Nat
           /\ liquidityIndex[r] \div 2 \in Nat /\ liquidityIndex[r] \div 2 <= FlashSlack(r)
           /\ variableBorrowIndex[r] \div 2 \in Nat
           /\ variableBorrowIndex[r] \div 2 <= FlashSlack(r)
<1>1. liquidityIndex[r] \in Nat /\ variableBorrowIndex[r] \in Nat
  BY BooksNat
<1> QED
  BY <1>1 DEF FlashSlack, RoundingSlack, HalfOfLarger

(* Claims gain no more than their backing, what is lent out included.      *)
FlashBalanced(r) ==
    Claims(r)' - FlashBacking(r)' <= Claims(r) - FlashBacking(r) + FlashSlack(r)

LEMMA FlashFlows ==
    ASSUME FlashTypeOK, FlashTypeOK', NEW r \in Reserves,
           liquidityIndex'[r] = liquidityIndex[r],
           variableBorrowIndex'[r] = variableBorrowIndex[r],
           NetFlow(r) - (Outstanding(r)' - Outstanding(r)) * RAY <= FlashSlack(r)
    PROVE  FlashBalanced(r)
<1> DEFINE O == Outstanding(r)
           P == Outstanding(r)'
           C == Claims(r)
           D == Claims(r)'
           B == Backing(r)
           E == Backing(r)'
           f == NetFlow(r)
           s == FlashSlack(r)
<1>1. TypeOK /\ TypeOK'
  BY DEF FlashTypeOK
<1>2. O \in Nat /\ P \in Nat
  <2>1. loans' \in Seq(Loan)
    BY DEF FlashTypeOK
  <2> QED
    BY <2>1, OutstandingNat, OutstandingOf, PartsType, BalancesNat
<1>3. D - E = C - B + f /\ C - B \in Int
  BY <1>1, FlowsNet
<1>4. C \in Int /\ D \in Int
  BY <1>1, ClaimsInt
<1>5. B \in Int /\ E \in Int
  BY <1>1, BackingInt
<1>6. f \in Int /\ s \in Int /\ RAY \in Nat
  BY <1>1, FlowsInt, FlashSlackCovers, ScaleAssumption DEF NetFlow
<1>7. FlashBacking(r) = B + O * RAY /\ FlashBacking(r)' = E + P * RAY
  BY DEF FlashBacking
<1>8. f - (P - O) * RAY <= s
  OBVIOUS
<1> HIDE DEF O, P, C, D, B, E, f, s
<1>9. (P - O) * RAY = P * RAY - O * RAY /\ P * RAY \in Int /\ O * RAY \in Int
  BY <1>2, <1>6
<1> QED
  BY <1>3, <1>4, <1>5, <1>6, <1>7, <1>8, <1>9 DEF FlashBalanced, C, D, s

(* What leaves when a loan opens is what is lent out.                      *)
LEMMA OpeningBalances ==
    ASSUME FlashTypeOK, FlashTypeOK', NEW u \in Users, NEW legs \in LegLists,
           NEW authorized \in BOOLEAN, OpenFlashLoan(u, legs, authorized), NEW r \in Reserves
    PROVE  FlashBalanced(r)
<1> DEFINE x == Lent(legs, r)
<1>1. TypeOK /\ TypeOK' /\ RAY \in Nat
  BY ScaleAssumption DEF FlashTypeOK
<1>2. x \in Nat /\ Outstanding(r) \in Nat /\ Outstanding(r)' = Outstanding(r) + x
  BY OpeningLends, OutstandingNat, LentNat DEF Lent
<1>3. liquidity[r] \in Nat /\ liquidity'[r] = liquidity[r] - x
  BY <1>1, BooksNat DEF OpenFlashLoan
<1>4. /\ UNCHANGED <<aTokenSupply, accruedToTreasury, stableDebt, unbacked, indices>>
      /\ UNCHANGED variableDebtToken
  BY DEF OpenFlashLoan, aToken, debtTokens, variableDebtToken
<1>5. /\ ATokenFlow(r) = 0 /\ TreasuryFlow(r) = 0 /\ VariableFlow(r) = 0 /\ StableFlow(r) = 0
      /\ UnbackedFlow(r) = 0
  BY <1>1, <1>4, NoFlow
<1> HIDE DEF x
<1>6. (Outstanding(r)' - Outstanding(r)) * RAY = x * RAY /\ x * RAY \in Int
  BY <1>1, <1>2
<1>7. LiquidityFlow(r) = -(x * RAY)
  BY <1>1, <1>2, <1>3 DEF LiquidityFlow
<1>8. NetFlow(r) = x * RAY
  BY <1>5, <1>6, <1>7 DEF NetFlow
<1>9. FlashSlack(r) \in Nat
  BY <1>1, FlashSlackCovers
<1>10. NetFlow(r) - (Outstanding(r)' - Outstanding(r)) * RAY <= FlashSlack(r)
  BY <1>6, <1>8, <1>9
<1> QED
  BY <1>4, <1>10, FlashFlows DEF indices

(* While the index stands, a leg repaid pays for the protocol's part of    *)
(* its premium and leaves the rest of it unclaimed.                        *)
LEMMA RepaidBalances ==
    ASSUME FlashTypeOK, FlashTypeOK', NEW leg \in Leg, NEW premiumTotal \in Nat,
           RepayLeg(leg, premiumTotal), LegSettled(leg), NEW r \in Reserves,
           liquidityIndex'[r] = liquidityIndex[r],
           variableBorrowIndex'[r] = variableBorrowIndex[r]
    PROVE  FlashBalanced(r)
<1> DEFINE q == leg.asset
           x == leg.amount
           premium == percentMul(x, premiumTotal)
           part == percentMul(premium, FlashLoanPremiumToProtocol)
           index == CumulatedLiquidityIndex(q, TotalLiquidity(q), SuppliersShare(premium))
           drawn == LegDraws(leg)[r]
<1>1. TypeOK /\ TypeOK' /\ RAY \in Nat
  BY ScaleAssumption DEF FlashTypeOK
<1>2. q \in Reserves /\ x \in Nat
  BY DEF Leg
<1>3. premium \in Nat
  BY <1>2, PercentMulNat
<1>4. /\ part <= premium
      /\ liquidityIndex' = [liquidityIndex EXCEPT ![q] = index]
      /\ AccrueToTreasury(q, rayDiv(part, index))
      /\ PayIn(q, x + premium)
      /\ UNCHANGED <<unbacked, aToken, debtTokens>>
  BY DEF RepayLeg
<1>5. part \in Nat
  <2>1. FlashLoanPremiumToProtocol \in Nat
    BY FlashLoanAssumption
  <2> HIDE DEF premium
  <2> QED
    BY <1>3, <2>1, PercentMulNat
<1>6. drawn = (IF r = q THEN x ELSE 0) /\ Outstanding(r)' = Outstanding(r) - drawn
  BY DEF LegSettled, LegDraws
<1> HIDE DEF premium, part, index, drawn
<1>7. /\ ATokenFlow(r) = 0 /\ VariableFlow(r) = 0 /\ StableFlow(r) = 0
      /\ UnbackedFlow(r) = 0
  BY <1>1, <1>4, NoFlow DEF aToken, debtTokens, variableDebtToken
<1>8. LiquidityFlow(r) = IF r = q THEN (x + premium) * RAY ELSE 0
  BY <1>1, <1>2, <1>3, <1>4, LiquidityFlows
<1>9. Outstanding(r) \in Nat /\ FlashSlack(r) \in Nat
  BY <1>1, OutstandingNat, FlashSlackCovers
<1>10. CASE r # q
  <2>1. TreasuryFlow(r) = 0
    BY <1>1, <1>4, <1>10, BooksNat DEF AccrueToTreasury, TreasuryFlow, TypeOK
  <2>2. NetFlow(r) = 0 /\ (Outstanding(r)' - Outstanding(r)) * RAY = 0
    BY <1>1, <1>6, <1>7, <1>8, <1>9, <1>10, <2>1 DEF NetFlow
  <2> QED
    BY <1>9, <2>2, FlashFlows
<1>11. CASE r = q
  <2>1. index = liquidityIndex[r]
    BY <1>1, <1>2, <1>4, <1>11 DEF TypeOK
  <2>2. Worth(TreasuryFlow(r), part, liquidityIndex[r])
    BY <1>1, <1>2, <1>4, <1>5, <1>11, <2>1, TreasuryFlows
  <2>3. part * RAY <= premium * RAY /\ part * RAY \in Int /\ premium * RAY \in Int
    BY <1>1, <1>3, <1>4, <1>5, ProductMonotone
  <2>4. (x + premium) * RAY = x * RAY + premium * RAY /\ x * RAY \in Int
    BY <1>1, <1>2, <1>3
  <2>5. (Outstanding(r)' - Outstanding(r)) * RAY = -(x * RAY)
    BY <1>1, <1>2, <1>6, <1>9, <1>11
  <2>6. /\ TreasuryFlow(r) \in Int /\ TreasuryFlow(r) <= part * RAY + liquidityIndex[r] \div 2
        /\ liquidityIndex[r] \div 2 \in Nat /\ liquidityIndex[r] \div 2 <= FlashSlack(r)
    BY <1>1, <2>2, <2>3, FlowsInt, FlashSlackCovers DEF Worth
  <2>7. NetFlow(r) = TreasuryFlow(r) - (x * RAY + premium * RAY)
    BY <1>7, <1>8, <1>11, <2>3, <2>4, <2>6 DEF NetFlow
  <2>8. NetFlow(r) - (Outstanding(r)' - Outstanding(r)) * RAY <= FlashSlack(r)
    BY <1>9, <2>3, <2>4, <2>5, <2>6, <2>7
  <2> QED
    BY <2>8, FlashFlows
<1> QED
  BY <1>10, <1>11

(* A leg that is owed becomes a debt of its amount; the underlying left    *)
(* when the loan was opened.                                               *)
LEMMA OwedBalances ==
    ASSUME FlashTypeOK, FlashTypeOK', NEW loan \in Loan, NEW leg \in Leg,
           OweLeg(loan, leg), LegSettled(leg), NEW r \in Reserves
    PROVE  FlashBalanced(r)
<1> DEFINE u == loan.onBehalfOf
           q == leg.asset
           x == leg.amount
           drawn == LegDraws(leg)[r]
<1>1. TypeOK /\ TypeOK' /\ RAY \in Nat
  BY ScaleAssumption DEF FlashTypeOK
<1>2. u \in Users /\ q \in Reserves /\ x \in Nat
  BY DEF Loan, Leg
<1>3. /\ \/ MintStableDebt(u, q, x) /\ UNCHANGED variableDebtToken
         \/ MintVariableDebt(u, q, x) /\ UNCHANGED stableDebt
      /\ UNCHANGED <<indices, accruedToTreasury, unbacked, liquidity, aToken>>
  BY DEF OweLeg, ExecuteBorrow, OpenDebt
<1>4. drawn = (IF r = q THEN x ELSE 0) /\ Outstanding(r)' = Outstanding(r) - drawn
  BY DEF LegSettled, LegDraws
<1> HIDE DEF u, x, q, drawn
<1>5. /\ ATokenFlow(r) = 0 /\ TreasuryFlow(r) = 0 /\ LiquidityFlow(r) = 0
      /\ UnbackedFlow(r) = 0
  BY <1>1, <1>3, NoFlow DEF aToken
<1>6. x * RAY \in Int
  BY <1>1, <1>2
<1>7. VariableFlow(r) \in Int /\ StableFlow(r) \in Int
  BY <1>1, FlowsInt
<1>8. /\ variableBorrowIndex[r] \div 2 \in Nat /\ FlashSlack(r) \in Nat
      /\ variableBorrowIndex[r] \div 2 <= FlashSlack(r)
  BY <1>1, FlashSlackCovers
<1>9. (IF r = q THEN x * RAY ELSE 0) - VariableFlow(r) - StableFlow(r) <= FlashSlack(r)
  <2>1. CASE MintStableDebt(u, q, x) /\ UNCHANGED variableDebtToken
    <3>1. StableFlow(r) = IF r = q THEN x * RAY ELSE 0
      BY <1>1, <1>2, <2>1, StableDebtFlows
    <3>2. VariableFlow(r) = 0
      BY <1>1, <2>1, NoFlow
    <3> QED
      BY <1>6, <1>8, <3>1, <3>2
  <2>2. CASE MintVariableDebt(u, q, x) /\ UNCHANGED stableDebt
    <3>1. IF r = q THEN Worth(VariableFlow(r), x, variableBorrowIndex[r]) ELSE VariableFlow(r) = 0
      BY <1>1, <1>2, <2>2, VariableDebtFlows
    <3>2. StableFlow(r) = 0
      BY <1>1, <2>2, NoFlow
    <3> QED
      BY <1>6, <1>7, <1>8, <3>1, <3>2 DEF Worth
  <2> QED
    BY <1>3, <2>1, <2>2
<1>10. (Outstanding(r)' - Outstanding(r)) * RAY = IF r = q THEN -(x * RAY) ELSE 0
  <2>1. Outstanding(r) \in Nat
    BY OutstandingNat
  <2> QED
    BY <1>1, <1>2, <1>4, <2>1
<1>11. NetFlow(r) = -VariableFlow(r) - StableFlow(r)
  BY <1>5, <1>7 DEF NetFlow
<1>12. NetFlow(r) - (Outstanding(r)' - Outstanding(r)) * RAY <= FlashSlack(r)
  BY <1>6, <1>7, <1>8, <1>9, <1>10, <1>11
<1> QED
  BY <1>3, <1>12, FlashFlows DEF indices

LEMMA FlashSettledStep ==
    ASSUME FlashTypeOK, FlashTypeOK', [FlashNext]_flashVars, NEW r \in Reserves,
           liquidityIndex'[r] = liquidityIndex[r],
           variableBorrowIndex'[r] = variableBorrowIndex[r]
    PROVE  FlashBalanced(r)
<1>1. TypeOK /\ TypeOK' /\ RAY \in Nat /\ Outstanding(r) \in Nat
  BY OutstandingNat, ScaleAssumption DEF FlashTypeOK
<1>2. FlashSlack(r) \in Nat /\ RoundingSlack(r) \in Nat
  BY <1>1, FlashSlackCovers
<1>3. (Outstanding(r) - Outstanding(r)) * RAY = 0
  BY <1>1
<1>4. CASE [Next]_vars /\ loans' = loans
  <2>1. Outstanding(r)' = Outstanding(r)
    BY <1>4, OutstandingOf
  <2>2. FlashSlack(r) = RoundingSlack(r)
    BY <1>4 DEF FlashSlack
  <2>3. Claims(r)' - Backing(r)' <= Claims(r) - Backing(r) + RoundingSlack(r)
    BY <1>1, <1>4, SolventStep
  <2>4. /\ Claims(r)' - Backing(r)' = Claims(r) - Backing(r) + NetFlow(r)
        /\ Claims(r) - Backing(r) \in Int
    BY <1>1, FlowsNet
  <2>5. NetFlow(r) \in Int
    BY <1>1, FlowsInt DEF NetFlow
  <2>6. NetFlow(r) <= FlashSlack(r)
    BY <1>2, <2>2, <2>3, <2>4, <2>5
  <2>7. NetFlow(r) - (Outstanding(r)' - Outstanding(r)) * RAY <= FlashSlack(r)
    BY <1>3, <2>1, <2>5, <2>6
  <2> QED
    BY <2>7, FlashFlows
<1>5. CASE UNCHANGED vars /\ \A q \in Reserves : Outstanding(q)' = Outstanding(q)
  <2>1. /\ UNCHANGED <<aTokenSupply, accruedToTreasury, stableDebt, liquidity, unbacked>>
        /\ UNCHANGED variableDebtToken
    BY <1>5 DEF vars, aToken, debtTokens, variableDebtToken
  <2>2. NetFlow(r) = 0
    BY <1>1, <2>1, NoFlow DEF NetFlow
  <2>3. NetFlow(r) - (Outstanding(r)' - Outstanding(r)) * RAY <= FlashSlack(r)
    BY <1>2, <1>3, <1>5, <2>2
  <2> QED
    BY <2>3, FlashFlows
<1> QED
  BY <1>4, <1>5, FlashBooks, OpeningBalances, RepaidBalances, OwedBalances

(* However flash loans are nested, whatever their legs and receivers do,   *)
(* what was lent comes back or is owed: no step takes more off the backing *)
(* of a reserve, what is lent out included, than off the claims on it, up  *)
(* to the rounding of one token.                                           *)
THEOREM LoansSettle == FlashSpec => LoansAreSettled
<1>1. FlashTypeOK /\ FlashTypeOK' /\ [FlashNext]_flashVars =>
          [\A r \in Reserves :
              liquidityIndex'[r] = liquidityIndex[r]
              /\ variableBorrowIndex'[r] = variableBorrowIndex[r]
              => Claims(r)' - FlashBacking(r)'
                     <= Claims(r) - FlashBacking(r) + FlashSlack(r)]_flashVars
  BY FlashSettledStep DEF FlashBalanced
<1> QED
  BY <1>1, FlashTypeCorrect, PTL DEF FlashSpec, LoansAreSettled

(* The numbers of a premium: the leg's amount moves from what is lent out  *)
(* to the liquidity, and the premium comes on top.                         *)
LEMMA PremiumShared ==
    ASSUME FlashTypeOK, FlashTypeOK', NEW leg \in Leg, NEW premiumTotal \in Nat,
           RepayLeg(leg, premiumTotal), LegSettled(leg), NEW r \in Reserves, r = leg.asset
    PROVE  Claims(r)' - FlashBacking(r)'
               <= Claims(r) - FlashBacking(r) + FeeSlack(r, PremiumPaid(r))
<1> DEFINE x == leg.amount
           premium == percentMul(x, premiumTotal)
           p == percentMul(premium, FlashLoanPremiumToProtocol)
           index == CumulatedLiquidityIndex(r, TotalLiquidity(r), premium - p)
           L == liquidity[r]
           U == unbacked[r]
           D == TotalStableDebt(r)
           O == Outstanding(r)
           owed == variableDebtSupply[r] * variableBorrowIndex[r]
<1>1. TypeOK /\ TypeOK' /\ RAY \in Nat
  BY ScaleAssumption DEF FlashTypeOK
<1>2. L \in Nat /\ U \in Nat /\ D \in Nat /\ owed \in Nat /\ O \in Nat
  BY <1>1, BooksNat, ProductNat, OutstandingNat
<1>3. x \in Nat
  BY DEF Leg
<1>4. premium \in Nat
  BY <1>3, PercentMulNat
<1>5. /\ p <= premium /\ TotalLiquidity(r) # 0
      /\ liquidityIndex' = [liquidityIndex EXCEPT ![r] = index]
      /\ AccrueToTreasury(r, rayDiv(p, index))
      /\ PayIn(r, x + premium)
      /\ UNCHANGED <<unbacked, aToken, debtTokens, variableBorrowIndex>>
  BY DEF RepayLeg, SuppliersShare
<1>6. p \in Nat
  <2>1. FlashLoanPremiumToProtocol \in Nat
    BY FlashLoanAssumption
  <2> HIDE DEF premium
  <2> QED
    BY <1>4, <2>1, PercentMulNat
<1> HIDE DEF p, premium
<1>7. /\ liquidityIndex'[r] = index
      /\ accruedToTreasury'[r] = accruedToTreasury[r] + rayDiv(p, index)
      /\ aTokenSupply'[r] = aTokenSupply[r]
  BY <1>1, <1>5 DEF AccrueToTreasury, aToken, TypeOK
<1>8. unbacked'[r] = U /\ liquidity'[r] = L + (x + premium)
  BY <1>1, <1>5 DEF PayIn, TypeOK
<1>9. /\ TotalStableDebt(r)' = D
      /\ (variableDebtSupply[r] * variableBorrowIndex[r])' = owed
  BY <1>5 DEF debtTokens, TotalStableDebt
<1>10. Outstanding(r)' = O - x
  BY DEF LegSettled, LegDraws
<1>11. Claims(r)' <= Claims(r) + premium * RAY + FeeSlack(r, premium)
  <2> HIDE DEF index
  <2> QED
    BY <1>1, <1>4, <1>5, <1>6, <1>7, FeeSpread DEF index
<1>12. PremiumPaid(r) = premium
  BY <1>2, <1>3, <1>4, <1>8, <1>10 DEF PremiumPaid
<1>13. /\ FlashBacking(r) = (L + D + U) * RAY + owed + O * RAY
       /\ FlashBacking(r)' = ((L + (x + premium)) + D + U) * RAY + owed + (O - x) * RAY
  BY <1>8, <1>9, <1>10 DEF FlashBacking, Backing
<1>14. Claims(r) \in Int /\ Claims(r)' \in Int /\ FeeSlack(r, premium) \in Int
  BY <1>1, <1>4, <1>5, ClaimsInt, FeeSlackInt
<1> HIDE DEF L, U, D, O, owed, x
<1>15. /\ FlashBacking(r)' = FlashBacking(r) + premium * RAY
       /\ FlashBacking(r) \in Int /\ premium * RAY \in Int
  BY <1>1, <1>2, <1>3, <1>4, <1>13
<1> QED
  BY <1>11, <1>12, <1>14, <1>15

(* Of the steps that settle something, those that raise the index are the  *)
(* repayment of a leg of that reserve.                                     *)
LEMMA OnlyRepaymentsPay ==
    ASSUME FlashTypeOK, [FlashNext]_flashVars, NEW r \in Reserves,
           Outstanding(r)' < Outstanding(r), liquidityIndex'[r] # liquidityIndex[r]
    PROVE  \E leg \in Leg, premiumTotal \in Nat :
               RepayLeg(leg, premiumTotal) /\ LegSettled(leg) /\ r = leg.asset
<1>1. Outstanding(r) \in Nat /\ liquidityIndex \in [Reserves -> RAY..MaxIndex]
  BY OutstandingNat DEF FlashTypeOK, TypeOK
<1>2. ~(loans' = loans)
  BY <1>1, OutstandingOf
<1>3. ASSUME UNCHANGED indices PROVE FALSE
  BY <1>3 DEF indices
<1>4. ~UNCHANGED vars
  BY <1>3 DEF vars
<1>5. ASSUME NEW u, NEW legs, NEW authorized, OpenFlashLoan(u, legs, authorized) PROVE FALSE
  BY <1>3, <1>5 DEF OpenFlashLoan
<1>6. ASSUME NEW loan, NEW leg, OweLeg(loan, leg) PROVE FALSE
  BY <1>3, <1>6 DEF OweLeg, ExecuteBorrow
<1>7. PICK leg \in Leg, premiumTotal \in Nat : RepayLeg(leg, premiumTotal) /\ LegSettled(leg)
  BY <1>2, <1>4, <1>5, <1>6, FlashBooks
<1>8. r = leg.asset
  <2>1. PICK index : liquidityIndex' = [liquidityIndex EXCEPT ![leg.asset] = index]
    BY <1>7 DEF RepayLeg
  <2> QED
    BY <1>1, <2>1
<1> QED
  BY <1>7, <1>8

(* The premium of a flash loan pays for what the new index gives to        *)
(* suppliers and treasury, for every premium and whatever the supply has   *)
(* become while the loan was open.                                         *)
THEOREM PremiumsPay == FlashSpec => PremiumsPayForIncome
<1>1. FlashTypeOK /\ FlashTypeOK' /\ [FlashNext]_flashVars =>
          [\A r \in Reserves :
              Outstanding(r)' < Outstanding(r) /\ liquidityIndex'[r] # liquidityIndex[r]
              => Claims(r)' - FlashBacking(r)'
                     <= Claims(r) - FlashBacking(r) + FeeSlack(r, PremiumPaid(r))]_flashVars
  BY OnlyRepaymentsPay, PremiumShared
<1> QED
  BY <1>1, FlashTypeCorrect, PTL DEF FlashSpec, PremiumsPayForIncome

-----------------------------------------------------------------------------
(* Health.                                                                 *)

(* Only liquidity leaves when a loan is opened.                            *)
LEMMA OpenFlashLoanHealthy ==
    ASSUME HealthInv, HealthInv', NEW v, NEW legs \in LegLists, NEW authorized,
           OpenFlashLoan(v, legs, authorized), NEW u \in Users
    PROVE  StaysHealthy(u)
<1> DEFINE r == legs[1].asset
<1>1. r \in Reserves
  <2>1. Len(legs) \in Nat \ {0} /\ \A i \in 1..Len(legs) : legs[i] \in Leg
    BY LegFacts
  <2> QED
    BY <2>1 DEF Leg
<1>2. /\ Quiet(u) /\ UNCHANGED <<indices, aToken, debtTokens, userFlags>>
  BY DEF OpenFlashLoan, Quiet
<1>3. \A q \in Reserves : liquidityIndex[q] <= liquidityIndex'[q]
  BY <1>2, IndexFacts DEF indices, HealthInv
<1> HIDE DEF r
<1> QED
  BY <1>1, <1>2, <1>3, PositionKept DEF indices

(* The premium raises what collateral is worth, and nothing else.          *)
LEMMA RepayLegHealthy ==
    ASSUME HealthInv, HealthInv', NEW leg \in Leg, NEW premiumTotal \in Nat,
           RepayLeg(leg, premiumTotal), NEW u \in Users
    PROVE  StaysHealthy(u)
<1> DEFINE r == leg.asset
           premium == percentMul(leg.amount, premiumTotal)
           index == CumulatedLiquidityIndex(r, TotalLiquidity(r), SuppliersShare(premium))
<1>1. r \in Reserves /\ leg.amount \in Nat
  BY DEF Leg
<1>2. /\ percentMul(premium, FlashLoanPremiumToProtocol) <= premium
      /\ TotalLiquidity(r) # 0 /\ index <= MaxIndex
      /\ liquidityIndex' = [liquidityIndex EXCEPT ![r] = index]
      /\ Quiet(u) /\ UNCHANGED <<variableBorrowIndex, aToken, debtTokens, userFlags>>
  BY DEF RepayLeg, Quiet
<1>3. premium \in Nat
  BY <1>1, PercentMulNat
<1> HIDE DEF premium
<1>4. SuppliersShare(premium) \in Nat
  <2>1. FlashLoanPremiumToProtocol \in Nat
    BY FlashLoanAssumption
  <2>2. percentMul(premium, FlashLoanPremiumToProtocol) \in Nat
    BY <1>3, <2>1, PercentMulNat
  <2> QED
    BY <1>2, <1>3, <2>2 DEF SuppliersShare
<1>5. liquidityIndex[r] <= index
  <2> HIDE DEF r
  <2> QED
    BY <1>1, <1>2, <1>4, CumulatedIndexType DEF HealthInv
<1> HIDE DEF index, r
<1>6. \A q \in Reserves : liquidityIndex[q] <= liquidityIndex'[q]
  <2>1. \A q \in Reserves : liquidityIndex[q] \in Nat
    BY IndexFacts DEF HealthInv
  <2> QED
    BY <1>1, <1>2, <1>5, <2>1 DEF HealthInv, TypeOK
<1> QED
  BY <1>1, <1>2, <1>6, PositionKept

(* A step that does not exempt the user, whatever the receivers do.        *)
LEMMA FlashHealthStep ==
    ASSUME FlashTypeOK, HealthInv, HealthInv', FlashNext, ~(UNCHANGED vars), ~Environment,
           NEW u \in Users, ~EntersUnchecked(u), ~OwesInOtherCategory(u)
    PROVE  StaysHealthy(u)
<1>1. CASE PoolCall
  BY <1>1, HealthStep
<1>2. CASE \E v \in Users, legs \in LegLists, authorized \in BOOLEAN :
               OpenFlashLoan(v, legs, authorized)
  BY <1>2, OpenFlashLoanHealthy
<1>3. CASE SettleLeg
  <2> DEFINE loan == Innermost
             leg == loan.legs[loan.next]
  <2>1. loan \in Loan /\ leg \in Leg /\ loan.premiumTotal \in Nat
    BY <1>3, InnermostFacts, LegToSettle DEF SettleLeg, Loan
  <2>2. loans # <<>> /\ loan.next # 0
    BY <1>3 DEF SettleLeg
  <2>3. CASE leg.mode = NONE /\ RepayLeg(leg, loan.premiumTotal)
    <3> HIDE DEF leg, loan
    <3> QED
      BY <2>1, <2>3, RepayLegHealthy
  <2>4. CASE leg.mode # NONE /\ OweLeg(loan, leg)
    <3>1. u = loan.onBehalfOf => loan.eMode = eModeCategory[loan.onBehalfOf]
      BY <2>2, <2>4 DEF OwesInOtherCategory
    <3> HIDE DEF leg, loan
    <3>2. loan.onBehalfOf \in Users /\ leg.asset \in Reserves /\ leg.amount \in Nat
      BY <2>1 DEF Loan, Leg
    <3> QED
      BY <2>4, <3>1, <3>2, BorrowHealthy DEF OweLeg
  <2> QED
    BY <1>3, <2>3, <2>4 DEF SettleLeg
<1>4. CASE ReceiverReturns
  BY <1>4 DEF ReceiverReturns
<1> QED
  BY <1>1, <1>2, <1>3, <1>4 DEF FlashNext

(* Whatever receivers do in the middle of their loans, and however the     *)
(* legs are settled, healthy positions stay healthy, but for what the      *)
(* arithmetic rounds away and for a borrower who has changed the category  *)
(* the debt is checked in.                                                 *)
THEOREM FlashHealthyStays == FlashSpec => HealthyThroughFlashLoans
<1>1. FlashInit => AsListed
  BY DEF FlashInit, Init, AsListed
<1>2. FlashTypeOK /\ AsListed /\ [FlashNext]_flashVars => AsListed'
  <2> SUFFICES ASSUME FlashTypeOK, AsListed, [FlashNext]_flashVars PROVE AsListed'
    OBVIOUS
  <2>1. ASSUME UNCHANGED governance PROVE AsListed'
    BY <2>1 DEF AsListed, governance
  <2>2. ASSUME NEW loan, NEW leg, OweLeg(loan, leg) PROVE AsListed'
    BY <2>1, <2>2 DEF OweLeg, ExecuteBorrow
  <2> QED
    BY <2>1, <2>2, FlashSteps, AsListedStep, OpenFlashLoanFrame, RepayLegFrame
<1>3. /\ FlashTypeOK /\ HealthInv /\ HealthInv' /\ [FlashNext]_flashVars
      => [\/ \A u \in Users :
                 Healthy(u) /\ ~EntersUnchecked(u) /\ ~OwesInOtherCategory(u)
                 => Healthy(u)' \/ CoveredUpToRounding(u)
          \/ Environment]_vars
  BY FlashHealthStep DEF StaysHealthy, flashVars
<1>4. FlashSpec => []HealthInv
  <2>1. FlashTypeOK => TypeOK
    BY DEF FlashTypeOK
  <2> QED
    BY <1>1, <1>2, <2>1, FlashTypeCorrect, FlashDebtsFlagged, PTL DEF FlashSpec, HealthInv
<1> QED
  BY <1>3, <1>4, FlashTypeCorrect, PTL DEF FlashSpec, HealthyThroughFlashLoans
=============================================================================
