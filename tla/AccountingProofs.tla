-------------------------- MODULE AccountingProofs --------------------------
(***************************************************************************)
(* The pool's books and the health of its positions, for every value of    *)
(* the constants: the supplies are the sums of the balances, no call       *)
(* creates claims that nothing backs, and no call takes a position out of  *)
(* health but for what the arithmetic rounds away.                         *)
(***************************************************************************)
EXTENDS PoolProofs, FiniteSetTheorems

(* The units a group of holders has; Total counts those of all of them.    *)
Units(balances, r, holders) == UNION {{a} \X (1..balances[a][r]) : a \in holders}

LEMMA UnitsFinite ==
    ASSUME NEW S, IsFiniteSet(S), NEW b \in [S -> [Reserves -> Nat]], NEW r \in Reserves,
           NEW H \in SUBSET S
    PROVE  IsFiniteSet(Units(b, r, H))
<1> DEFINE T == {{a} \X (1..b[a][r]) : a \in H}
           f == [a \in H |-> {a} \X (1..b[a][r])]
<1>1. IsFiniteSet(H)
  BY FS_Subset
<1>2. f \in Surjection(H, T)
  BY DEF Surjection
<1>3. IsFiniteSet(T)
  <2> HIDE DEF f, T
  <2> QED
    BY <1>1, <1>2, FS_Surjection
<1>4. ASSUME NEW a \in H PROVE IsFiniteSet({a} \X (1..b[a][r]))
  <2>1. b[a][r] \in Int /\ 1 \in Int
    OBVIOUS
  <2>2. IsFiniteSet(1..b[a][r])
    BY <2>1, FS_Interval
  <2> QED
    BY <2>2, FS_Singleton, FS_Product
<1>5. \A U \in T : IsFiniteSet(U)
  BY <1>4
<1> HIDE DEF T
<1>6. IsFiniteSet(UNION T)
  BY <1>3, <1>5, FS_UNION
<1> QED
  BY <1>6 DEF T, Units

(* One holder's units are as many as its balance, and nobody else's.       *)
LEMMA UnitsSplit ==
    ASSUME NEW S, IsFiniteSet(S), NEW b \in [S -> [Reserves -> Nat]], NEW r \in Reserves,
           NEW a \in S
    PROVE  /\ Cardinality(Units(b, r, S \ {a})) \in Nat
           /\ Total(b, r) = Cardinality(Units(b, r, S \ {a})) + b[a][r]
<1> DEFINE mine == {a} \X (1..b[a][r])
           rest == Units(b, r, S \ {a})
<1>1. IsFiniteSet(rest)
  BY UnitsFinite
<1>2. b[a][r] \in Nat
  OBVIOUS
<1>3. IsFiniteSet(1..b[a][r]) /\ Cardinality(1..b[a][r]) = b[a][r]
  <2>1. /\ IsFiniteSet(1..b[a][r])
        /\ Cardinality(1..b[a][r]) = IF 1 > b[a][r] THEN 0 ELSE b[a][r] - 1 + 1
    BY <1>2, FS_Interval
  <2> QED
    BY <1>2, <2>1
<1>4. IsFiniteSet({a}) /\ Cardinality({a}) = 1
  BY FS_Singleton
<1>5. IsFiniteSet(mine) /\ Cardinality(mine) = b[a][r]
  <2>1. /\ IsFiniteSet(mine)
        /\ Cardinality(mine) = Cardinality({a}) * Cardinality(1..b[a][r])
    BY <1>3, <1>4, FS_Product
  <2> QED
    BY <1>2, <1>3, <1>4, <2>1
<1>6. Units(b, r, S) = rest \cup mine
  BY DEF Units
<1>7. rest \cap mine = {}
  BY DEF Units
<1> HIDE DEF mine, rest
<1>8. Cardinality(rest) \in Nat
  BY <1>1, FS_CardinalityType
<1>9. Cardinality(rest \cup mine) = Cardinality(rest) + b[a][r]
  <2>1. Cardinality(rest \cup mine)
            = Cardinality(rest) + Cardinality(mine) - Cardinality(rest \cap mine)
    BY <1>1, <1>5, FS_Union
  <2>2. Cardinality(rest \cap mine) = 0
    BY <1>7, FS_EmptySet
  <2> QED
    BY <1>2, <1>5, <1>8, <2>1, <2>2
<1>10. Total(b, r) = Cardinality(Units(b, r, S))
  <2>1. DOMAIN b = S
    OBVIOUS
  <2> QED
    BY <2>1 DEF Total, Units
<1> QED
  BY <1>6, <1>8, <1>9, <1>10 DEF rest

LEMMA UnitsSame ==
    ASSUME NEW b, NEW c, NEW r, NEW H, \A a \in H : b[a][r] = c[a][r]
    PROVE  Units(b, r, H) = Units(c, r, H)
<1>1. \A a \in H : {a} \X (1..b[a][r]) = {a} \X (1..c[a][r])
  OBVIOUS
<1> QED
  BY <1>1 DEF Units

(* The sum is a natural, at least each balance, and moves as they do.      *)
LEMMA TotalNat ==
    ASSUME NEW S, IsFiniteSet(S), NEW b \in [S -> [Reserves -> Nat]], NEW r \in Reserves
    PROVE  Total(b, r) \in Nat
<1>1. DOMAIN b = S
  OBVIOUS
<1>2. IsFiniteSet(Units(b, r, S))
  BY UnitsFinite
<1> QED
  BY <1>1, <1>2, FS_CardinalityType DEF Total, Units

LEMMA TotalBounds ==
    ASSUME NEW S, IsFiniteSet(S), NEW b \in [S -> [Reserves -> Nat]], NEW r \in Reserves,
           NEW a \in S
    PROVE  b[a][r] <= Total(b, r)
<1>1. /\ Cardinality(Units(b, r, S \ {a})) \in Nat
      /\ Total(b, r) = Cardinality(Units(b, r, S \ {a})) + b[a][r]
  BY UnitsSplit
<1>2. b[a][r] \in Nat
  OBVIOUS
<1> QED
  BY <1>1, <1>2

LEMMA TotalUnchanged ==
    ASSUME NEW S, NEW b, NEW c, NEW r, DOMAIN b = S, DOMAIN c = S,
           \A a \in S : c[a][r] = b[a][r]
    PROVE  Total(c, r) = Total(b, r)
<1>1. Units(b, r, S) = Units(c, r, S)
  BY UnitsSame
<1> QED
  BY <1>1 DEF Total, Units

LEMMA TotalMoves ==
    ASSUME NEW S, IsFiniteSet(S), NEW b \in [S -> [Reserves -> Nat]],
           NEW c \in [S -> [Reserves -> Nat]], NEW r \in Reserves, NEW a \in S,
           \A d \in S \ {a} : c[d][r] = b[d][r]
    PROVE  Total(c, r) = Total(b, r) + c[a][r] - b[a][r]
<1>1. Units(c, r, S \ {a}) = Units(b, r, S \ {a})
  BY UnitsSame
<1>2. /\ Cardinality(Units(b, r, S \ {a})) \in Nat
      /\ Total(b, r) = Cardinality(Units(b, r, S \ {a})) + b[a][r]
      /\ Total(c, r) = Cardinality(Units(c, r, S \ {a})) + c[a][r]
  BY UnitsSplit
<1>3. b[a][r] \in Nat /\ c[a][r] \in Nat
  OBVIOUS
<1> QED
  BY <1>1, <1>2, <1>3

LEMMA TotalOfNothing ==
    ASSUME NEW S, NEW b, NEW r, DOMAIN b = S, \A a \in S : b[a][r] = 0
    PROVE  Total(b, r) = 0
<1>1. \A a \in S : {a} \X (1..b[a][r]) = {}
  OBVIOUS
<1>2. UNION {{a} \X (1..b[a][r]) : a \in S} = {}
  BY <1>1
<1> QED
  BY <1>2, FS_EmptySet DEF Total

(* The entry of one holder is written, to c from b.                        *)
EntryWritten(S, b, c, a, r) ==
    /\ b \in [S -> [Reserves -> Nat]] /\ c \in [S -> [Reserves -> Nat]]
    /\ a \in S
    /\ \A d \in S, q \in Reserves : d # a \/ q # r => c[d][q] = b[d][q]

LEMMA TotalsAfterWrite ==
    ASSUME NEW S, IsFiniteSet(S), NEW b, NEW c, NEW a, NEW r \in Reserves,
           EntryWritten(S, b, c, a, r)
    PROVE  \A q \in Reserves :
               Total(c, q) = Total(b, q) + (IF q = r THEN c[a][r] - b[a][r] ELSE 0)
<1> USE DEF EntryWritten
<1>1. Total(c, r) = Total(b, r) + c[a][r] - b[a][r]
  <2>1. \A d \in S \ {a} : c[d][r] = b[d][r]
    OBVIOUS
  <2> QED
    BY <2>1, TotalMoves
<1>2. ASSUME NEW q \in Reserves \ {r} PROVE Total(c, q) = Total(b, q)
  <2>1. DOMAIN b = S /\ DOMAIN c = S
    OBVIOUS
  <2>2. \A d \in S : c[d][q] = b[d][q]
    OBVIOUS
  <2> QED
    BY <2>1, <2>2, TotalUnchanged
<1>3. b[a][r] \in Nat /\ c[a][r] \in Nat
  OBVIOUS
<1>4. \A q \in Reserves : Total(b, q) \in Nat
  BY TotalNat
<1> QED
  BY <1>1, <1>2, <1>3, <1>4

LEMMA AccountsFinite == IsFiniteSet(Accounts)
BY StorageAssumption, FS_AddElement DEF Accounts

(* What moves between two accounts, or within one, leaves the sums alone.  *)
LEMMA TotalsAfterMove ==
    ASSUME NEW b \in [Accounts -> [Reserves -> Nat]], NEW from \in Accounts,
           NEW to \in Accounts, NEW r \in Reserves, NEW x \in Nat, x <= b[from][r]
    PROVE  \A q \in Reserves : Total(Moved(b, from, to, r, x), q) = Total(b, q)
<1> DEFINE debited == [b EXCEPT ![from][r] = @ - x]
           credited == [debited EXCEPT ![to][r] = @ + x]
<1>1. Moved(b, from, to, r, x) = credited
  BY DEF Moved
<1>2. /\ debited \in [Accounts -> [Reserves -> Nat]]
      /\ debited[from][r] = b[from][r] - x /\ b[from][r] \in Nat
      /\ EntryWritten(Accounts, b, debited, from, r)
  BY DEF EntryWritten
<1> HIDE DEF debited
<1>3. /\ credited \in [Accounts -> [Reserves -> Nat]]
      /\ credited[to][r] = debited[to][r] + x /\ debited[to][r] \in Nat
      /\ EntryWritten(Accounts, debited, credited, to, r)
  BY <1>2 DEF EntryWritten
<1> HIDE DEF credited
<1>4. \A q \in Reserves :
          Total(debited, q)
            = Total(b, q) + (IF q = r THEN debited[from][r] - b[from][r] ELSE 0)
  BY <1>2, AccountsFinite, TotalsAfterWrite
<1>5. \A q \in Reserves :
          Total(credited, q)
            = Total(debited, q) + (IF q = r THEN credited[to][r] - debited[to][r] ELSE 0)
  BY <1>2, <1>3, AccountsFinite, TotalsAfterWrite
<1>6. ASSUME NEW q \in Reserves PROVE Total(credited, q) = Total(b, q)
  <2>1. Total(b, q) \in Nat
    BY AccountsFinite, TotalNat
  <2>2. /\ Total(debited, q) = Total(b, q) + (IF q = r THEN debited[from][r] - b[from][r] ELSE 0)
        /\ Total(credited, q)
             = Total(debited, q) + (IF q = r THEN credited[to][r] - debited[to][r] ELSE 0)
    BY <1>4, <1>5
  <2> QED
    BY <1>2, <1>3, <2>1, <2>2
<1> QED
  BY <1>1, <1>6

(* A supply that moves as the entry of a holder does.                      *)
LEMMA SupplyFollows ==
    ASSUME NEW S, IsFiniteSet(S), NEW b, NEW c, NEW a, NEW r \in Reserves,
           EntryWritten(S, b, c, a, r),
           NEW before, NEW after, \A q \in Reserves : before[q] = Total(b, q),
           \A q \in Reserves : after[q] = before[q] + (IF q = r THEN c[a][r] - b[a][r] ELSE 0)
    PROVE  \A q \in Reserves : after[q] = Total(c, q)
BY TotalsAfterWrite

-----------------------------------------------------------------------------
(* The supplies.                                                           *)

ATokensAddUp == \A r \in Reserves : aTokenSupply[r] = Total(scaledBalance, r)
VariableDebtsAddUp ==
    \A r \in Reserves : variableDebtSupply[r] = Total(scaledVariableDebt, r)

LEMMA WrittenAlike ==
    ASSUME NEW S, NEW b \in [S -> [Reserves -> Nat]], NEW before \in [Reserves -> Nat],
           NEW c, NEW after, NEW a \in S, NEW r \in Reserves, NEW d \in Nat,
           \/ c = [b EXCEPT ![a][r] = @ + d] /\ after = [before EXCEPT ![r] = @ + d]
           \/ c = [b EXCEPT ![a][r] = @ - d] /\ after = [before EXCEPT ![r] = @ - d]
    PROVE  \A q \in Reserves :
               after[q] = before[q] + (IF q = r THEN c[a][r] - b[a][r] ELSE 0)
<1>1. b[a][r] \in Nat /\ \A q \in Reserves : before[q] \in Nat
  OBVIOUS
<1>2. CASE c = [b EXCEPT ![a][r] = @ + d] /\ after = [before EXCEPT ![r] = @ + d]
  BY <1>1, <1>2
<1>3. CASE c = [b EXCEPT ![a][r] = @ - d] /\ after = [before EXCEPT ![r] = @ - d]
  BY <1>1, <1>3
<1> QED
  BY <1>2, <1>3

LEMMA ATokenWrite ==
    ASSUME TypeOK, ATokensAddUp, NEW a \in Accounts, NEW r \in Reserves, NEW x \in Nat,
           MintAToken(a, r, x) \/ BurnAToken(a, r, x)
    PROVE  ATokensAddUp'
<1> DEFINE scaled == rayDiv(x, liquidityIndex[r])
           b == scaledBalance
           c == scaledBalance'
           before == aTokenSupply
           after == aTokenSupply'
<1>1. scaled \in Nat
  BY ScaledNat
<1>2. /\ b \in [Accounts -> [Reserves -> Nat]] /\ c \in [Accounts -> [Reserves -> Nat]]
      /\ before \in [Reserves -> Nat]
  BY MintATokenType, BurnATokenType DEF TypeOK, ATokenType
<1>3. \/ /\ c = [b EXCEPT ![a][r] = @ + scaled]
         /\ after = [before EXCEPT ![r] = @ + scaled]
      \/ /\ c = [b EXCEPT ![a][r] = @ - scaled]
         /\ after = [before EXCEPT ![r] = @ - scaled]
  BY DEF MintAToken, BurnAToken
<1>4. \A q \in Reserves : before[q] = Total(b, q)
  BY DEF ATokensAddUp
<1> HIDE DEF scaled, b, c, before, after
<1>5. EntryWritten(Accounts, b, c, a, r)
  BY <1>2, <1>3 DEF EntryWritten
<1>6. \A q \in Reserves :
          after[q] = before[q] + (IF q = r THEN c[a][r] - b[a][r] ELSE 0)
  BY <1>1, <1>2, <1>3, WrittenAlike
<1>7. \A q \in Reserves : after[q] = Total(c, q)
  BY <1>4, <1>5, <1>6, AccountsFinite, SupplyFollows
<1> QED
  BY <1>7 DEF ATokensAddUp, after, c

LEMMA VariableDebtWrite ==
    ASSUME TypeOK, VariableDebtsAddUp, NEW u \in Users, NEW r \in Reserves, NEW x \in Nat,
           MintVariableDebt(u, r, x) \/ BurnVariableDebt(u, r, x)
    PROVE  VariableDebtsAddUp'
<1> DEFINE scaled == rayDiv(x, variableBorrowIndex[r])
           b == scaledVariableDebt
           c == scaledVariableDebt'
           before == variableDebtSupply
           after == variableDebtSupply'
<1>1. scaled \in Nat
  BY ScaledNat
<1>2. /\ b \in [Users -> [Reserves -> Nat]] /\ c \in [Users -> [Reserves -> Nat]]
      /\ before \in [Reserves -> Nat]
  BY MintVariableDebtType, BurnVariableDebtType DEF TypeOK, VariableDebtType
<1>3. \/ /\ c = [b EXCEPT ![u][r] = @ + scaled]
         /\ after = [before EXCEPT ![r] = @ + scaled]
      \/ /\ c = [b EXCEPT ![u][r] = @ - scaled]
         /\ after = [before EXCEPT ![r] = @ - scaled]
  BY DEF MintVariableDebt, BurnVariableDebt
<1>4. \A q \in Reserves : before[q] = Total(b, q)
  BY DEF VariableDebtsAddUp
<1> HIDE DEF scaled, b, c, before, after
<1>5. EntryWritten(Users, b, c, u, r)
  BY <1>2, <1>3 DEF EntryWritten
<1>6. \A q \in Reserves :
          after[q] = before[q] + (IF q = r THEN c[u][r] - b[u][r] ELSE 0)
  BY <1>1, <1>2, <1>3, WrittenAlike
<1>7. \A q \in Reserves : after[q] = Total(c, q)
  BY <1>4, <1>5, <1>6, StorageAssumption, SupplyFollows
<1> QED
  BY <1>7 DEF VariableDebtsAddUp, after, c

LEMMA SeizureWrite ==
    ASSUME TypeOK, ATokensAddUp, NEW liquidator \in Users, NEW u \in Users,
           NEW rc \in Reserves, NEW seized \in Nat, NEW fee \in Nat,
           NEW receiveAToken \in BOOLEAN,
           SeizeATokens(liquidator, u, rc, seized, fee, receiveAToken)
    PROVE  ATokensAddUp'
<1> DEFINE index == liquidityIndex[rc]
           scaled == rayDiv(seized, index)
           b == scaledBalance
           c == IF receiveAToken THEN Moved(b, u, liquidator, rc, scaled)
                ELSE [b EXCEPT ![u][rc] = @ - scaled]
           left == c[u][rc]
           paidFee == IF rayDiv(fee, index) > left THEN rayMul(left, index) ELSE fee
           scaledFee == rayDiv(paidFee, index)
           before == aTokenSupply
           after == aTokenSupply'
<1>1. u \in Accounts /\ liquidator \in Accounts /\ Treasury \in Accounts
  BY DEF Accounts
<1>2. scaled \in Nat /\ scaled <= b[u][rc]
  BY ScaledNat DEF SeizeATokens
<1>3. b \in [Accounts -> [Reserves -> Nat]] /\ before \in [Reserves -> Nat]
  BY DEF TypeOK
<1>4. /\ fee # 0 => scaledFee <= left
      /\ scaledBalance' = IF fee = 0 THEN c ELSE Moved(c, u, Treasury, rc, scaledFee)
      /\ after = IF receiveAToken THEN before ELSE [before EXCEPT ![rc] = @ - scaled]
  BY DEF SeizeATokens
<1>5. \A q \in Reserves : before[q] = Total(b, q)
  BY DEF ATokensAddUp
<1>6. c \in [Accounts -> [Reserves -> Nat]]
  <2> HIDE DEF scaled, b
  <2> QED
    BY <1>1, <1>2, <1>3, MovedType
<1>7. scaledFee \in Nat
  <2>1. left \in Nat
    <3> HIDE DEF c
    <3> QED
      BY <1>1, <1>6
  <2>2. paidFee \in Nat
    <3> HIDE DEF left
    <3> QED
      BY <2>1, IndexFacts, RayMulNat
  <2> HIDE DEF paidFee
  <2> QED
    BY <2>2, ScaledNat
<1> HIDE DEF index, scaled, b, left, paidFee, scaledFee, before, after
<1>8. \A q \in Reserves : after[q] = Total(c, q)
  <2>1. CASE receiveAToken
    <3>1. \A q \in Reserves : Total(c, q) = Total(b, q)
      BY <1>1, <1>2, <1>3, <2>1, TotalsAfterMove
    <3> QED
      BY <1>4, <1>5, <2>1, <3>1
  <2>2. CASE ~receiveAToken
    <3>1. c = [b EXCEPT ![u][rc] = @ - scaled] /\ after = [before EXCEPT ![rc] = @ - scaled]
      BY <1>4, <2>2
    <3> HIDE DEF c
    <3>2. EntryWritten(Accounts, b, c, u, rc)
      BY <1>1, <1>3, <1>6, <3>1 DEF EntryWritten
    <3>3. \A q \in Reserves :
              after[q] = before[q] + (IF q = rc THEN c[u][rc] - b[u][rc] ELSE 0)
      BY <1>1, <1>2, <1>3, <3>1, WrittenAlike
    <3> QED
      BY <1>5, <3>2, <3>3, AccountsFinite, SupplyFollows
  <2> QED
    BY <2>1, <2>2
<1> HIDE DEF c
<1>9. fee # 0 => \A q \in Reserves : Total(Moved(c, u, Treasury, rc, scaledFee), q) = Total(c, q)
  BY <1>1, <1>4, <1>6, <1>7, TotalsAfterMove DEF left
<1>10. \A q \in Reserves : after[q] = Total(scaledBalance', q)
  BY <1>4, <1>8, <1>9
<1> QED
  BY <1>10 DEF ATokensAddUp, after

-----------------------------------------------------------------------------
(* What the groups of calls do to the tokens and the liquidity.            *)

reserveFrame == <<indices, accruedToTreasury, unbacked>>

LEMMA SupplierFlows ==
    ASSUME TypeOK, SupplierCall
    PROVE  /\ UNCHANGED <<reserveFrame, debtTokens>>
           /\ \/ UNCHANGED <<aToken, liquidity>>
              \/ \E v \in Users, r \in Reserves, x \in Nat :
                    /\ Operational(r)
                    /\ \/ MintAToken(v, r, x) /\ PayIn(r, x)
                       \/ BurnAToken(v, r, x) /\ PayOut(r, x)
              \/ \E v, to \in Users, r \in Reserves, scaled \in Nat :
                    /\ scaled <= scaledBalance[v][r]
                    /\ scaledBalance' = Moved(scaledBalance, v, to, r, scaled)
                    /\ UNCHANGED <<aTokenSupply, liquidity>>
<1>1. PICK v \in Users, r \in Reserves :
          \/ \E sender \in Users, x \in Amounts : Supply(sender, v, r, x)
          \/ \E x \in Requests : Withdraw(v, r, x)
          \/ \E to \in Users, x \in Amounts : Transfer(v, to, r, x)
          \/ \E use \in BOOLEAN : SetUserUseReserveAsCollateral(v, r, use)
  BY DEF SupplierCall
<1> DEFINE Kept == UNCHANGED <<reserveFrame, debtTokens>>
           In == \E x \in Nat : Operational(r) /\ MintAToken(v, r, x) /\ PayIn(r, x)
           Out == \E x \in Nat : Operational(r) /\ BurnAToken(v, r, x) /\ PayOut(r, x)
           Over == \E to \in Users, scaled \in Nat :
                       /\ scaled <= scaledBalance[v][r]
                       /\ scaledBalance' = Moved(scaledBalance, v, to, r, scaled)
                       /\ UNCHANGED <<aTokenSupply, liquidity>>
<1>2. ASSUME NEW sender, NEW x \in Amounts, Supply(sender, v, r, x) PROVE Kept /\ In
  <2>1. x \in Nat
    BY StorageAssumption
  <2> QED
    BY <1>2, <2>1 DEF Supply, ValidateSupply, reserveFrame
<1>3. ASSUME NEW x \in Requests, Withdraw(v, r, x) PROVE Kept /\ Out
  <2>1. x \in Nat /\ BalanceOf(v, r) \in Nat
    BY RequestNat, BalanceNat DEF Accounts
  <2>2. PICK y \in Nat : BurnAToken(v, r, y) /\ PayOut(r, y)
    BY <1>3, <2>1 DEF Withdraw
  <2> QED
    BY <1>3, <2>2 DEF Withdraw, ValidateWithdraw, reserveFrame
<1>4. ASSUME NEW to \in Users, NEW x \in Amounts, Transfer(v, to, r, x) PROVE Kept /\ Over
  <2>1. rayDiv(x, liquidityIndex[r]) \in Nat
    BY StorageAssumption, ScaledNat
  <2> QED
    BY <1>4, <2>1 DEF Transfer, reserveFrame
<1>5. ASSUME NEW use, SetUserUseReserveAsCollateral(v, r, use)
      PROVE  Kept /\ UNCHANGED <<aToken, liquidity>>
  BY <1>5 DEF SetUserUseReserveAsCollateral, reserveFrame
<1> HIDE DEF Kept, In, Out, Over
<1>6. Kept /\ (UNCHANGED <<aToken, liquidity>> \/ In \/ Out \/ Over)
  BY <1>1, <1>2, <1>3, <1>4, <1>5
<1> QED
  BY <1>6 DEF Kept, In, Out, Over

LEMMA BorrowerFlows ==
    ASSUME TypeOK, BorrowerCall
    PROVE  /\ UNCHANGED reserveFrame
           /\ \E v \in Users, r \in Reserves, x \in Nat :
                 /\ Operational(r)
                 /\ \/ /\ \/ MintStableDebt(v, r, x) /\ UNCHANGED variableDebtToken
                          \/ MintVariableDebt(v, r, x) /\ UNCHANGED stableDebt
                       /\ PayOut(r, x) /\ UNCHANGED aToken
                    \/ /\ \/ BurnStableDebt(v, r, x) /\ UNCHANGED variableDebtToken
                          \/ BurnVariableDebt(v, r, x) /\ UNCHANGED stableDebt
                       /\ \/ BurnAToken(v, r, x) /\ UNCHANGED liquidity
                          \/ PayIn(r, x) /\ UNCHANGED aToken
                    \/ /\ \/ BurnStableDebt(v, r, x) /\ MintVariableDebt(v, r, x)
                          \/ BurnVariableDebt(v, r, x) /\ MintStableDebt(v, r, x)
                       /\ UNCHANGED <<aToken, liquidity>>
<1>1. PICK v \in Users, r \in Reserves, mode \in InterestRateModes :
          \/ \E x \in Amounts : Borrow(v, r, x, mode)
          \/ \E x \in Requests, useATokens \in BOOLEAN : Repay(v, r, x, mode, useATokens)
          \/ SwapBorrowRateMode(v, r, mode)
  BY DEF BorrowerCall
<1> DEFINE Opened(x) == /\ \/ MintStableDebt(v, r, x) /\ UNCHANGED variableDebtToken
                           \/ MintVariableDebt(v, r, x) /\ UNCHANGED stableDebt
                        /\ PayOut(r, x) /\ UNCHANGED aToken
           Repaid(x) == /\ \/ BurnStableDebt(v, r, x) /\ UNCHANGED variableDebtToken
                           \/ BurnVariableDebt(v, r, x) /\ UNCHANGED stableDebt
                        /\ \/ BurnAToken(v, r, x) /\ UNCHANGED liquidity
                           \/ PayIn(r, x) /\ UNCHANGED aToken
           Swapped(x) == /\ \/ BurnStableDebt(v, r, x) /\ MintVariableDebt(v, r, x)
                            \/ BurnVariableDebt(v, r, x) /\ MintStableDebt(v, r, x)
                         /\ UNCHANGED <<aToken, liquidity>>
<1>2. ASSUME NEW x \in Amounts, Borrow(v, r, x, mode)
      PROVE  UNCHANGED reserveFrame /\ Operational(r) /\ x \in Nat /\ Opened(x)
  BY <1>2, StorageAssumption DEF Borrow, ExecuteBorrow, ValidateBorrow, OpenDebt, reserveFrame
<1>3. ASSUME NEW x \in Requests, NEW useATokens, Repay(v, r, x, mode, useATokens)
      PROVE  UNCHANGED reserveFrame /\ Operational(r) /\ \E y \in Nat : Repaid(y)
  <2> DEFINE offered == IF useATokens /\ x = MaxUint256 THEN BalanceOf(v, r) ELSE x
             payback == AtMost(offered, IF mode = STABLE THEN stableDebt[v][r]
                                                         ELSE VariableDebtOf(v, r))
  <2>1. payback \in Nat
    <3>1. offered \in Nat
      BY RequestNat, BalanceNat DEF Accounts
    <3>2. (IF mode = STABLE THEN stableDebt[v][r] ELSE VariableDebtOf(v, r)) \in Nat
      BY DebtNat
    <3> QED
      BY <3>1, <3>2, AtMostNat
  <2>2. /\ UNCHANGED reserveFrame /\ Operational(r)
        /\ Repaid(payback)
    BY <1>3 DEF Repay, Settle, ValidateRepay, reserveFrame
  <2> HIDE DEF payback, Repaid
  <2> QED
    BY <2>1, <2>2
<1>4. ASSUME SwapBorrowRateMode(v, r, mode)
      PROVE  UNCHANGED reserveFrame /\ Operational(r) /\ \E y \in Nat : Swapped(y)
  <2>1. stableDebt[v][r] \in Nat /\ VariableDebtOf(v, r) \in Nat
    BY DebtNat
  <2>2. UNCHANGED reserveFrame /\ Operational(r)
    BY <1>4 DEF SwapBorrowRateMode, ValidateSwapRateMode, reserveFrame
  <2>3. Swapped(stableDebt[v][r]) \/ Swapped(VariableDebtOf(v, r))
    BY <1>4 DEF SwapBorrowRateMode
  <2> HIDE DEF Swapped
  <2> QED
    BY <2>1, <2>2, <2>3
<1> HIDE DEF Opened, Repaid, Swapped
<1>5. /\ UNCHANGED reserveFrame /\ Operational(r)
      /\ \E x \in Nat : Opened(x) \/ Repaid(x) \/ Swapped(x)
  BY <1>1, <1>2, <1>3, <1>4
<1> QED
  BY <1>5 DEF Opened, Repaid, Swapped

(* What a liquidation burns of the debt, takes of the collateral and moves *)
(* of the underlying.                                                      *)
LiquidationMoves(liquidator, v, rc, rd) ==
    \E covered, seized, fee \in Nat, receiveAToken \in BOOLEAN :
        /\ BurnDebtTokens(v, rd, covered)
        /\ SeizeATokens(liquidator, v, rc, seized, fee, receiveAToken)
        /\ receiveAToken \/ seized <= liquidity[rc]
        /\ liquidity' = [r \in Reserves |->
               liquidity[r] - (IF r = rc /\ ~receiveAToken THEN seized ELSE 0)
                            + (IF r = rd THEN covered ELSE 0)]

LEMMA LiquidationFlows ==
    ASSUME TypeOK, NEW liquidator \in Users, NEW v \in Users, NEW rc \in Reserves,
           NEW rd \in Reserves, NEW x \in Requests, NEW receiveAToken \in BOOLEAN,
           LiquidationCall(liquidator, v, rc, rd, x, receiveAToken)
    PROVE  LiquidationMoves(liquidator, v, rc, rd)
<1> DEFINE eMode == eModeCategory[v]
           balance == BalanceOf(v, rc)
           quote == SeizedAndRepaid(rc, rd, eMode, DebtToLiquidate(v, rd, x), balance)
           fee == LiquidationProtocolFee(rc, eMode, quote.collateral)
           seized == quote.collateral - fee
           debt == quote.debt
<1>1. /\ BurnDebtTokens(v, rd, debt)
      /\ SeizeATokens(liquidator, v, rc, seized, fee, receiveAToken)
      /\ LiquidationBonus(eMode, rc) # 0 /\ fee \in 0..quote.collateral
      /\ receiveAToken \/ seized <= liquidity[rc]
      /\ liquidity' = [r \in Reserves |->
             liquidity[r] - (IF r = rc /\ ~receiveAToken THEN seized ELSE 0)
                          + (IF r = rd THEN debt ELSE 0)]
  BY DEF LiquidationCall
<1>2. /\ x \in Nat /\ v \in Accounts /\ eMode \in Categories \cup {NoCategory}
  BY RequestNat DEF Accounts, TypeOK
<1>3. balance \in Nat /\ DebtToLiquidate(v, rd, x) \in Nat
  BY <1>2, BalanceNat, DebtToLiquidateNat
<1>4. quote.collateral \in Nat /\ debt \in Nat
  <2>1. quote.collateral \in 0..balance /\ debt \in Nat
    <3> HIDE DEF eMode, balance
    <3> QED
      BY <1>1, <1>2, <1>3, QuoteNat
  <2> HIDE DEF quote, balance
  <2> QED
    BY <1>3, <2>1
<1>5. seized \in Nat /\ fee \in Nat
  <2> HIDE DEF quote, fee
  <2> QED
    BY <1>1, <1>4
<1> HIDE DEF seized, fee, quote, debt
<1> QED
  BY <1>1, <1>4, <1>5 DEF LiquidationMoves

LEMMA LiquidatorFlows ==
    ASSUME TypeOK, LiquidatorCall
    PROVE  /\ UNCHANGED reserveFrame
           /\ \E liquidator, v \in Users, rc, rd \in Reserves :
                 /\ Operational(rc) /\ Operational(rd)
                 /\ LiquidationMoves(liquidator, v, rc, rd)
<1>1. PICK liquidator \in Users, v \in Users, rc \in Reserves, rd \in Reserves,
           x \in Requests, receiveAToken \in BOOLEAN :
          LiquidationCall(liquidator, v, rc, rd, x, receiveAToken)
  BY DEF LiquidatorCall
<1>2. UNCHANGED reserveFrame /\ Operational(rc) /\ Operational(rd)
  BY <1>1 DEF LiquidationCall, ValidateLiquidationCall, reserveFrame
<1> QED
  BY <1>1, <1>2, LiquidationFlows

(* The debt a liquidation burns, in the two tokens.                        *)
LEMMA DebtBurned ==
    ASSUME TypeOK, NEW v \in Users, NEW rd \in Reserves, NEW covered \in Nat,
           BurnDebtTokens(v, rd, covered)
    PROVE  \/ BurnVariableDebt(v, rd, covered) /\ UNCHANGED stableDebt
           \/ BurnStableDebt(v, rd, covered) /\ UNCHANGED variableDebtToken
           \/ \E y, z \in Nat : /\ y + z = covered
                                /\ BurnVariableDebt(v, rd, y) /\ BurnStableDebt(v, rd, z)
<1> DEFINE variable == VariableDebtOf(v, rd)
<1>1. variable \in Nat
  BY DebtNat
<1>2. CASE BurnVariableDebt(v, rd, covered) /\ UNCHANGED stableDebt
  BY <1>2
<1>3. CASE /\ variable < covered
           /\ BurnStableDebt(v, rd, covered - variable)
           /\ IF variable # 0 THEN BurnVariableDebt(v, rd, variable)
                              ELSE UNCHANGED variableDebtToken
  <2>1. covered - variable \in Nat /\ variable + (covered - variable) = covered
    BY <1>1, <1>3
  <2>2. CASE variable # 0
    BY <1>1, <1>3, <2>1, <2>2
  <2>3. CASE variable = 0
    <3>1. covered - variable = covered
      BY <2>3
    <3> QED
      BY <1>3, <2>3, <3>1
  <2> QED
    BY <2>2, <2>3
<1> QED
  BY <1>2, <1>3 DEF BurnDebtTokens

LEMMA OtherFlows ==
    ASSUME TypeOK, OtherCall
    PROVE  \/ UNCHANGED <<reserveFrame, aToken, debtTokens, liquidity>>
           \/ \E v \in Users, r \in Reserves, x \in Nat :
                 /\ Operational(r)
                 /\ MintAToken(v, r, x) /\ unbacked' = [unbacked EXCEPT ![r] = @ + x]
                 /\ UNCHANGED <<indices, accruedToTreasury, liquidity, debtTokens>>
           \/ \E r \in Reserves, x \in Amounts, fee \in Fees : BackUnbacked(r, x, fee)
           \/ \E r \in Reserves : MintToTreasury(r)
<1>1. ASSUME NEW u, NEW c, SetUserEMode(u, c)
      PROVE  UNCHANGED <<reserveFrame, aToken, debtTokens, liquidity>>
  BY <1>1 DEF SetUserEMode, reserveFrame
<1>2. ASSUME NEW v \in Users, NEW r \in Reserves, NEW x \in Amounts, MintUnbacked(v, r, x)
      PROVE  /\ x \in Nat /\ Operational(r)
             /\ MintAToken(v, r, x) /\ unbacked' = [unbacked EXCEPT ![r] = @ + x]
             /\ UNCHANGED <<indices, accruedToTreasury, liquidity, debtTokens>>
  BY <1>2, StorageAssumption DEF MintUnbacked, ValidateSupply
<1> QED
  BY <1>1, <1>2 DEF OtherCall

-----------------------------------------------------------------------------
(* The supplies add up.                                                    *)

LEMMA SuppliesParts == SuppliesAddUp <=> ATokensAddUp /\ VariableDebtsAddUp
BY DEF SuppliesAddUp, ATokensAddUp, VariableDebtsAddUp

LEMMA SuppliesKept ==
    /\ ATokensAddUp /\ UNCHANGED aToken => ATokensAddUp'
    /\ VariableDebtsAddUp /\ UNCHANGED <<scaledVariableDebt, variableDebtSupply>>
          => VariableDebtsAddUp'
BY DEF ATokensAddUp, VariableDebtsAddUp, aToken

LEMMA AddUpStep ==
    ASSUME TypeOK, ATokensAddUp, VariableDebtsAddUp, [Next]_vars
    PROVE  ATokensAddUp' /\ VariableDebtsAddUp'
<1>1. \A v \in Users : v \in Accounts
  BY DEF Accounts
<1>2. Treasury \in Accounts
  BY DEF Accounts
<1>3. CASE UNCHANGED vars
  BY <1>3, SuppliesKept DEF vars, debtTokens
<1>4. CASE SupplierCall
  <2>1. UNCHANGED debtTokens
    BY <1>4, SupplierFlows
  <2>2. ASSUME NEW v \in Users, NEW to \in Users, NEW r \in Reserves, NEW scaled \in Nat,
               scaled <= scaledBalance[v][r],
               scaledBalance' = Moved(scaledBalance, v, to, r, scaled),
               UNCHANGED aTokenSupply
        PROVE  ATokensAddUp'
    <3>1. scaledBalance \in [Accounts -> [Reserves -> Nat]]
      BY DEF TypeOK
    <3>2. \A q \in Reserves : Total(scaledBalance', q) = Total(scaledBalance, q)
      BY <1>1, <2>2, <3>1, TotalsAfterMove
    <3> QED
      BY <2>2, <3>2 DEF ATokensAddUp
  <2> QED
    BY <1>1, <1>4, <2>1, <2>2, SupplierFlows, ATokenWrite, SuppliesKept DEF debtTokens
<1>5. CASE BorrowerCall
  BY <1>1, <1>5, BorrowerFlows, ATokenWrite, VariableDebtWrite, SuppliesKept
  DEF variableDebtToken
<1>6. CASE LiquidatorCall
  BY <1>6, LiquidatorFlows, DebtBurned, SeizureWrite, VariableDebtWrite, SuppliesKept
  DEF LiquidationMoves, variableDebtToken
<1>7. CASE OtherCall
  <2>1. ASSUME NEW r, NEW x, NEW fee, BackUnbacked(r, x, fee)
        PROVE  UNCHANGED <<aToken, debtTokens>>
    BY <2>1 DEF BackUnbacked
  <2>2. ASSUME NEW r \in Reserves, MintToTreasury(r)
        PROVE  ATokensAddUp' /\ UNCHANGED debtTokens
    <3>1. rayMul(accruedToTreasury[r], liquidityIndex[r]) \in Nat
      BY IndexFacts, RayMulNat DEF TypeOK
    <3> QED
      BY <1>2, <2>2, <3>1, ATokenWrite DEF MintToTreasury
  <2> QED
    BY <1>1, <1>7, <2>1, <2>2, OtherFlows, ATokenWrite, SuppliesKept DEF debtTokens
<1>8. CASE Environment
  BY <1>8, SuppliesKept
  DEF Environment, Accrue, AccrueStable, SetPrice, SequencerChange, debtTokens,
      variableDebtToken
<1> QED
  BY <1>3, <1>4, <1>5, <1>6, <1>7, <1>8 DEF Next, PoolCall

LEMMA InitAddsUp ==
    ASSUME Init
    PROVE  ATokensAddUp /\ VariableDebtsAddUp
<1>1. ASSUME NEW r \in Reserves PROVE Total(scaledBalance, r) = 0
  <2>1. DOMAIN scaledBalance = Accounts /\ \A a \in Accounts : scaledBalance[a][r] = 0
    BY DEF Init
  <2> QED
    BY <2>1, TotalOfNothing
<1>2. ASSUME NEW r \in Reserves PROVE Total(scaledVariableDebt, r) = 0
  <2>1. DOMAIN scaledVariableDebt = Users /\ \A u \in Users : scaledVariableDebt[u][r] = 0
    BY DEF Init
  <2> QED
    BY <2>1, TotalOfNothing
<1> QED
  BY <1>1, <1>2 DEF Init, ATokensAddUp, VariableDebtsAddUp

(* However many users there are and whatever they do, the total supplies   *)
(* of the aToken and of the variable debt token are the sums of what the   *)
(* holders have, the treasury included (ScaledBalanceTokenBase.sol).       *)
THEOREM SuppliesAlwaysAddUp == Spec => []SuppliesAddUp
<1>1. Init => SuppliesAddUp
  BY InitAddsUp, SuppliesParts
<1>2. TypeOK /\ SuppliesAddUp /\ [Next]_vars => SuppliesAddUp'
  <2>1. SuppliesAddUp' <=> ATokensAddUp' /\ VariableDebtsAddUp'
    BY DEF SuppliesAddUp, ATokensAddUp, VariableDebtsAddUp
  <2> QED
    BY <2>1, AddUpStep, SuppliesParts
<1> QED
  BY <1>1, <1>2, TypeCorrect, PTL DEF Spec

-----------------------------------------------------------------------------
(* Solvency.  What a step adds to each part of a reserve's books, in ray;  *)
(* the net of them is what it adds to the claims nobody backs.             *)
ATokenFlow(r) == (aTokenSupply'[r] - aTokenSupply[r]) * liquidityIndex[r]
TreasuryFlow(r) == (accruedToTreasury'[r] - accruedToTreasury[r]) * liquidityIndex[r]
VariableFlow(r) == (variableDebtSupply'[r] - variableDebtSupply[r]) * variableBorrowIndex[r]
StableFlow(r) == (TotalStableDebt(r)' - TotalStableDebt(r)) * RAY
LiquidityFlow(r) == (liquidity'[r] - liquidity[r]) * RAY
UnbackedFlow(r) == (unbacked'[r] - unbacked[r]) * RAY

NetFlow(r) ==
    ATokenFlow(r) + TreasuryFlow(r) - VariableFlow(r) - StableFlow(r)
      - LiquidityFlow(r) - UnbackedFlow(r)
WithinRounding(r) == NetFlow(r) <= RoundingSlack(r)

(* A token's flow is worth the amount x up to half a scaled unit.          *)
Worth(flow, x, index) ==
    /\ flow - x * RAY <= index \div 2
    /\ x * RAY - flow <= index \div 2

LEMMA BooksNat ==
    ASSUME TypeOK, NEW r \in Reserves
    PROVE  /\ liquidityIndex[r] \in Nat /\ variableBorrowIndex[r] \in Nat
           /\ aTokenSupply[r] \in Nat /\ accruedToTreasury[r] \in Nat
           /\ variableDebtSupply[r] \in Nat /\ TotalStableDebt(r) \in Nat
           /\ liquidity[r] \in Nat /\ unbacked[r] \in Nat
           /\ liquidityIndex[r] # 0 /\ variableBorrowIndex[r] # 0
<1>1. TotalStableDebt(r) \in Nat
  <2>1. stableDebt \in [Users -> [Reserves -> Nat]]
    BY DEF TypeOK
  <2> QED
    BY <2>1, StorageAssumption, TotalNat DEF TotalStableDebt
<1> QED
  BY <1>1, IndexFacts DEF TypeOK

LEMMA BooksNatNext ==
    ASSUME TypeOK', NEW r \in Reserves
    PROVE  /\ liquidityIndex'[r] \in Nat /\ liquidityIndex'[r] # 0
           /\ aTokenSupply'[r] \in Nat /\ accruedToTreasury'[r] \in Nat
           /\ variableDebtSupply'[r] \in Nat /\ TotalStableDebt(r)' \in Nat
           /\ liquidity'[r] \in Nat /\ unbacked'[r] \in Nat
<1>1. TotalStableDebt(r)' \in Nat
  <2> DEFINE c == stableDebt'
  <2>1. c \in [Users -> [Reserves -> Nat]]
    BY DEF TypeOK
  <2>2. Total(c, r) \in Nat
    <3> HIDE DEF c
    <3> QED
      BY <2>1, StorageAssumption, TotalNat
  <2> QED
    BY <2>2 DEF TotalStableDebt
<1> QED
  BY <1>1, ScaleAssumption, PoolAssumption DEF TypeOK

LEMMA FlowsInt ==
    ASSUME TypeOK, TypeOK', NEW r \in Reserves
    PROVE  /\ ATokenFlow(r) \in Int /\ TreasuryFlow(r) \in Int /\ VariableFlow(r) \in Int
           /\ StableFlow(r) \in Int /\ LiquidityFlow(r) \in Int /\ UnbackedFlow(r) \in Int
BY BooksNat, BooksNatNext, ScaleAssumption
DEF ATokenFlow, TreasuryFlow, VariableFlow, StableFlow, LiquidityFlow, UnbackedFlow

(* The flows net to the change of Claims less Backing.                     *)
LEMMA FlowsNet ==
    ASSUME TypeOK, TypeOK', NEW r \in Reserves, liquidityIndex'[r] = liquidityIndex[r],
           variableBorrowIndex'[r] = variableBorrowIndex[r]
    PROVE  /\ Claims(r)' - Backing(r)' = Claims(r) - Backing(r) + NetFlow(r)
           /\ Claims(r) - Backing(r) \in Int
<1> DEFINE i == liquidityIndex[r]
           j == variableBorrowIndex[r]
           D == TotalStableDebt(r)
           E == TotalStableDebt(r)'
           S == aTokenSupply[r]
           T == accruedToTreasury[r]
           L == liquidity[r]
           U == unbacked[r]
           V == variableDebtSupply[r]
           s == aTokenSupply'[r]
           t == accruedToTreasury'[r]
           l == liquidity'[r]
           u == unbacked'[r]
           v == variableDebtSupply'[r]
<1>1. /\ i \in Nat /\ j \in Nat /\ D \in Nat /\ E \in Nat /\ S \in Nat /\ T \in Nat
      /\ L \in Nat /\ U \in Nat /\ V \in Nat /\ s \in Nat /\ t \in Nat /\ l \in Nat
      /\ u \in Nat /\ v \in Nat /\ RAY \in Nat
  BY BooksNat, BooksNatNext, ScaleAssumption
<1>2. NetFlow(r) = (s - S) * i + (t - T) * i - (v - V) * j - (E - D) * RAY - (l - L) * RAY
                     - (u - U) * RAY
  BY DEF NetFlow, ATokenFlow, TreasuryFlow, VariableFlow, StableFlow, LiquidityFlow,
         UnbackedFlow
<1>3. /\ Claims(r) = (S + T) * i /\ Claims(r)' = (s + t) * i
      /\ Backing(r) = (L + D + U) * RAY + V * j
      /\ Backing(r)' = (l + E + u) * RAY + v * j
  BY DEF Claims, Backing
<1> HIDE DEF i, j, D, E, S, T, L, U, V, s, t, l, u, v
<1>4. (s + t) * i - ((l + E + u) * RAY + v * j)
        = (S + T) * i - ((L + D + U) * RAY + V * j)
            + ((s - S) * i + (t - T) * i - (v - V) * j - (E - D) * RAY - (l - L) * RAY
                 - (u - U) * RAY)
  BY <1>1
<1>5. (S + T) * i - ((L + D + U) * RAY + V * j) \in Int
  BY <1>1
<1> QED
  BY <1>2, <1>3, <1>4, <1>5

LEMMA FlowsBalance ==
    ASSUME TypeOK, TypeOK', NEW r \in Reserves, liquidityIndex'[r] = liquidityIndex[r],
           variableBorrowIndex'[r] = variableBorrowIndex[r], WithinRounding(r)
    PROVE  Claims(r)' - Backing(r)' <= Claims(r) - Backing(r) + RoundingSlack(r)
<1>1. NetFlow(r) \in Int /\ RoundingSlack(r) \in Int
  BY FlowsInt, BooksNat DEF NetFlow, RoundingSlack
<1> QED
  BY <1>1, FlowsNet DEF WithinRounding

LEMMA HalvesFit ==
    ASSUME TypeOK, NEW r \in Reserves
    PROVE  /\ liquidityIndex[r] \div 2 \in Nat /\ variableBorrowIndex[r] \div 2 \in Nat
           /\ RoundingSlack(r) \in Nat
           /\ liquidityIndex[r] \div 2 + variableBorrowIndex[r] \div 2 <= RoundingSlack(r)
BY BooksNat DEF RoundingSlack

(* What each token operation flows.                                        *)
LEMMA ATokenFlows ==
    ASSUME TypeOK, NEW a \in Accounts, NEW r \in Reserves, NEW x \in Nat
    PROVE  /\ MintAToken(a, r, x) => \A q \in Reserves :
                 IF q = r THEN Worth(ATokenFlow(q), x, liquidityIndex[q])
                          ELSE ATokenFlow(q) = 0
           /\ BurnAToken(a, r, x) => \A q \in Reserves :
                 IF q = r THEN Worth(-ATokenFlow(q), x, liquidityIndex[q])
                          ELSE ATokenFlow(q) = 0
<1> DEFINE i == liquidityIndex[r]
           n == rayDiv(x, i)
<1>1. i \in Nat \ {0} /\ n \in Nat
  BY IndexFacts, ScaledNat
<1>2. n * i - x * RAY <= i \div 2 /\ x * RAY - n * i <= i \div 2
  BY <1>1, RayDivRounds
<1>3. /\ MintAToken(a, r, x) => aTokenSupply' = [aTokenSupply EXCEPT ![r] = @ + n]
      /\ BurnAToken(a, r, x) => aTokenSupply' = [aTokenSupply EXCEPT ![r] = @ - n]
  BY DEF MintAToken, BurnAToken
<1>4. aTokenSupply \in [Reserves -> Nat] /\ \A q \in Reserves : liquidityIndex[q] \in Nat
  BY BooksNat DEF TypeOK
<1>5. x * RAY \in Int /\ n * i \in Int
  BY <1>1, ScaleAssumption
<1> HIDE DEF n
<1>6. ASSUME MintAToken(a, r, x), NEW q \in Reserves
      PROVE  ATokenFlow(q) = IF q = r THEN n * i ELSE 0
  BY <1>1, <1>3, <1>4, <1>6 DEF ATokenFlow
<1>7. ASSUME BurnAToken(a, r, x), NEW q \in Reserves
      PROVE  -ATokenFlow(q) = IF q = r THEN n * i ELSE 0
  BY <1>1, <1>3, <1>4, <1>7 DEF ATokenFlow
<1>8. ASSUME BurnAToken(a, r, x), NEW q \in Reserves
      PROVE  ATokenFlow(q) \in Int
  BY <1>1, <1>3, <1>4, <1>8 DEF ATokenFlow
<1> QED
  BY <1>2, <1>5, <1>6, <1>7, <1>8 DEF Worth

LEMMA VariableDebtFlows ==
    ASSUME TypeOK, NEW v \in Users, NEW r \in Reserves, NEW x \in Nat
    PROVE  /\ MintVariableDebt(v, r, x) => \A q \in Reserves :
                 IF q = r THEN Worth(VariableFlow(q), x, variableBorrowIndex[q])
                          ELSE VariableFlow(q) = 0
           /\ BurnVariableDebt(v, r, x) => \A q \in Reserves :
                 IF q = r THEN Worth(-VariableFlow(q), x, variableBorrowIndex[q])
                          ELSE VariableFlow(q) = 0
<1> DEFINE i == variableBorrowIndex[r]
           n == rayDiv(x, i)
<1>1. i \in Nat \ {0} /\ n \in Nat
  BY IndexFacts, ScaledNat
<1>2. n * i - x * RAY <= i \div 2 /\ x * RAY - n * i <= i \div 2
  BY <1>1, RayDivRounds
<1>3. /\ MintVariableDebt(v, r, x) =>
             variableDebtSupply' = [variableDebtSupply EXCEPT ![r] = @ + n]
      /\ BurnVariableDebt(v, r, x) =>
             variableDebtSupply' = [variableDebtSupply EXCEPT ![r] = @ - n]
  BY DEF MintVariableDebt, BurnVariableDebt
<1>4. /\ variableDebtSupply \in [Reserves -> Nat]
      /\ \A q \in Reserves : variableBorrowIndex[q] \in Nat
  BY BooksNat DEF TypeOK
<1>5. x * RAY \in Int /\ n * i \in Int
  BY <1>1, ScaleAssumption
<1> HIDE DEF n
<1>6. ASSUME MintVariableDebt(v, r, x), NEW q \in Reserves
      PROVE  VariableFlow(q) = IF q = r THEN n * i ELSE 0
  BY <1>1, <1>3, <1>4, <1>6 DEF VariableFlow
<1>7. ASSUME BurnVariableDebt(v, r, x), NEW q \in Reserves
      PROVE  /\ -VariableFlow(q) = IF q = r THEN n * i ELSE 0
             /\ VariableFlow(q) \in Int
  BY <1>1, <1>3, <1>4, <1>7 DEF VariableFlow
<1> QED
  BY <1>2, <1>5, <1>6, <1>7 DEF Worth

(* The debt in stable mode moves by the amount exactly.                    *)
LEMMA StableDebtFlows ==
    ASSUME TypeOK, TypeOK', NEW v \in Users, NEW r \in Reserves, NEW x \in Nat
    PROVE  /\ MintStableDebt(v, r, x) => \A q \in Reserves :
                 StableFlow(q) = IF q = r THEN x * RAY ELSE 0
           /\ BurnStableDebt(v, r, x) => \A q \in Reserves :
                 StableFlow(q) = IF q = r THEN -(x * RAY) ELSE 0
<1> DEFINE b == stableDebt
           c == stableDebt'
<1>1. b \in [Users -> [Reserves -> Nat]] /\ c \in [Users -> [Reserves -> Nat]]
  BY DEF TypeOK
<1>2. /\ MintStableDebt(v, r, x) => c = [b EXCEPT ![v][r] = @ + x]
      /\ BurnStableDebt(v, r, x) => c = [b EXCEPT ![v][r] = @ - x]
  BY DEF MintStableDebt, BurnStableDebt
<1>3. \A q \in Reserves : /\ TotalStableDebt(q) = Total(b, q)
                          /\ TotalStableDebt(q)' = Total(c, q)
  BY DEF TotalStableDebt
<1> HIDE DEF b, c
<1>4. \A q \in Reserves : Total(b, q) \in Nat
  BY <1>1, StorageAssumption, TotalNat
<1>5. ASSUME EntryWritten(Users, b, c, v, r)
      PROVE  \A q \in Reserves :
                 Total(c, q) = Total(b, q) + (IF q = r THEN c[v][r] - b[v][r] ELSE 0)
  BY <1>5, StorageAssumption, TotalsAfterWrite
<1>6. RAY \in Nat
  BY ScaleAssumption
<1>7. ASSUME MintStableDebt(v, r, x), NEW q \in Reserves
      PROVE  StableFlow(q) = IF q = r THEN x * RAY ELSE 0
  <2>1. EntryWritten(Users, b, c, v, r) /\ c[v][r] - b[v][r] = x
    BY <1>1, <1>2, <1>7 DEF EntryWritten
  <2> QED
    BY <1>3, <1>4, <1>5, <1>6, <2>1 DEF StableFlow
<1>8. ASSUME BurnStableDebt(v, r, x), NEW q \in Reserves
      PROVE  StableFlow(q) = IF q = r THEN -(x * RAY) ELSE 0
  <2>1. EntryWritten(Users, b, c, v, r) /\ c[v][r] - b[v][r] = -x
    BY <1>1, <1>2, <1>8 DEF EntryWritten
  <2> QED
    BY <1>3, <1>4, <1>5, <1>6, <2>1 DEF StableFlow
<1> QED
  BY <1>7, <1>8

LEMMA LiquidityFlows ==
    ASSUME TypeOK, NEW r \in Reserves, NEW x \in Nat
    PROVE  /\ PayIn(r, x) => \A q \in Reserves :
                 LiquidityFlow(q) = IF q = r THEN x * RAY ELSE 0
           /\ PayOut(r, x) => \A q \in Reserves :
                 LiquidityFlow(q) = IF q = r THEN -(x * RAY) ELSE 0
<1>1. RAY \in Nat /\ liquidity \in [Reserves -> Nat]
  BY ScaleAssumption DEF TypeOK
<1>2. ASSUME PayIn(r, x), NEW q \in Reserves
      PROVE  LiquidityFlow(q) = IF q = r THEN x * RAY ELSE 0
  BY <1>1, <1>2 DEF PayIn, LiquidityFlow
<1>3. ASSUME PayOut(r, x), NEW q \in Reserves
      PROVE  LiquidityFlow(q) = IF q = r THEN -(x * RAY) ELSE 0
  BY <1>1, <1>3 DEF PayOut, LiquidityFlow
<1> QED
  BY <1>2, <1>3

(* What is left alone flows nothing.                                       *)
LEMMA NoFlow ==
    ASSUME TypeOK, NEW r \in Reserves
    PROVE  /\ aTokenSupply' = aTokenSupply => ATokenFlow(r) = 0
           /\ accruedToTreasury' = accruedToTreasury => TreasuryFlow(r) = 0
           /\ UNCHANGED variableDebtToken => VariableFlow(r) = 0
           /\ UNCHANGED stableDebt => StableFlow(r) = 0
           /\ liquidity' = liquidity => LiquidityFlow(r) = 0
           /\ unbacked' = unbacked => UnbackedFlow(r) = 0
<1>1. /\ liquidityIndex[r] \in Nat /\ variableBorrowIndex[r] \in Nat /\ RAY \in Nat
      /\ aTokenSupply[r] \in Nat /\ accruedToTreasury[r] \in Nat
      /\ variableDebtSupply[r] \in Nat /\ TotalStableDebt(r) \in Nat
      /\ liquidity[r] \in Nat /\ unbacked[r] \in Nat
  BY BooksNat, ScaleAssumption
<1>2. UNCHANGED stableDebt => TotalStableDebt(r)' = TotalStableDebt(r)
  BY DEF TotalStableDebt
<1>3. \A m, n \in Nat : (m - m) * n = 0
  OBVIOUS
<1> QED
  BY <1>1, <1>2, <1>3 DEF ATokenFlow, TreasuryFlow, VariableFlow, StableFlow, LiquidityFlow,
     UnbackedFlow, variableDebtToken

(* A step that is worth nothing to the reserve, on balance.                *)
LEMMA QuietStep ==
    ASSUME TypeOK, NEW r \in Reserves,
           ATokenFlow(r) = 0, TreasuryFlow(r) = 0, VariableFlow(r) = 0, StableFlow(r) = 0,
           LiquidityFlow(r) = 0, UnbackedFlow(r) = 0
    PROVE  WithinRounding(r)
BY HalvesFit DEF WithinRounding, NetFlow

(* Supplies and withdrawals move as much underlying as the aTokens minted  *)
(* or burned are worth; transfers move none.                               *)
LEMMA SupplierSolvent ==
    ASSUME TypeOK, TypeOK', SupplierCall, NEW q \in Reserves
    PROVE  WithinRounding(q)
<1>1. /\ TreasuryFlow(q) = 0 /\ UnbackedFlow(q) = 0 /\ VariableFlow(q) = 0
      /\ StableFlow(q) = 0
  BY SupplierFlows, NoFlow DEF reserveFrame, debtTokens, variableDebtToken
<1>2. ASSUME NEW v \in Users, NEW r \in Reserves, NEW x \in Nat,
             \/ MintAToken(v, r, x) /\ PayIn(r, x)
             \/ BurnAToken(v, r, x) /\ PayOut(r, x)
      PROVE  WithinRounding(q)
  <2>1. v \in Accounts
    BY DEF Accounts
  <2>2. \/ /\ IF q = r THEN Worth(ATokenFlow(q), x, liquidityIndex[q]) ELSE ATokenFlow(q) = 0
           /\ LiquidityFlow(q) = IF q = r THEN x * RAY ELSE 0
        \/ /\ IF q = r THEN Worth(-ATokenFlow(q), x, liquidityIndex[q]) ELSE ATokenFlow(q) = 0
           /\ LiquidityFlow(q) = IF q = r THEN -(x * RAY) ELSE 0
    BY <1>2, <2>1, ATokenFlows, LiquidityFlows
  <2>3. x * RAY \in Int
    BY ScaleAssumption
  <2> QED
    BY <1>1, <2>2, <2>3, FlowsInt, HalvesFit DEF WithinRounding, NetFlow, Worth
<1>3. ASSUME UNCHANGED <<aTokenSupply, liquidity>> PROVE WithinRounding(q)
  BY <1>1, <1>3, NoFlow, QuietStep
<1> QED
  BY <1>2, <1>3, SupplierFlows DEF aToken

(* A debt opened pays out what it is worth, a repayment pays it in or      *)
(* burns as much in aTokens, a swap trades one debt for the other.         *)
LEMMA BorrowerSolvent ==
    ASSUME TypeOK, TypeOK', BorrowerCall, NEW q \in Reserves
    PROVE  WithinRounding(q)
<1>1. TreasuryFlow(q) = 0 /\ UnbackedFlow(q) = 0
  BY BorrowerFlows, NoFlow DEF reserveFrame
<1>2. PICK v \in Users, r \in Reserves, x \in Nat :
         \/ /\ \/ MintStableDebt(v, r, x) /\ UNCHANGED variableDebtToken
               \/ MintVariableDebt(v, r, x) /\ UNCHANGED stableDebt
            /\ PayOut(r, x) /\ UNCHANGED aToken
         \/ /\ \/ BurnStableDebt(v, r, x) /\ UNCHANGED variableDebtToken
               \/ BurnVariableDebt(v, r, x) /\ UNCHANGED stableDebt
            /\ \/ BurnAToken(v, r, x) /\ UNCHANGED liquidity
               \/ PayIn(r, x) /\ UNCHANGED aToken
         \/ /\ \/ BurnStableDebt(v, r, x) /\ MintVariableDebt(v, r, x)
               \/ BurnVariableDebt(v, r, x) /\ MintStableDebt(v, r, x)
            /\ UNCHANGED <<aToken, liquidity>>
  BY BorrowerFlows
<1>3. v \in Accounts
  BY DEF Accounts
<1> DEFINE VariableIn == IF q = r THEN Worth(VariableFlow(q), x, variableBorrowIndex[q])
                         ELSE VariableFlow(q) = 0
           VariableOut == IF q = r THEN Worth(-VariableFlow(q), x, variableBorrowIndex[q])
                          ELSE VariableFlow(q) = 0
           ATokenOut == IF q = r THEN Worth(-ATokenFlow(q), x, liquidityIndex[q])
                        ELSE ATokenFlow(q) = 0
           amount == IF q = r THEN x * RAY ELSE 0
<1>4. /\ MintVariableDebt(v, r, x) => VariableIn
      /\ BurnVariableDebt(v, r, x) => VariableOut
      /\ UNCHANGED variableDebtToken => VariableFlow(q) = 0
      /\ MintStableDebt(v, r, x) => StableFlow(q) = amount
      /\ BurnStableDebt(v, r, x) => StableFlow(q) = -amount
      /\ UNCHANGED stableDebt => StableFlow(q) = 0
      /\ BurnAToken(v, r, x) => ATokenOut
      /\ UNCHANGED aToken => ATokenFlow(q) = 0
      /\ PayIn(r, x) => LiquidityFlow(q) = amount
      /\ PayOut(r, x) => LiquidityFlow(q) = -amount
      /\ UNCHANGED liquidity => LiquidityFlow(q) = 0
  BY <1>3, VariableDebtFlows, StableDebtFlows, ATokenFlows, LiquidityFlows, NoFlow DEF aToken
<1>5. \/ /\ \/ VariableFlow(q) = 0 /\ StableFlow(q) = amount
            \/ VariableIn /\ StableFlow(q) = 0
         /\ ATokenFlow(q) = 0 /\ LiquidityFlow(q) = -amount
      \/ /\ \/ VariableFlow(q) = 0 /\ StableFlow(q) = -amount
            \/ VariableOut /\ StableFlow(q) = 0
         /\ \/ ATokenOut /\ LiquidityFlow(q) = 0
            \/ ATokenFlow(q) = 0 /\ LiquidityFlow(q) = amount
      \/ /\ \/ VariableIn /\ StableFlow(q) = -amount
            \/ VariableOut /\ StableFlow(q) = amount
         /\ ATokenFlow(q) = 0 /\ LiquidityFlow(q) = 0
  <2> HIDE DEF VariableIn, VariableOut, ATokenOut, amount
  <2> QED
    BY <1>2, <1>4
<1>6. x * RAY \in Int
  BY ScaleAssumption
<1> QED
  BY <1>1, <1>5, <1>6, FlowsInt, HalvesFit DEF WithinRounding, NetFlow, Worth

(* A liquidation burns as much debt as it is paid and as many aTokens as   *)
(* it pays out; the aTokens that change hands keep their worth.            *)
LEMMA SeizureFlow ==
    ASSUME TypeOK, NEW liquidator \in Users, NEW v \in Users, NEW rc \in Reserves,
           NEW seized \in Nat, NEW fee \in Nat, NEW receiveAToken \in BOOLEAN,
           SeizeATokens(liquidator, v, rc, seized, fee, receiveAToken), NEW q \in Reserves
    PROVE  IF q = rc /\ ~receiveAToken THEN Worth(-ATokenFlow(q), seized, liquidityIndex[q])
                                       ELSE ATokenFlow(q) = 0
<1> DEFINE i == liquidityIndex[rc]
           n == rayDiv(seized, i)
<1>1. i \in Nat \ {0} /\ n \in Nat
  BY IndexFacts, ScaledNat
<1>2. n * i - seized * RAY <= i \div 2 /\ seized * RAY - n * i <= i \div 2
  BY <1>1, RayDivRounds
<1>3. aTokenSupply' = IF receiveAToken THEN aTokenSupply ELSE [aTokenSupply EXCEPT ![rc] = @ - n]
  BY DEF SeizeATokens
<1>4. aTokenSupply \in [Reserves -> Nat] /\ liquidityIndex[q] \in Nat
  BY BooksNat DEF TypeOK
<1> HIDE DEF n
<1>5. CASE receiveAToken
  BY <1>3, <1>5, NoFlow
<1>6. CASE ~receiveAToken /\ q # rc
  BY <1>1, <1>3, <1>4, <1>6 DEF ATokenFlow
<1>7. CASE ~receiveAToken /\ q = rc
  <2>1. -ATokenFlow(q) = n * i
    BY <1>1, <1>3, <1>4, <1>7 DEF ATokenFlow
  <2> QED
    BY <1>2, <1>7, <2>1 DEF Worth
<1> QED
  BY <1>5, <1>6, <1>7

LEMMA BurnedDebtFlow ==
    ASSUME TypeOK, TypeOK', NEW v \in Users, NEW rd \in Reserves, NEW covered \in Nat,
           BurnDebtTokens(v, rd, covered), NEW q \in Reserves
    PROVE  IF q = rd
           THEN -VariableFlow(q) - StableFlow(q) - covered * RAY <= variableBorrowIndex[q] \div 2
           ELSE VariableFlow(q) = 0 /\ StableFlow(q) = 0
<1> DEFINE VariableOut(y) == IF q = rd THEN Worth(-VariableFlow(q), y, variableBorrowIndex[q])
                             ELSE VariableFlow(q) = 0
           StableOut(z) == StableFlow(q) = IF q = rd THEN -(z * RAY) ELSE 0
<1>1. ASSUME NEW y \in Nat, BurnVariableDebt(v, rd, y) PROVE VariableOut(y)
  BY <1>1, VariableDebtFlows
<1>2. ASSUME NEW z \in Nat, BurnStableDebt(v, rd, z) PROVE StableOut(z)
  BY <1>2, StableDebtFlows
<1>3. PICK y \in Nat, z \in Nat :
          /\ y + z = covered
          /\ VariableOut(y) \/ (y = 0 /\ VariableFlow(q) = 0)
          /\ StableOut(z) \/ (z = 0 /\ StableFlow(q) = 0)
  <2> HIDE DEF VariableOut, StableOut
  <2>1. covered + 0 = covered /\ 0 + covered = covered
    OBVIOUS
  <2>2. /\ UNCHANGED stableDebt => StableFlow(q) = 0
        /\ UNCHANGED variableDebtToken => VariableFlow(q) = 0
    BY NoFlow
  <2> DEFINE Parts(y, z) == /\ y + z = covered
                            /\ VariableOut(y) \/ (y = 0 /\ VariableFlow(q) = 0)
                            /\ StableOut(z) \/ (z = 0 /\ StableFlow(q) = 0)
  <2>3. CASE BurnVariableDebt(v, rd, covered) /\ UNCHANGED stableDebt
    <3>1. Parts(covered, 0)
      BY <1>1, <2>1, <2>2, <2>3
    <3> QED
      BY <3>1
  <2>4. CASE BurnStableDebt(v, rd, covered) /\ UNCHANGED variableDebtToken
    <3>1. Parts(0, covered)
      BY <1>2, <2>1, <2>2, <2>4
    <3> QED
      BY <3>1
  <2>5. CASE \E y, z \in Nat : /\ y + z = covered
                               /\ BurnVariableDebt(v, rd, y) /\ BurnStableDebt(v, rd, z)
    BY <1>1, <1>2, <2>5
  <2> QED
    BY <2>3, <2>4, <2>5, DebtBurned
<1>4. y * RAY \in Int /\ z * RAY \in Int /\ covered * RAY = y * RAY + z * RAY
  BY <1>3, ScaleAssumption
<1>5. 0 * RAY = 0
  BY ScaleAssumption
<1>6. variableBorrowIndex[q] \div 2 \in Nat
  BY HalvesFit
<1> QED
  BY <1>3, <1>4, <1>5, <1>6, FlowsInt DEF Worth

LEMMA LiquidatorSolvent ==
    ASSUME TypeOK, TypeOK', LiquidatorCall, NEW q \in Reserves
    PROVE  WithinRounding(q)
<1>1. TreasuryFlow(q) = 0 /\ UnbackedFlow(q) = 0
  BY LiquidatorFlows, NoFlow DEF reserveFrame
<1>2. PICK liquidator \in Users, v \in Users, rc \in Reserves, rd \in Reserves :
          LiquidationMoves(liquidator, v, rc, rd)
  BY LiquidatorFlows
<1>3. PICK covered \in Nat, seized \in Nat, fee \in Nat, receiveAToken \in BOOLEAN :
          /\ BurnDebtTokens(v, rd, covered)
          /\ SeizeATokens(liquidator, v, rc, seized, fee, receiveAToken)
          /\ liquidity' = [r \in Reserves |->
                 liquidity[r] - (IF r = rc /\ ~receiveAToken THEN seized ELSE 0)
                              + (IF r = rd THEN covered ELSE 0)]
  BY <1>2 DEF LiquidationMoves
<1> DEFINE paid == IF q = rd THEN covered * RAY ELSE 0
           out == IF q = rc /\ ~receiveAToken THEN seized * RAY ELSE 0
<1>4. -VariableFlow(q) - StableFlow(q) - paid <= variableBorrowIndex[q] \div 2
  BY <1>3, BurnedDebtFlow, HalvesFit
<1>5. ATokenFlow(q) + out <= liquidityIndex[q] \div 2
  <2>1. seized * RAY \in Int
    BY ScaleAssumption
  <2> QED
    BY <1>3, <2>1, SeizureFlow, HalvesFit, FlowsInt DEF Worth
<1>6. LiquidityFlow(q) = paid - out
  <2> DEFINE c == IF q = rd THEN covered ELSE 0
             s == IF q = rc /\ ~receiveAToken THEN seized ELSE 0
  <2>1. c \in Nat /\ s \in Nat /\ paid = c * RAY /\ out = s * RAY
    BY ScaleAssumption
  <2>2. liquidity'[q] = liquidity[q] - s + c
    BY <1>3
  <2>3. liquidity[q] \in Nat /\ RAY \in Nat
    BY BooksNat, ScaleAssumption
  <2> HIDE DEF c, s, paid, out
  <2> QED
    BY <2>1, <2>2, <2>3 DEF LiquidityFlow
<1>7. paid \in Int /\ out \in Int
  BY ScaleAssumption
<1> HIDE DEF paid, out
<1> QED
  BY <1>1, <1>4, <1>5, <1>6, <1>7, FlowsInt, HalvesFit DEF WithinRounding, NetFlow

LEMMA TreasuryFlows ==
    ASSUME TypeOK, NEW r \in Reserves, NEW x \in Nat, NEW scaled,
           scaled = rayDiv(x, liquidityIndex[r]), AccrueToTreasury(r, scaled),
           NEW q \in Reserves
    PROVE  /\ q # r => TreasuryFlow(q) = 0
           /\ q = r => Worth(TreasuryFlow(q), x, liquidityIndex[q])
<1> DEFINE i == liquidityIndex[r]
<1>1. i \in Nat \ {0} /\ scaled \in Nat
  BY IndexFacts, ScaledNat
<1>2. scaled * i - x * RAY <= i \div 2 /\ x * RAY - scaled * i <= i \div 2
  BY <1>1, RayDivRounds
<1>3. accruedToTreasury' = [accruedToTreasury EXCEPT ![r] = @ + scaled]
  BY DEF AccrueToTreasury
<1>4. accruedToTreasury \in [Reserves -> Nat] /\ liquidityIndex[q] \in Nat
  BY BooksNat DEF TypeOK
<1>5. TreasuryFlow(q) = IF q = r THEN scaled * i ELSE 0
  BY <1>1, <1>3, <1>4 DEF TreasuryFlow
<1> QED
  BY <1>2, <1>5 DEF Worth

LEMMA UnbackedFlows ==
    ASSUME TypeOK, NEW r \in Reserves, NEW x \in Int, unbacked' = [unbacked EXCEPT ![r] = @ + x],
           NEW q \in Reserves
    PROVE  UnbackedFlow(q) = IF q = r THEN x * RAY ELSE 0
<1>1. RAY \in Nat /\ unbacked \in [Reserves -> Nat]
  BY ScaleAssumption DEF TypeOK
<1> QED
  BY <1>1 DEF UnbackedFlow

(* aTokens minted unbacked are matched by what is yet to be backed.        *)
LEMMA MintUnbackedSolvent ==
    ASSUME TypeOK, TypeOK', NEW v \in Users, NEW r \in Reserves, NEW x \in Nat,
           MintAToken(v, r, x), unbacked' = [unbacked EXCEPT ![r] = @ + x],
           UNCHANGED <<indices, accruedToTreasury, liquidity, debtTokens>>,
           NEW q \in Reserves
    PROVE  WithinRounding(q)
<1>1. /\ TreasuryFlow(q) = 0 /\ VariableFlow(q) = 0 /\ StableFlow(q) = 0
      /\ LiquidityFlow(q) = 0
  BY NoFlow DEF debtTokens, variableDebtToken
<1>2. IF q = r THEN Worth(ATokenFlow(q), x, liquidityIndex[q]) ELSE ATokenFlow(q) = 0
  BY ATokenFlows DEF Accounts
<1>3. UnbackedFlow(q) = IF q = r THEN x * RAY ELSE 0
  <2>1. x \in Int
    OBVIOUS
  <2> QED
    BY <2>1, UnbackedFlows
<1>4. x * RAY \in Int
  BY ScaleAssumption
<1> QED
  BY <1>1, <1>2, <1>3, <1>4, FlowsInt, HalvesFit DEF WithinRounding, NetFlow, Worth

(* While the index stands, backing pays for the protocol's part of the fee *)
(* and leaves the rest of it unclaimed.                                    *)
LEMMA BackUnbackedSolvent ==
    ASSUME TypeOK, TypeOK', NEW r \in Reserves, NEW x \in Amounts, NEW fee \in Fees,
           BackUnbacked(r, x, fee), NEW q \in Reserves, liquidityIndex'[q] = liquidityIndex[q]
    PROVE  WithinRounding(q)
<1> DEFINE backing == Backed(r, x)
           part == percentMul(fee, BridgeProtocolFee)
           index == CumulatedLiquidityIndex(r, TotalLiquidity(r), fee - part)
<1>1. /\ ATokenFlow(q) = 0 /\ VariableFlow(q) = 0 /\ StableFlow(q) = 0
  BY NoFlow DEF BackUnbacked, aToken, debtTokens, variableDebtToken
<1>2. /\ fee \in Nat /\ x \in Nat /\ BridgeProtocolFee \in Nat /\ unbacked[r] \in Nat
  BY StorageAssumption, PoolAssumption DEF TypeOK
<1>3. part \in Nat /\ part <= fee
  BY <1>2, PercentMulNat DEF BackUnbacked
<1>4. backing \in Nat
  BY <1>2, AtMostNat DEF Backed
<1>5. /\ liquidityIndex' = [liquidityIndex EXCEPT ![r] = index]
      /\ AccrueToTreasury(r, rayDiv(part, index))
      /\ unbacked' = [unbacked EXCEPT ![r] = @ - backing]
      /\ PayIn(r, backing + fee)
  BY DEF BackUnbacked
<1> HIDE DEF backing, part, index
<1>6. LiquidityFlow(q) = IF q = r THEN (backing + fee) * RAY ELSE 0
  BY <1>2, <1>4, <1>5, LiquidityFlows
<1>7. UnbackedFlow(q) = IF q = r THEN (-backing) * RAY ELSE 0
  <2>1. -backing \in Int /\ unbacked[r] - backing = unbacked[r] + (-backing)
    BY <1>2, <1>4
  <2>2. unbacked' = [unbacked EXCEPT ![r] = @ + (-backing)]
    BY <1>5, <2>1
  <2> QED
    BY <2>1, <2>2, UnbackedFlows
<1>8. CASE q # r
  <2>1. TreasuryFlow(q) = 0
    BY <1>5, <1>8, BooksNat DEF AccrueToTreasury, TreasuryFlow, TypeOK
  <2> QED
    BY <1>1, <1>6, <1>7, <1>8, <2>1, QuietStep
<1>9. CASE q = r
  <2>1. index = liquidityIndex[r]
    BY <1>5, <1>9 DEF TypeOK
  <2>2. Worth(TreasuryFlow(q), part, liquidityIndex[q])
    BY <1>3, <1>5, <1>9, <2>1, TreasuryFlows
  <2>3. part * RAY <= fee * RAY /\ part * RAY \in Int /\ fee * RAY \in Int
    BY <1>2, <1>3, ProductMonotone, ScaleAssumption
  <2>4. (backing + fee) * RAY = backing * RAY + fee * RAY /\ (-backing) * RAY = -(backing * RAY)
        /\ backing * RAY \in Int
    BY <1>2, <1>4, ScaleAssumption
  <2> QED
    BY <1>1, <1>6, <1>7, <1>9, <2>2, <2>3, <2>4, FlowsInt, HalvesFit
    DEF WithinRounding, NetFlow, Worth
<1> QED
  BY <1>8, <1>9

(* The treasury's accrued share becomes as many aTokens.                   *)
LEMMA MintToTreasurySolvent ==
    ASSUME TypeOK, TypeOK', NEW r \in Reserves, MintToTreasury(r), NEW q \in Reserves
    PROVE  WithinRounding(q)
<1> DEFINE i == liquidityIndex[r]
           n == accruedToTreasury[r]
<1>1. /\ VariableFlow(q) = 0 /\ StableFlow(q) = 0 /\ LiquidityFlow(q) = 0
      /\ UnbackedFlow(q) = 0
  BY NoFlow DEF MintToTreasury, debtTokens, variableDebtToken
<1>2. i \in Nat /\ i >= RAY /\ n \in Nat /\ aTokenSupply[r] \in Nat
  BY IndexFacts, BooksNat
<1>3. rayDiv(rayMul(n, i), i) = n
  BY <1>2, RoundTrip
<1>4. /\ aTokenSupply' = [aTokenSupply EXCEPT ![r] = @ + n]
      /\ accruedToTreasury' = [accruedToTreasury EXCEPT ![r] = 0]
  BY <1>3 DEF MintToTreasury, MintAToken
<1>5. ATokenFlow(q) + TreasuryFlow(q) = 0
  <2>1. /\ aTokenSupply \in [Reserves -> Nat] /\ accruedToTreasury \in [Reserves -> Nat]
        /\ liquidityIndex[q] \in Nat
    BY BooksNat DEF TypeOK
  <2> HIDE DEF i
  <2> QED
    BY <1>2, <1>4, <2>1 DEF ATokenFlow, TreasuryFlow
<1> QED
  BY <1>1, <1>5, HalvesFit, FlowsInt DEF WithinRounding, NetFlow

LEMMA OtherSolvent ==
    ASSUME TypeOK, TypeOK', OtherCall, NEW q \in Reserves, liquidityIndex'[q] = liquidityIndex[q]
    PROVE  WithinRounding(q)
<1>1. CASE UNCHANGED <<reserveFrame, aToken, debtTokens, liquidity>>
  BY <1>1, NoFlow, QuietStep DEF reserveFrame, aToken, debtTokens, variableDebtToken
<1> QED
  BY <1>1, OtherFlows, MintUnbackedSolvent, BackUnbackedSolvent, MintToTreasurySolvent

(* Interest that leaves the indices alone: none on variable debts, and a   *)
(* unit on a stable debt, of which the treasury takes at most that unit.   *)
LEMMA AccrueSolvent ==
    ASSUME TypeOK, TypeOK', NEW r \in Reserves, NEW li, NEW vi, Accrue(r, li, vi),
           NEW q \in Reserves, liquidityIndex'[q] = liquidityIndex[q],
           variableBorrowIndex'[q] = variableBorrowIndex[q]
    PROVE  WithinRounding(q)
<1>1. /\ ATokenFlow(q) = 0 /\ VariableFlow(q) = 0 /\ StableFlow(q) = 0
      /\ LiquidityFlow(q) = 0 /\ UnbackedFlow(q) = 0
  BY NoFlow DEF Accrue, aToken, debtTokens, variableDebtToken
<1> DEFINE share == TreasuryShare(r, rayMul(variableDebtSupply[r], vi)
                        - rayMul(variableDebtSupply[r], variableBorrowIndex[r]), li)
<1>2. AccrueToTreasury(r, share)
  BY DEF Accrue
<1>3. CASE q # r
  <2>1. TreasuryFlow(q) = 0
    BY <1>2, <1>3, BooksNat DEF AccrueToTreasury, TreasuryFlow, TypeOK
  <2> QED
    BY <1>1, <2>1, QuietStep
<1>4. CASE q = r
  <2>1. li = liquidityIndex[r] /\ vi = variableBorrowIndex[r]
    BY <1>4 DEF Accrue, TypeOK
  <2>2. rayMul(variableDebtSupply[r], variableBorrowIndex[r]) \in Nat
    BY BooksNat, RayMulNat
  <2>3. share = TreasuryShare(r, 0, liquidityIndex[r])
    BY <2>1, <2>2
  <2>4. percentMul(0, config[r].reserveFactor) = 0
    <3>1. /\ percentMul(0, config[r].reserveFactor) \in Nat
          /\ percentMul(0, config[r].reserveFactor) <= 0
      BY ConfigFacts, PercentMulBounded
    <3> QED
      BY <3>1
  <2>5. share = rayDiv(0, liquidityIndex[r])
    BY <2>3, <2>4 DEF TreasuryShare
  <2>6. Worth(TreasuryFlow(q), 0, liquidityIndex[q])
    BY <1>2, <1>4, <2>5, TreasuryFlows
  <2>7. 0 * RAY = 0
    BY ScaleAssumption
  <2> QED
    BY <1>1, <1>4, <2>6, <2>7, FlowsInt, HalvesFit DEF WithinRounding, NetFlow, Worth
<1> QED
  BY <1>3, <1>4

LEMMA AccrueStableSolvent ==
    ASSUME TypeOK, TypeOK', NEW v \in Users, NEW r \in Reserves, AccrueStable(v, r),
           NEW q \in Reserves
    PROVE  WithinRounding(q)
<1> DEFINE part == percentMul(1, config[r].reserveFactor)
<1>1. /\ ATokenFlow(q) = 0 /\ VariableFlow(q) = 0
      /\ LiquidityFlow(q) = 0 /\ UnbackedFlow(q) = 0
  BY NoFlow DEF AccrueStable, aToken, variableDebtToken
<1>2. part \in Nat /\ part <= 1
  BY ConfigFacts, PercentMulBounded
<1>3. MintStableDebt(v, r, 1)
  BY DEF AccrueStable, MintStableDebt
<1>4. AccrueToTreasury(r, rayDiv(part, liquidityIndex[r]))
  BY DEF AccrueStable, TreasuryShare
<1>5. StableFlow(q) = IF q = r THEN 1 * RAY ELSE 0
  BY <1>3, StableDebtFlows
<1> HIDE DEF part
<1>6. /\ q # r => TreasuryFlow(q) = 0
      /\ q = r => Worth(TreasuryFlow(q), part, liquidityIndex[q])
  BY <1>2, <1>4, TreasuryFlows
<1>7. part * RAY <= 1 * RAY /\ part * RAY \in Int /\ 1 * RAY \in Int
  BY <1>2, ProductMonotone, ScaleAssumption
<1> QED
  BY <1>1, <1>5, <1>6, <1>7, FlowsInt, HalvesFit DEF WithinRounding, NetFlow, Worth

LEMMA EnvironmentSolvent ==
    ASSUME TypeOK, TypeOK', Environment, NEW q \in Reserves,
           liquidityIndex'[q] = liquidityIndex[q],
           variableBorrowIndex'[q] = variableBorrowIndex[q]
    PROVE  WithinRounding(q)
<1>1. ASSUME UNCHANGED <<accruedToTreasury, unbacked, liquidity, aToken, debtTokens>>
      PROVE  WithinRounding(q)
  BY <1>1, NoFlow, QuietStep DEF aToken, debtTokens, variableDebtToken
<1>2. ASSUME NEW a, NEW p, SetPrice(a, p) PROVE WithinRounding(q)
  BY <1>1, <1>2 DEF SetPrice
<1>3. ASSUME SequencerChange PROVE WithinRounding(q)
  BY <1>1, <1>3 DEF SequencerChange
<1> QED
  BY <1>2, <1>3, AccrueSolvent, AccrueStableSolvent DEF Environment

LEMMA SolventStep ==
    ASSUME TypeOK, [Next]_vars, NEW q \in Reserves, liquidityIndex'[q] = liquidityIndex[q],
           variableBorrowIndex'[q] = variableBorrowIndex[q]
    PROVE  Claims(q)' - Backing(q)' <= Claims(q) - Backing(q) + RoundingSlack(q)
<1>1. TypeOK'
  BY TypeStep
<1> SUFFICES WithinRounding(q)
  BY <1>1, FlowsBalance
<1>2. CASE UNCHANGED vars
  <2>1. UNCHANGED <<aTokenSupply, accruedToTreasury, stableDebt, liquidity, unbacked>>
    BY <1>2 DEF vars, aToken, debtTokens
  <2>2. UNCHANGED variableDebtToken
    BY <1>2 DEF vars, debtTokens, variableDebtToken
  <2> QED
    BY <2>1, <2>2, NoFlow, QuietStep
<1>3. CASE SupplierCall
  BY <1>1, <1>3, SupplierSolvent
<1>4. CASE BorrowerCall
  BY <1>1, <1>4, BorrowerSolvent
<1>5. CASE LiquidatorCall
  BY <1>1, <1>5, LiquidatorSolvent
<1>6. CASE OtherCall
  BY <1>1, <1>6, OtherSolvent
<1>7. CASE Environment
  BY <1>1, <1>7, EnvironmentSolvent
<1> QED
  BY <1>2, <1>3, <1>4, <1>5, <1>6, <1>7 DEF Next, PoolCall

(* No call of the pool, of however many users and amounts, creates claims  *)
(* that nothing backs, beyond half a scaled unit of each token: supplies,  *)
(* withdrawals, borrows, repayments with aTokens, liquidations with their  *)
(* protocol fee, bridge mints and the treasury's mint all balance.         *)
THEOREM SolventWithinRounding == Spec => SolventUpToRounding
<1>1. TypeOK /\ [Next]_vars =>
          [\A r \in Reserves :
              liquidityIndex'[r] = liquidityIndex[r]
              /\ variableBorrowIndex'[r] = variableBorrowIndex[r]
              => Claims(r)' - Backing(r)' <= Claims(r) - Backing(r) + RoundingSlack(r)]_vars
  BY SolventStep
<1> QED
  BY <1>1, TypeCorrect, PTL DEF Spec, SolventUpToRounding

-----------------------------------------------------------------------------
(* Fees.  A payment that moves liquidity and index together is the         *)
(* backing of unbacked aTokens, of that reserve.                           *)
LEMMA OnlyBackingMovesBoth ==
    ASSUME TypeOK, [Next]_vars, NEW q \in Reserves,
           liquidity'[q] # liquidity[q], liquidityIndex'[q] # liquidityIndex[q]
    PROVE  \E x \in Amounts, fee \in Fees : BackUnbacked(q, x, fee)
<1> SUFFICES ASSUME \A x \in Amounts, fee \in Fees : ~BackUnbacked(q, x, fee) PROVE FALSE
  OBVIOUS
<1>1. CASE UNCHANGED indices
  BY <1>1 DEF indices
<1>2. CASE UNCHANGED liquidity
  BY <1>2
<1>3. CASE OtherCall
  <2>1. ASSUME NEW r \in Reserves, NEW x \in Amounts, NEW fee \in Fees, BackUnbacked(r, x, fee)
        PROVE  FALSE
    <3>1. r # q
      BY <2>1
    <3> QED
      BY <2>1, <3>1 DEF BackUnbacked, TypeOK
  <2>2. ASSUME NEW r \in Reserves, MintToTreasury(r) PROVE FALSE
    BY <1>1, <2>2 DEF MintToTreasury
  <2> QED
    BY <1>1, <1>2, <1>3, <2>1, <2>2, OtherFlows DEF reserveFrame
<1>4. CASE Environment
  BY <1>2, <1>4 DEF Environment, Accrue, AccrueStable, SetPrice, SequencerChange
<1>5. CASE SupplierCall
  BY <1>1, <1>5, SupplierFlows DEF reserveFrame
<1>6. CASE BorrowerCall
  BY <1>1, <1>6, BorrowerFlows DEF reserveFrame
<1>7. CASE LiquidatorCall
  BY <1>1, <1>7, LiquidatorFlows DEF reserveFrame
<1>8. CASE UNCHANGED vars
  BY <1>1, <1>8 DEF vars
<1> QED
  BY <1>3, <1>4, <1>5, <1>6, <1>7, <1>8 DEF Next, PoolCall

LEMMA ClaimsInt ==
    ASSUME TypeOK, TypeOK', NEW r \in Reserves
    PROVE  Claims(r) \in Int /\ Claims(r)' \in Int
<1>1. /\ aTokenSupply[r] \in Nat /\ accruedToTreasury[r] \in Nat /\ liquidityIndex[r] \in Nat
      /\ aTokenSupply'[r] \in Nat /\ accruedToTreasury'[r] \in Nat
      /\ liquidityIndex'[r] \in Nat
  BY BooksNat, BooksNatNext
<1> QED
  BY <1>1 DEF Claims

LEMMA BackingInt ==
    ASSUME TypeOK, TypeOK', NEW r \in Reserves
    PROVE  Backing(r) \in Int /\ Backing(r)' \in Int
<1>1. /\ liquidity[r] \in Nat /\ TotalStableDebt(r) \in Nat /\ unbacked[r] \in Nat
      /\ variableDebtSupply[r] \in Nat /\ variableBorrowIndex[r] \in Nat
      /\ liquidity'[r] \in Nat /\ TotalStableDebt(r)' \in Nat /\ unbacked'[r] \in Nat
      /\ variableDebtSupply'[r] \in Nat /\ variableBorrowIndex'[r] \in Nat
      /\ RAY \in Nat
  BY BooksNat, BooksNatNext, ScaleAssumption, PoolAssumption DEF TypeOK
<1> QED
  BY <1>1 DEF Backing

LEMMA FeeSlackInt ==
    ASSUME TypeOK, TypeOK', NEW r \in Reserves, TotalLiquidity(r) # 0, NEW fee \in Nat
    PROVE  FeeSlack(r, fee) \in Int
<1> DEFINE S == rayMul(aTokenSupply[r], liquidityIndex[r])
           T == rayMul(accruedToTreasury[r], liquidityIndex[r])
<1>1. S \in Nat /\ T \in Nat
  BY BooksNat, RayMulNat
<1>2. TotalLiquidity(r) = S + T
  BY DEF TotalLiquidity
<1>3. /\ aTokenSupply[r] \in Nat /\ accruedToTreasury[r] \in Nat
      /\ liquidityIndex'[r] \in Nat /\ fee * RAY \in Int
  BY BooksNat, BooksNatNext, ScaleAssumption
<1>4. FeeSlack(r, fee) = (fee * RAY) \div (S + T)
          + ((S + T) + (aTokenSupply[r] + accruedToTreasury[r]) + liquidityIndex'[r]) \div 2 + 2
  BY DEF FeeSlack
<1> HIDE DEF S, T
<1> QED
  BY <1>1, <1>2, <1>3, <1>4

(* A fee of which p goes to the protocol is shared out by a new index: the *)
(* shares S and T, s of the fee for them.                                  *)
LEMMA FeeSpread ==
    ASSUME TypeOK, TypeOK', NEW r \in Reserves, NEW fee \in Nat, NEW p \in Nat, p <= fee,
           TotalLiquidity(r) # 0,
           liquidityIndex'[r] = CumulatedLiquidityIndex(r, TotalLiquidity(r), fee - p),
           accruedToTreasury'[r] = accruedToTreasury[r] + rayDiv(p, liquidityIndex'[r]),
           aTokenSupply'[r] = aTokenSupply[r]
    PROVE  Claims(r)' <= Claims(r) + fee * RAY + FeeSlack(r, fee)
<1> DEFINE i == liquidityIndex[r]
           j == liquidityIndex'[r]
           S == aTokenSupply[r]
           T == accruedToTreasury[r]
           s == fee - p
           total == TotalLiquidity(r)
           n == rayDiv(p, j)
           k == (fee * RAY) \div total
<1>1. /\ i \in Nat /\ S \in Nat /\ T \in Nat /\ j \in Nat \ {0} /\ RAY \in Nat
  BY BooksNat, BooksNatNext, ScaleAssumption
<1>2. j = rayMul(rayDiv(s, total) + RAY, i) /\ total # 0
  BY DEF CumulatedLiquidityIndex
<1>3. n \in Nat /\ n * j - p * RAY <= j \div 2
  BY <1>1, RayDivNat, RayDivRounds
<1>4. total \in Nat \ {0} /\ total = rayMul(S, i) + rayMul(T, i)
  <2>1. rayMul(S, i) \in Nat /\ rayMul(T, i) \in Nat
    BY <1>1, RayMulNat
  <2>2. total = rayMul(S, i) + rayMul(T, i)
    BY DEF TotalLiquidity
  <2> HIDE DEF total
  <2> QED
    BY <1>2, <2>1, <2>2
<1>5. FeeSlack(r, fee) = k + (total + (S + T) + j) \div 2 + 2
  BY <1>4 DEF FeeSlack
<1>6. Claims(r) = (S + T) * i /\ Claims(r)' = (S + (T + n)) * j
  BY DEF Claims
<1>7. s \in Nat /\ s <= fee /\ fee * RAY = s * RAY + p * RAY
  BY <1>1
<1> HIDE DEF i, j, S, T, s, total, n
<1>8. i <= j
  <2>1. rayDiv(s, total) \in Nat
    BY <1>4, <1>7, RayDivNat
  <2> QED
    BY <1>1, <1>2, <2>1, RayMulGrows
<1>9. /\ k \in Nat
      /\ (S + T) * (j - i) <= s * RAY + total \div 2 + k + 1 + (S + T) \div 2
  <2>1. /\ S \in Nat /\ T \in Nat /\ i \in Nat /\ s \in Nat /\ fee \in Nat /\ s <= fee
        /\ total \in Nat \ {0} /\ total = rayMul(S, i) + rayMul(T, i)
        /\ j \in Nat /\ j = rayMul(rayDiv(s, total) + RAY, i) /\ i <= j
    BY <1>1, <1>2, <1>4, <1>7, <1>8
  <2>2. SharedWithin(S, T, i, j, s, fee, total)
    BY <2>1, IncomeShared
  <2> QED
    BY <2>2 DEF SharedWithin
<1> HIDE DEF k
<1>10. (S + (T + n)) * j = (S + T) * i + (S + T) * (j - i) + n * j
  BY <1>1, <1>3
<1>11. total \div 2 + (S + T) \div 2 + j \div 2 <= (total + (S + T) + j) \div 2
  BY <1>1, <1>4
<1>12. /\ (S + T) * i \in Int /\ (S + T) * (j - i) \in Int /\ n * j \in Int
       /\ s * RAY \in Int /\ p * RAY \in Int /\ fee * RAY \in Int
       /\ total \div 2 \in Int /\ (S + T) \div 2 \in Int /\ j \div 2 \in Int
       /\ (total + (S + T) + j) \div 2 \in Int
  BY <1>1, <1>3, <1>4, <1>7
<1>13. /\ Claims(r)' = Claims(r) + (S + T) * (j - i) + n * j
       /\ Claims(r) \in Int
  BY <1>6, <1>10, <1>12
<1> QED
  BY <1>3, <1>5, <1>7, <1>9, <1>11, <1>12, <1>13

(* The bridge's fee is all that a backing adds to what backs the claims.   *)
LEMMA FeeShared ==
    ASSUME TypeOK, TypeOK', NEW r \in Reserves, NEW x \in Amounts, NEW fee \in Fees,
           BackUnbacked(r, x, fee)
    PROVE  Claims(r)' - Backing(r)' <= Claims(r) - Backing(r) + FeeSlack(r, FeePaid(r))
<1> DEFINE backing == Backed(r, x)
           p == percentMul(fee, BridgeProtocolFee)
           index == CumulatedLiquidityIndex(r, TotalLiquidity(r), fee - p)
           L == liquidity[r]
           U == unbacked[r]
           D == TotalStableDebt(r)
           owed == variableDebtSupply[r] * variableBorrowIndex[r]
<1>1. L \in Nat /\ U \in Nat /\ D \in Nat /\ RAY \in Nat /\ owed \in Nat
  BY BooksNat, ScaleAssumption, ProductNat
<1>2. fee \in Nat /\ x \in Nat /\ BridgeProtocolFee \in Nat
  BY StorageAssumption, PoolAssumption
<1>3. p \in Nat /\ p <= fee
  BY <1>2, PercentMulNat DEF BackUnbacked
<1>4. backing \in Nat
  BY <1>1, <1>2, AtMostNat DEF Backed
<1>5. /\ liquidityIndex' = [liquidityIndex EXCEPT ![r] = index]
      /\ TotalLiquidity(r) # 0
      /\ AccrueToTreasury(r, rayDiv(p, index))
      /\ unbacked' = [unbacked EXCEPT ![r] = @ - backing]
      /\ PayIn(r, backing + fee)
      /\ UNCHANGED <<aToken, debtTokens, variableBorrowIndex>>
  BY DEF BackUnbacked
<1> HIDE DEF p, backing
<1>6. /\ liquidityIndex'[r] = index
      /\ accruedToTreasury'[r] = accruedToTreasury[r] + rayDiv(p, index)
      /\ aTokenSupply'[r] = aTokenSupply[r]
  BY <1>5 DEF AccrueToTreasury, aToken, TypeOK
<1>7. unbacked'[r] = U - backing /\ liquidity'[r] = L + (backing + fee)
  BY <1>5 DEF PayIn, TypeOK
<1>8. /\ TotalStableDebt(r)' = D
      /\ (variableDebtSupply[r] * variableBorrowIndex[r])' = owed
  BY <1>5 DEF debtTokens, TotalStableDebt
<1>9. Claims(r)' <= Claims(r) + fee * RAY + FeeSlack(r, fee)
  <2> HIDE DEF index
  <2> QED
    BY <1>2, <1>3, <1>5, <1>6, FeeSpread DEF index
<1>10. FeePaid(r) = fee
  BY <1>1, <1>2, <1>4, <1>7 DEF FeePaid
<1>11. /\ Backing(r) = (L + D + U) * RAY + owed
       /\ Backing(r)' = ((L + (backing + fee)) + D + (U - backing)) * RAY + owed
  BY <1>7, <1>8 DEF Backing
<1> HIDE DEF L, U, D, owed
<1>12. Backing(r)' = Backing(r) + fee * RAY /\ Backing(r) \in Int /\ fee * RAY \in Int
  BY <1>1, <1>2, <1>4, <1>11
<1>13. Claims(r) \in Int /\ Claims(r)' \in Int /\ FeeSlack(r, fee) \in Int
  BY <1>2, <1>5, ClaimsInt, FeeSlackInt
<1> QED
  BY <1>9, <1>10, <1>12, <1>13

(* Backing unbacked aTokens with a fee never creates claims the fee does   *)
(* not pay for: the new index hands suppliers and treasury no more than    *)
(* their part of it, up to the rounding FeeSlack spells out.               *)
THEOREM FeesPay == Spec => FeesPayForIncome
<1>1. TypeOK /\ [Next]_vars =>
          [\A r \in Reserves :
              liquidity'[r] # liquidity[r] /\ liquidityIndex'[r] # liquidityIndex[r]
              => Claims(r)' - Backing(r)'
                     <= Claims(r) - Backing(r) + FeeSlack(r, FeePaid(r))]_vars
  <2>1. ASSUME TypeOK, [Next]_vars, NEW r \in Reserves,
               liquidity'[r] # liquidity[r], liquidityIndex'[r] # liquidityIndex[r]
        PROVE  Claims(r)' - Backing(r)' <= Claims(r) - Backing(r) + FeeSlack(r, FeePaid(r))
    <3>1. PICK x \in Amounts, fee \in Fees : BackUnbacked(r, x, fee)
      BY <2>1, OnlyBackingMovesBoth
    <3>2. TypeOK'
      BY <2>1, TypeStep
    <3> QED
      BY <2>1, <3>1, <3>2, FeeShared
  <2> QED
    BY <2>1
<1> QED
  BY <1>1, TypeCorrect, PTL DEF Spec, FeesPayForIncome

-----------------------------------------------------------------------------
(* The value of a position, as sums over all the reserves.                 *)
PositionType ==
    [collateral : SUBSET Reserves, borrowing : SUBSET Reserves,
     eMode : Categories \cup {NoCategory},
     balance : [Reserves -> Nat], debt : [Reserves -> Nat]]

CountedIn(p) == [r \in Reserves |->
                    IF r \in CountedCollateral(p) THEN BalanceInBase(p, r) ELSE 0]
WeightedIn(p) == [r \in Reserves |-> CountedIn(p)[r] * LiquidationThreshold(p.eMode, r)]
LtvOf(p, r) == IF config[r].ltv = 0 THEN 0 ELSE Ltv(p.eMode, r)
BorrowableIn(p) == [r \in Reserves |-> CountedIn(p)[r] * LtvOf(p, r)]
OwedIn(p) == [r \in Reserves |-> IF r \in p.borrowing THEN DebtInBase(p, r) ELSE 0]

LEMMA PositionTyped ==
    ASSUME TypeOK, NEW u \in Users
    PROVE  Position(u) \in PositionType
<1>1. u \in Accounts
  BY DEF Accounts
<1>2. /\ [r \in Reserves |-> BalanceOf(u, r)] \in [Reserves -> Nat]
      /\ [r \in Reserves |-> DebtOf(u, r)] \in [Reserves -> Nat]
  BY <1>1, BalanceNat, DebtNat
<1> QED
  BY <1>2 DEF Position, PositionType, TypeOK

LEMMA PositionsTyped ==
    ASSUME TypeOK
    PROVE  \A u \in Users : Position(u) \in PositionType
  BY PositionTyped

LEMMA ThresholdNat ==
    ASSUME TypeOK, NEW r \in Reserves, NEW e \in Categories \cup {NoCategory}
    PROVE  /\ LiquidationThreshold(e, r) \in Nat /\ Ltv(e, r) \in Nat
           /\ config[r].ltv \in Nat /\ config[r].liquidationThreshold \in Nat
<1>1. config[r].ltv \in Nat /\ config[r].liquidationThreshold \in Nat
  BY DEF TypeOK, ReserveConfiguration
<1>2. ASSUME IsInEModeCategory(e, r)
      PROVE  eModeCategories[e].ltv \in Nat /\ eModeCategories[e].liquidationThreshold \in Nat
  BY <1>2 DEF TypeOK, EModeCategory, IsInEModeCategory
<1> QED
  BY <1>1, <1>2 DEF LiquidationThreshold, Ltv

LEMMA ValueNat ==
    ASSUME TypeOK, NEW p \in PositionType, NEW r \in Reserves
    PROVE  BalanceInBase(p, r) \in Nat /\ DebtInBase(p, r) \in Nat
<1>1. p.balance[r] \in Nat /\ p.debt[r] \in Nat /\ p.eMode \in Categories \cup {NoCategory}
  BY DEF PositionType
<1>2. AssetPrice(p.eMode, r) \in Nat
  BY <1>1, PriceNat
<1>3. config[r].unit \in Nat \ {0}
  BY ConfigFacts
<1>4. p.balance[r] * AssetPrice(p.eMode, r) \in Nat /\ p.debt[r] * AssetPrice(p.eMode, r) \in Nat
  BY <1>1, <1>2, ProductNat
<1> QED
  BY <1>3, <1>4, DivBounds DEF BalanceInBase, DebtInBase

LEMMA ValuesNat ==
    ASSUME TypeOK, NEW p \in PositionType
    PROVE  /\ CountedIn(p) \in [Reserves -> Nat] /\ WeightedIn(p) \in [Reserves -> Nat]
           /\ BorrowableIn(p) \in [Reserves -> Nat] /\ OwedIn(p) \in [Reserves -> Nat]
<1>1. CountedIn(p) \in [Reserves -> Nat] /\ OwedIn(p) \in [Reserves -> Nat]
  BY ValueNat DEF CountedIn, OwedIn
<1>2. \A r \in Reserves : LiquidationThreshold(p.eMode, r) \in Nat /\ LtvOf(p, r) \in Nat
  <2>1. p.eMode \in Categories \cup {NoCategory}
    BY DEF PositionType
  <2> QED
    BY <2>1, ThresholdNat DEF LtvOf
<1>3. \A r \in Reserves : /\ CountedIn(p)[r] * LiquidationThreshold(p.eMode, r) \in Nat
                          /\ CountedIn(p)[r] * LtvOf(p, r) \in Nat
  <2> SUFFICES ASSUME NEW r \in Reserves
               PROVE  /\ CountedIn(p)[r] * LiquidationThreshold(p.eMode, r) \in Nat
                      /\ CountedIn(p)[r] * LtvOf(p, r) \in Nat
    OBVIOUS
  <2>1. CountedIn(p)[r] \in Nat
    BY <1>1
  <2> QED
    BY <1>2, <2>1, ProductNat
<1> QED
  BY <1>1, <1>3 DEF WeightedIn, BorrowableIn

LEMMA PositionSums ==
    ASSUME TypeOK, NEW p \in PositionType
    PROVE  /\ TotalCollateral(p) = Counted(CountedIn(p), Reserves)
           /\ TotalDebt(p) = Counted(OwedIn(p), Reserves)
           /\ AverageLiquidationThreshold(p)
                = AverageOf(TotalCollateral(p), Counted(WeightedIn(p), Reserves))
           /\ AverageLtv(p) = AverageOf(TotalCollateral(p), Counted(BorrowableIn(p), Reserves))
<1> DEFINE C == CountedCollateral(p)
           pick(s) == CHOOSE x \in s : TRUE
<1>1. IsFiniteSet(Reserves)
  BY StorageAssumption
<1>2. C \in SUBSET Reserves /\ p.borrowing \in SUBSET Reserves
  BY DEF PositionType, CountedCollateral
<1>3. /\ CountedIn(p) \in [Reserves -> Nat] /\ WeightedIn(p) \in [Reserves -> Nat]
      /\ BorrowableIn(p) \in [Reserves -> Nat] /\ OwedIn(p) \in [Reserves -> Nat]
  BY ValuesNat
<1>4. \A r \in Reserves : LiquidationThreshold(p.eMode, r) \in Nat /\ LtvOf(p, r) \in Nat
  <2>1. p.eMode \in Categories \cup {NoCategory}
    BY DEF PositionType
  <2> QED
    BY <2>1, ThresholdNat DEF LtvOf
<1>5. TotalCollateral(p) = Counted(CountedIn(p), Reserves)
  <2> DEFINE Recursion(g) ==
               g = [s \in SUBSET C |->
                      IF s = {} THEN 0 ELSE BalanceInBase(p, CHOOSE x \in s : TRUE) + g[s \ {CHOOSE x \in s : TRUE}]]
             sum == (CHOOSE g : Recursion(g))[C]
  <2>1. TotalCollateral(p) = sum
    BY Zenon DEF TotalCollateral, MapThenSumSet, MapThenFoldSet
  <2>2. \A s \in SUBSET C : s # {} =>
            CountedIn(p)[CHOOSE x \in s : TRUE] = BalanceInBase(p, CHOOSE x \in s : TRUE)
    <3> SUFFICES ASSUME NEW s \in SUBSET C, s # {}
                 PROVE  CountedIn(p)[CHOOSE x \in s : TRUE] = BalanceInBase(p, CHOOSE x \in s : TRUE)
      OBVIOUS
    <3>1. (CHOOSE x \in s : TRUE) \in C
      OBVIOUS
    <3> QED
      BY <1>2, <3>1 DEF CountedIn
  <2>3. \A g : Recursion(g) <=> Summing(g, CountedIn(p), C)
    <3> HIDE DEF C
    <3> QED
      BY <2>2 DEF Summing
  <2>4. sum = Counted(CountedIn(p), Reserves)
    <3>1. \A r \in Reserves \ C : CountedIn(p)[r] = 0
      BY <1>4 DEF CountedIn
    <3> HIDE DEF Recursion, C
    <3> QED
      BY <1>1, <1>2, <1>3, <2>3, <3>1, SumOverPart
  <2> HIDE DEF sum, Recursion
  <2> QED
    BY <2>1, <2>4
<1>6. TotalDebt(p) = Counted(OwedIn(p), Reserves)
  <2> DEFINE Recursion(g) ==
               g = [s \in SUBSET p.borrowing |->
                      IF s = {} THEN 0 ELSE DebtInBase(p, CHOOSE x \in s : TRUE) + g[s \ {CHOOSE x \in s : TRUE}]]
             sum == (CHOOSE g : Recursion(g))[p.borrowing]
  <2>1. TotalDebt(p) = sum
    BY Zenon DEF TotalDebt, MapThenSumSet, MapThenFoldSet
  <2>2. \A s \in SUBSET p.borrowing : s # {} =>
            OwedIn(p)[CHOOSE x \in s : TRUE] = DebtInBase(p, CHOOSE x \in s : TRUE)
    <3> SUFFICES ASSUME NEW s \in SUBSET p.borrowing, s # {}
                 PROVE  OwedIn(p)[CHOOSE x \in s : TRUE] = DebtInBase(p, CHOOSE x \in s : TRUE)
      OBVIOUS
    <3>1. (CHOOSE x \in s : TRUE) \in p.borrowing
      OBVIOUS
    <3> QED
      BY <1>2, <3>1 DEF OwedIn
  <2>3. \A g : Recursion(g) <=> Summing(g, OwedIn(p), p.borrowing)
    <3> HIDE DEF C
    <3> QED
      BY <2>2 DEF Summing
  <2>4. sum = Counted(OwedIn(p), Reserves)
    <3>1. \A r \in Reserves \ p.borrowing : OwedIn(p)[r] = 0
      BY <1>4 DEF OwedIn
    <3> HIDE DEF Recursion, C
    <3> QED
      BY <1>1, <1>2, <1>3, <2>3, <3>1, SumOverPart
  <2> HIDE DEF sum, Recursion
  <2> QED
    BY <2>1, <2>4
<1>7. AverageLiquidationThreshold(p)
        = AverageOf(TotalCollateral(p), Counted(WeightedIn(p), Reserves))
  <2> DEFINE Recursion(g) ==
               g = [s \in SUBSET C |->
                      IF s = {} THEN 0 ELSE BalanceInBase(p, CHOOSE x \in s : TRUE) * LiquidationThreshold(p.eMode, CHOOSE x \in s : TRUE) + g[s \ {CHOOSE x \in s : TRUE}]]
             sum == (CHOOSE g : Recursion(g))[C]
  <2>1. AverageLiquidationThreshold(p)
          = IF TotalCollateral(p) = 0 THEN 0 ELSE sum \div TotalCollateral(p)
    BY Zenon DEF AverageLiquidationThreshold, Average, MapThenSumSet, MapThenFoldSet
  <2>2. \A s \in SUBSET C : s # {} =>
            WeightedIn(p)[CHOOSE x \in s : TRUE] = BalanceInBase(p, CHOOSE x \in s : TRUE) * LiquidationThreshold(p.eMode, CHOOSE x \in s : TRUE)
    <3> SUFFICES ASSUME NEW s \in SUBSET C, s # {}
                 PROVE  WeightedIn(p)[CHOOSE x \in s : TRUE] = BalanceInBase(p, CHOOSE x \in s : TRUE) * LiquidationThreshold(p.eMode, CHOOSE x \in s : TRUE)
      OBVIOUS
    <3>1. (CHOOSE x \in s : TRUE) \in C
      OBVIOUS
    <3> QED
      BY <1>2, <3>1 DEF WeightedIn, CountedIn
  <2>3. \A g : Recursion(g) <=> Summing(g, WeightedIn(p), C)
    <3> HIDE DEF C
    <3> QED
      BY <2>2 DEF Summing
  <2>4. sum = Counted(WeightedIn(p), Reserves)
    <3>1. \A r \in Reserves \ C : WeightedIn(p)[r] = 0
      BY <1>4 DEF WeightedIn, CountedIn
    <3> HIDE DEF Recursion, C
    <3> QED
      BY <1>1, <1>2, <1>3, <2>3, <3>1, SumOverPart
  <2> HIDE DEF sum, Recursion
  <2> QED
    BY <2>1, <2>4 DEF AverageOf
<1>8. AverageLtv(p) = AverageOf(TotalCollateral(p), Counted(BorrowableIn(p), Reserves))
  <2> DEFINE Recursion(g) ==
               g = [s \in SUBSET C |->
                      IF s = {} THEN 0 ELSE BalanceInBase(p, CHOOSE x \in s : TRUE) * LtvOf(p, CHOOSE x \in s : TRUE) + g[s \ {CHOOSE x \in s : TRUE}]]
             sum == (CHOOSE g : Recursion(g))[C]
  <2>1. AverageLtv(p)
          = IF TotalCollateral(p) = 0 THEN 0 ELSE sum \div TotalCollateral(p)
    BY Zenon DEF AverageLtv, Average, MapThenSumSet, MapThenFoldSet, LtvOf
  <2>2. \A s \in SUBSET C : s # {} =>
            BorrowableIn(p)[CHOOSE x \in s : TRUE] = BalanceInBase(p, CHOOSE x \in s : TRUE) * LtvOf(p, CHOOSE x \in s : TRUE)
    <3> SUFFICES ASSUME NEW s \in SUBSET C, s # {}
                 PROVE  BorrowableIn(p)[CHOOSE x \in s : TRUE] = BalanceInBase(p, CHOOSE x \in s : TRUE) * LtvOf(p, CHOOSE x \in s : TRUE)
      OBVIOUS
    <3>1. (CHOOSE x \in s : TRUE) \in C
      OBVIOUS
    <3> QED
      BY <1>2, <3>1 DEF BorrowableIn, CountedIn
  <2>3. \A g : Recursion(g) <=> Summing(g, BorrowableIn(p), C)
    <3> HIDE DEF C
    <3> QED
      BY <2>2 DEF Summing
  <2>4. sum = Counted(BorrowableIn(p), Reserves)
    <3>1. \A r \in Reserves \ C : BorrowableIn(p)[r] = 0
      BY <1>4 DEF BorrowableIn, CountedIn
    <3> HIDE DEF Recursion, C
    <3> QED
      BY <1>1, <1>2, <1>3, <2>3, <3>1, SumOverPart
  <2> HIDE DEF sum, Recursion
  <2> QED
    BY <2>1, <2>4 DEF AverageOf
<1> QED
  BY <1>5, <1>6, <1>7, <1>8

(* The governance does nothing here: the configuration is the one assumed  *)
(* to be ordered.                                                          *)
AsListed == config = InitConfig /\ eModeCategories = InitEModeCategories

LEMMA ThresholdsOrdered ==
    ASSUME TypeOK, AsListed, NEW r \in Reserves, NEW e \in Categories \cup {NoCategory}
    PROVE  /\ LiquidationThreshold(e, r) \in 0..PERCENTAGE_FACTOR
           /\ Ltv(e, r) \in Nat /\ Ltv(e, r) <= LiquidationThreshold(e, r)
<1>1. config[r].ltv <= config[r].liquidationThreshold
      /\ config[r].liquidationThreshold <= PERCENTAGE_FACTOR
  BY ConfigurationAssumption DEF AsListed, Ordered
<1>2. ASSUME IsInEModeCategory(e, r)
      PROVE  /\ eModeCategories[e].ltv <= eModeCategories[e].liquidationThreshold
             /\ eModeCategories[e].liquidationThreshold <= PERCENTAGE_FACTOR
  BY <1>2, ConfigurationAssumption DEF AsListed, Ordered, IsInEModeCategory
<1>3. LiquidationThreshold(e, r) \in Nat /\ Ltv(e, r) \in Nat
  BY ThresholdNat
<1> QED
  BY <1>1, <1>2, <1>3, ScaleAssumption DEF LiquidationThreshold, Ltv

Weighted(p) == Counted(WeightedIn(p), Reserves)
Borrowable(p) == Counted(BorrowableIn(p), Reserves)

PositionFacts(p) ==
    /\ CountedIn(p) \in [Reserves -> Nat] /\ WeightedIn(p) \in [Reserves -> Nat]
    /\ OwedIn(p) \in [Reserves -> Nat]
    /\ TotalCollateral(p) = Counted(CountedIn(p), Reserves) /\ TotalCollateral(p) \in Nat
    /\ TotalDebt(p) = Counted(OwedIn(p), Reserves) /\ TotalDebt(p) \in Nat
    /\ Weighted(p) \in Nat /\ (TotalCollateral(p) = 0 => Weighted(p) = 0)
    /\ AverageLiquidationThreshold(p) = AverageOf(TotalCollateral(p), Weighted(p))

LEMMA PositionsAddUp ==
    ASSUME TypeOK, AsListed, NEW p \in PositionType
    PROVE  /\ PositionFacts(p)
           /\ AverageLtv(p) = AverageOf(TotalCollateral(p), Borrowable(p))
           /\ Borrowable(p) \in Nat /\ Borrowable(p) <= Weighted(p)
           /\ Weighted(p) <= PERCENTAGE_FACTOR * TotalCollateral(p)
<1>1. IsFiniteSet(Reserves)
  BY StorageAssumption
<1>2. /\ CountedIn(p) \in [Reserves -> Nat] /\ WeightedIn(p) \in [Reserves -> Nat]
      /\ BorrowableIn(p) \in [Reserves -> Nat] /\ OwedIn(p) \in [Reserves -> Nat]
  BY ValuesNat
<1>3. /\ Counted(CountedIn(p), Reserves) \in Nat /\ Weighted(p) \in Nat
      /\ Borrowable(p) \in Nat /\ Counted(OwedIn(p), Reserves) \in Nat
  BY <1>1, <1>2, CountedNat DEF Weighted, Borrowable
<1>4. p.eMode \in Categories \cup {NoCategory}
  BY DEF PositionType
<1>5. ASSUME NEW r \in Reserves
      PROVE  /\ WeightedIn(p)[r] <= PERCENTAGE_FACTOR * CountedIn(p)[r]
             /\ BorrowableIn(p)[r] <= WeightedIn(p)[r]
  <2> DEFINE c == CountedIn(p)[r]
             t == LiquidationThreshold(p.eMode, r)
             l == LtvOf(p, r)
  <2>1. /\ t \in Nat /\ t <= PERCENTAGE_FACTOR /\ PERCENTAGE_FACTOR \in Nat
        /\ l \in Nat /\ l <= t /\ c \in Nat
    BY <1>2, <1>4, ThresholdsOrdered, ScaleAssumption DEF LtvOf
  <2>2. WeightedIn(p)[r] = c * t /\ BorrowableIn(p)[r] = c * l
    BY DEF WeightedIn, BorrowableIn
  <2> HIDE DEF c, t, l
  <2>3. t * c <= PERCENTAGE_FACTOR * c /\ l * c <= t * c
    BY <2>1, ProductMonotone
  <2>4. c * t = t * c /\ c * l = l * c
    BY <2>1
  <2> QED
    BY <2>2, <2>3, <2>4 DEF c
<1>6. Weighted(p) <= PERCENTAGE_FACTOR * Counted(CountedIn(p), Reserves)
  BY <1>1, <1>2, <1>5, CountedBounded, ScaleAssumption DEF Weighted
<1>7. Borrowable(p) <= Weighted(p)
  BY <1>1, <1>2, <1>5, CountedMonotone DEF Weighted, Borrowable
<1>8. Counted(CountedIn(p), Reserves) = 0 => Weighted(p) = 0
  BY <1>3, <1>6, ScaleAssumption
<1> QED
  BY <1>2, <1>3, <1>6, <1>7, <1>8, PositionSums DEF PositionFacts, Weighted, Borrowable

LEMMA UsersAddUp ==
    ASSUME TypeOK, AsListed
    PROVE  \A u \in Users : PositionFacts(Position(u))
  BY PositionTyped, PositionsAddUp

LEMMA UsersAddUpNext ==
    ASSUME TypeOK', AsListed'
    PROVE  \A u \in Users : PositionFacts(Position(u))'
<1>1. (TypeOK /\ AsListed => \A u \in Users : PositionFacts(Position(u)))'
  BY UsersAddUp, PTL
<1> QED
  BY <1>1

(* What a call leaves a user with.                                         *)
StaysHealthy(u) == Healthy(u) => Healthy(u)' \/ CoveredUpToRounding(u)

LEMMA RoundingInBaseNat ==
    ASSUME TypeOK, NEW u \in Users, NEW r \in Reserves
    PROVE  RoundingInBase(u, r) \in Nat
<1> DEFINE K == (Rounding(liquidityIndex[r]) + Rounding(variableBorrowIndex[r]))
                    * AssetPrice(eModeCategory[u], r)
<1>1. Rounding(liquidityIndex[r]) \in Nat /\ Rounding(variableBorrowIndex[r]) \in Nat
  BY IndexFacts, RoundingNat
<1>2. AssetPrice(eModeCategory[u], r) \in Nat
  <2>1. eModeCategory[u] \in Categories \cup {NoCategory}
    BY DEF TypeOK
  <2> QED
    BY <2>1, PriceNat
<1>3. K \in Nat
  BY <1>1, <1>2, ProductNat
<1>4. config[r].unit \in Nat \ {0}
  BY ConfigFacts
<1> HIDE DEF K
<1>5. K + 2 * (config[r].unit - 1) \in Nat
  BY <1>3, <1>4
<1> QED
  BY <1>4, <1>5, DivBounds DEF RoundingInBase, K

(* A health factor of at least one, in terms of the sums.                  *)
LEMMA HealthyMeans ==
    ASSUME TypeOK, AsListed, NEW u \in Users, Healthy(u)
    PROVE  TotalDebt(Position(u))
             <= percentMul(TotalCollateral(Position(u)),
                           AverageOf(TotalCollateral(Position(u)), Weighted(Position(u))))
                  + TotalDebt(Position(u)) \div (2 * WAD)
<1> DEFINE T == TotalCollateral(Position(u))
           D == TotalDebt(Position(u))
           P == percentMul(T, AverageOf(T, Weighted(Position(u))))
<1>1. PositionFacts(Position(u))
  BY UsersAddUp
<1>2. T \in Nat /\ D \in Nat /\ P \in Nat
  <2>1. AverageOf(T, Weighted(Position(u))) \in Nat
    BY <1>1, DivBounds DEF PositionFacts, AverageOf
  <2> QED
    BY <1>1, <2>1, PercentMulNat DEF PositionFacts
<1>3. CASE D = 0
  <2>1. D \div (2 * WAD) = 0
    BY <1>3, ScaleAssumption
  <2> HIDE DEF D, P
  <2> QED
    BY <1>2, <1>3, <2>1 DEF D, P
<1>4. CASE D # 0
  <2>1. WAD <= wadDiv(P, D)
    BY <1>1, <1>4
    DEF Healthy, HEALTH_FACTOR_LIQUIDATION_THRESHOLD, HealthFactor, PositionFacts
  <2> HIDE DEF D, P
  <2>2. D <= P + D \div (2 * WAD)
    BY <1>2, <1>4, <2>1, HealthBound
  <2> QED
    BY <2>2 DEF D, P
<1> QED
  BY <1>3, <1>4

(* The step that loses little: what the debt grows by and what the         *)
(* collateral loses, together, are within one rounding.                    *)
LEMMA LittleLost ==
    ASSUME TypeOK, TypeOK', AsListed, AsListed', NEW u \in Users, NEW r \in Reserves,
           NEW L \in Nat,
           Weighted(Position(u)) <= Weighted(Position(u))' + L * PERCENTAGE_FACTOR,
           TotalDebt(Position(u))' + L <= TotalDebt(Position(u)) + RoundingInBase(u, r)
    PROVE  StaysHealthy(u)
<1> SUFFICES ASSUME Healthy(u) PROVE CoveredUpToRounding(u)
  BY DEF StaysHealthy
<1> DEFINE T == TotalCollateral(Position(u))
           T2 == TotalCollateral(Position(u))'
           D == TotalDebt(Position(u))
           D2 == TotalDebt(Position(u))'
           W == Weighted(Position(u))
           W2 == Weighted(Position(u))'
           k == D \div (2 * WAD)
<1>1. PositionFacts(Position(u)) /\ PositionFacts(Position(u))'
  BY UsersAddUp, UsersAddUpNext
<1>2. T \in Nat /\ D \in Nat /\ W \in Nat
  BY <1>1 DEF PositionFacts
<1>3. T2 \in Nat /\ D2 \in Nat /\ W2 \in Nat /\ (T2 = 0 => W2 = 0)
      /\ AverageLiquidationThreshold(Position(u))' = AverageOf(T2, W2)
  BY <1>1 DEF PositionFacts
<1>4. D <= percentMul(T, AverageOf(T, W)) + k
  BY HealthyMeans
<1>5. W <= W2 + L * PERCENTAGE_FACTOR /\ D2 + L <= D + RoundingInBase(u, r)
  OBVIOUS
<1>6. k \in Nat
  <2> HIDE DEF D
  <2> QED
    BY <1>2, ScaleAssumption, DivBounds
<1>7. RoundingInBase(u, r) \in Nat
  BY RoundingInBaseNat
<1>8. percentMul(TotalCollateral(Position(u)),
                 AverageLiquidationThreshold(Position(u)) + 1)'
        = percentMul(T2, AverageOf(T2, W2) + 1)
  BY <1>3 DEF percentMul
<1> HIDE DEF T, T2, D, D2, W, W2, k
<1>9. /\ AverageOf(T, W) \in Nat /\ AverageOf(T2, W2) \in Nat
      /\ percentMul(T, AverageOf(T, W)) <= percentMul(T2, AverageOf(T2, W2) + 1) + L
  BY <1>2, <1>3, <1>5, CoverLoses
<1>10. percentMul(T, AverageOf(T, W)) \in Nat
       /\ percentMul(T2, AverageOf(T2, W2) + 1) \in Nat
  BY <1>2, <1>3, <1>9, PercentMulNat
<1>11. D2 <= percentMul(T2, AverageOf(T2, W2) + 1) + RoundingInBase(u, r) + k
  BY <1>2, <1>3, <1>4, <1>5, <1>6, <1>7, <1>9, <1>10
<1> QED
  BY <1>8, <1>11 DEF CoveredUpToRounding, D, D2, k
-----------------------------------------------------------------------------
(* The invariants a call starts from and ends in.                          *)
HealthInv == TypeOK /\ AsListed /\ DebtFlagged

(* The value of a balance and of a debt; a debt counts whatever the flags, *)
(* for it has its flag.                                                    *)
ValuesAre(u, r) ==
    /\ CountedIn(Position(u))[r]
         = IF r \in usingAsCollateral[u] /\ config[r].liquidationThreshold # 0
           THEN (BalanceOf(u, r) * AssetPrice(eModeCategory[u], r)) \div config[r].unit
           ELSE 0
    /\ OwedIn(Position(u))[r]
         = (DebtOf(u, r) * AssetPrice(eModeCategory[u], r)) \div config[r].unit
    /\ WeightedIn(Position(u))[r]
         = CountedIn(Position(u))[r] * LiquidationThreshold(eModeCategory[u], r)

LEMMA ValuesOf ==
    ASSUME HealthInv
    PROVE  \A u \in Users, r \in Reserves : ValuesAre(u, r)
<1> SUFFICES ASSUME NEW u \in Users, NEW r \in Reserves
             PROVE  ValuesAre(u, r)
  OBVIOUS
<1>1. /\ Position(u).balance[r] = BalanceOf(u, r) /\ Position(u).debt[r] = DebtOf(u, r)
      /\ Position(u).eMode = eModeCategory[u] /\ Position(u).borrowing = borrowing[u]
      /\ Position(u).collateral = usingAsCollateral[u]
  BY DEF Position
<1>2. WeightedIn(Position(u))[r]
        = CountedIn(Position(u))[r] * LiquidationThreshold(eModeCategory[u], r)
  BY <1>1 DEF WeightedIn
<1>3. CountedIn(Position(u))[r]
        = IF r \in usingAsCollateral[u] /\ config[r].liquidationThreshold # 0
          THEN (BalanceOf(u, r) * AssetPrice(eModeCategory[u], r)) \div config[r].unit
          ELSE 0
  BY <1>1 DEF CountedIn, CountedCollateral, BalanceInBase
<1>4. CASE r \in borrowing[u]
  BY <1>1, <1>2, <1>3, <1>4 DEF OwedIn, DebtInBase, ValuesAre
<1>5. CASE r \notin borrowing[u]
  <2>1. scaledVariableDebt[u][r] = 0 /\ stableDebt[u][r] = 0
    BY <1>5 DEF HealthInv, DebtFlagged, Owes
  <2>2. variableBorrowIndex[r] \in Nat
    BY IndexFacts DEF HealthInv
  <2>3. DebtOf(u, r) = 0
    BY <2>1, <2>2, NoVariableDebt DEF HealthInv, DebtOf
  <2>4. AssetPrice(eModeCategory[u], r) \in Nat /\ config[r].unit \in Nat \ {0}
    <3>1. eModeCategory[u] \in Categories \cup {NoCategory}
      BY DEF HealthInv, TypeOK
    <3> QED
      BY <3>1, PriceNat, ConfigFacts DEF HealthInv
  <2>5. (0 * AssetPrice(eModeCategory[u], r)) \div config[r].unit = 0
    BY <2>4
  <2>6. OwedIn(Position(u))[r] = 0
    BY <1>1, <1>5 DEF OwedIn
  <2> QED
    BY <1>2, <1>3, <2>3, <2>5, <2>6 DEF ValuesAre
<1> QED
  BY <1>4, <1>5

LEMMA ValuesOfNext ==
    ASSUME HealthInv'
    PROVE  \A u \in Users, r \in Reserves : ValuesAre(u, r)'
<1>1. (HealthInv => \A u \in Users, r \in Reserves : ValuesAre(u, r))'
  BY ValuesOf, PTL
<1> QED
  BY <1>1

(* A call during which prices and configuration stand still and the user   *)
(* stays in its category.                                                  *)
Quiet(u) == UNCHANGED <<governance, market>> /\ eModeCategory'[u] = eModeCategory[u]

LEMMA QuietFacts ==
    ASSUME HealthInv, HealthInv', NEW u \in Users, Quiet(u), NEW r \in Reserves
    PROVE  /\ AssetPrice(eModeCategory[u], r)' = AssetPrice(eModeCategory[u], r)
           /\ LiquidationThreshold(eModeCategory[u], r)'
                = LiquidationThreshold(eModeCategory[u], r)
           /\ config' = config
           /\ AssetPrice(eModeCategory[u], r) \in Nat
           /\ LiquidationThreshold(eModeCategory[u], r) \in 0..PERCENTAGE_FACTOR
           /\ config[r].unit \in Nat \ {0}
<1>1. eModeCategory[u] \in Categories \cup {NoCategory}
  BY DEF HealthInv, TypeOK
<1>2. AssetPrice(eModeCategory[u], r) \in Nat /\ config[r].unit \in Nat \ {0}
      /\ LiquidationThreshold(eModeCategory[u], r) \in 0..PERCENTAGE_FACTOR
  BY <1>1, PriceNat, ConfigFacts, ThresholdsOrdered DEF HealthInv
<1>3. /\ config' = config /\ eModeCategories' = eModeCategories /\ price' = price
      /\ eModeCategory'[u] = eModeCategory[u]
  BY DEF Quiet, governance, market
<1>4. AssetPrice(eModeCategory[u], r)' = AssetPrice(eModeCategory[u], r)
  BY <1>3 DEF AssetPrice, HasPriceSource, IsInEModeCategory
<1>5. LiquidationThreshold(eModeCategory[u], r)' = LiquidationThreshold(eModeCategory[u], r)
  BY <1>3 DEF LiquidationThreshold, IsInEModeCategory
<1> QED
  BY <1>2, <1>3, <1>4, <1>5

(* One asset moves: its collateral falls by L and its debt grows by no     *)
(* more than a rounding less L.  The others move in the user's favour.     *)
LEMMA OneAssetMoves ==
    ASSUME HealthInv, HealthInv', NEW u \in Users, NEW r \in Reserves, Quiet(u), NEW L \in Nat,
           \A q \in Reserves \ {r} :
               /\ CountedIn(Position(u))[q] <= CountedIn(Position(u))'[q]
               /\ OwedIn(Position(u))'[q] <= OwedIn(Position(u))[q],
           CountedIn(Position(u))[r] <= CountedIn(Position(u))'[r] + L,
           OwedIn(Position(u))'[r] + L <= OwedIn(Position(u))[r] + RoundingInBase(u, r)
    PROVE  StaysHealthy(u)
<1> DEFINE c == CountedIn(Position(u))
           c2 == CountedIn(Position(u))'
           w == WeightedIn(Position(u))
           w2 == WeightedIn(Position(u))'
           d == OwedIn(Position(u))
           d2 == OwedIn(Position(u))'
           R == RoundingInBase(u, r)
           wL == [w2 EXCEPT ![r] = @ + L * PERCENTAGE_FACTOR]
           dR == [d EXCEPT ![r] = @ + R]
           dL == [d2 EXCEPT ![r] = @ + L]
<1>1. PositionFacts(Position(u)) /\ PositionFacts(Position(u))'
  BY UsersAddUp, UsersAddUpNext DEF HealthInv
<1>2. /\ c \in [Reserves -> Nat] /\ c2 \in [Reserves -> Nat]
      /\ w \in [Reserves -> Nat] /\ w2 \in [Reserves -> Nat]
      /\ d \in [Reserves -> Nat] /\ d2 \in [Reserves -> Nat]
  BY <1>1 DEF PositionFacts
<1>3. R \in Nat /\ IsFiniteSet(Reserves) /\ PERCENTAGE_FACTOR \in Nat
      /\ L * PERCENTAGE_FACTOR \in Nat
  BY RoundingInBaseNat, StorageAssumption, ScaleAssumption, ProductNat DEF HealthInv
<1>4. /\ Weighted(Position(u)) = Counted(w, Reserves)
      /\ Weighted(Position(u))' = Counted(w2, Reserves)
      /\ TotalDebt(Position(u)) = Counted(d, Reserves)
      /\ TotalDebt(Position(u))' = Counted(d2, Reserves)
  BY <1>1 DEF PositionFacts, Weighted
<1>5. ASSUME NEW q \in Reserves
      PROVE  /\ w[q] = c[q] * LiquidationThreshold(eModeCategory[u], q)
             /\ w2[q] = c2[q] * LiquidationThreshold(eModeCategory[u], q)
             /\ LiquidationThreshold(eModeCategory[u], q) \in 0..PERCENTAGE_FACTOR
  BY ValuesOf, ValuesOfNext, QuietFacts DEF ValuesAre
<1>6. /\ \A q \in Reserves \ {r} : c[q] <= c2[q] /\ d2[q] <= d[q]
      /\ c[r] <= c2[r] + L /\ d2[r] + L <= d[r] + R
  OBVIOUS
<1> HIDE DEF c, c2, w, w2, d, d2, R
<1>7. wL \in [Reserves -> Nat] /\ dR \in [Reserves -> Nat] /\ dL \in [Reserves -> Nat]
  BY <1>2, <1>3
<1>8. ASSUME NEW q \in Reserves PROVE w[q] <= wL[q]
  <2> DEFINE t == LiquidationThreshold(eModeCategory[u], q)
  <2>1. /\ t \in Nat /\ t <= PERCENTAGE_FACTOR /\ c[q] \in Nat /\ c2[q] \in Nat
        /\ w[q] = c[q] * t /\ w2[q] = c2[q] * t
    BY <1>2, <1>3, <1>5
  <2> HIDE DEF t
  <2>2. CASE q # r
    <3>1. c[q] * t <= c2[q] * t
      BY <1>6, <2>1, <2>2, ProductMonotone
    <3> QED
      BY <1>2, <2>1, <2>2, <3>1
  <2>3. CASE q = r
    <3>1. c[q] * t <= (c2[q] + L) * t
      BY <1>6, <2>1, <2>3, ProductMonotone
    <3>2. (c2[q] + L) * t = c2[q] * t + L * t /\ L * t = t * L
          /\ L * PERCENTAGE_FACTOR = PERCENTAGE_FACTOR * L
      BY <1>3, <2>1
    <3>3. t * L <= PERCENTAGE_FACTOR * L
      BY <1>3, <2>1, ProductMonotone
    <3>4. c2[q] * t \in Nat /\ t * L \in Nat /\ c[q] * t \in Nat
      BY <2>1, ProductNat
    <3>5. wL[q] = w2[q] + L * PERCENTAGE_FACTOR
      BY <1>2, <2>3
    <3> HIDE DEF wL
    <3> QED
      BY <1>3, <2>1, <3>1, <3>2, <3>3, <3>4, <3>5
  <2> QED
    BY <2>2, <2>3
<1>9. \A q \in Reserves : dL[q] <= dR[q]
  BY <1>2, <1>3, <1>6
<1>10. /\ Counted(wL, Reserves) = Counted(w2, Reserves) + wL[r] - w2[r]
       /\ Counted(dL, Reserves) = Counted(d2, Reserves) + dL[r] - d2[r]
       /\ Counted(dR, Reserves) = Counted(d, Reserves) + dR[r] - d[r]
  <2>1. \A q \in Reserves \ {r} : wL[q] = w2[q] /\ dL[q] = d2[q] /\ dR[q] = d[q]
    BY <1>2
  <2> HIDE DEF wL, dL, dR
  <2> QED
    BY <1>2, <1>3, <1>7, <2>1, CountedMoves
<1>11. /\ wL[r] - w2[r] = L * PERCENTAGE_FACTOR /\ dL[r] - d2[r] = L /\ dR[r] - d[r] = R
       /\ w2[r] \in Nat /\ d2[r] \in Nat /\ d[r] \in Nat
       /\ wL[r] \in Nat /\ dL[r] \in Nat /\ dR[r] \in Nat
  BY <1>2, <1>3
<1> HIDE DEF wL, dL, dR
<1>12. /\ Counted(w, Reserves) <= Counted(wL, Reserves)
       /\ Counted(dL, Reserves) <= Counted(dR, Reserves)
  BY <1>2, <1>3, <1>7, <1>8, <1>9, CountedMonotone
<1>13. /\ Counted(w2, Reserves) \in Nat /\ Counted(d2, Reserves) \in Nat
       /\ Counted(d, Reserves) \in Nat
  BY <1>2, <1>3, CountedNat
<1>14. /\ Counted(w, Reserves) <= Counted(w2, Reserves) + L * PERCENTAGE_FACTOR
       /\ Counted(d2, Reserves) + L <= Counted(d, Reserves) + R
  BY <1>3, <1>10, <1>11, <1>12, <1>13
<1> QED
  BY <1>4, <1>14, LittleLost DEF HealthInv, R

LEMMA AmountsNat ==
    ASSUME TypeOK
    PROVE  /\ \A a \in Accounts, r \in Reserves : BalanceOf(a, r) \in Nat
           /\ \A u \in Users, r \in Reserves : DebtOf(u, r) \in Nat
  BY BalanceNat, DebtNat

LEMMA AmountsNatNext ==
    ASSUME TypeOK'
    PROVE  /\ \A a \in Accounts, r \in Reserves : BalanceOf(a, r)' \in Nat
           /\ \A u \in Users, r \in Reserves : DebtOf(u, r)' \in Nat
<1>1. (TypeOK => /\ \A a \in Accounts, r \in Reserves : BalanceOf(a, r) \in Nat
                 /\ \A u \in Users, r \in Reserves : DebtOf(u, r) \in Nat)'
  BY AmountsNat, PTL
<1> QED
  BY <1>1

(* A call that was validated with the health it leaves the user with.      *)
LEMMA SameHealth ==
    ASSUME HealthInv, HealthInv', NEW u \in Users, NEW p \in PositionType,
           CountedIn(p) = CountedIn(Position(u))', WeightedIn(p) = WeightedIn(Position(u))',
           OwedIn(p) = OwedIn(Position(u))'
    PROVE  HealthFactor(p) = HealthFactor(Position(u))'
<1>1. PositionFacts(p)
  BY PositionsAddUp DEF HealthInv
<1>2. PositionFacts(Position(u))'
  BY UsersAddUpNext DEF HealthInv
<1>3. /\ TotalCollateral(p) = TotalCollateral(Position(u))'
      /\ TotalDebt(p) = TotalDebt(Position(u))'
      /\ Weighted(p) = Weighted(Position(u))'
  BY <1>1, <1>2 DEF PositionFacts, Weighted
<1>4. AverageLiquidationThreshold(p) = AverageLiquidationThreshold(Position(u))'
  BY <1>1, <1>2, <1>3 DEF PositionFacts
<1> QED
  BY <1>3, <1>4 DEF HealthFactor, wadDiv, percentMul

LEMMA Validated ==
    ASSUME HealthInv, HealthInv', NEW u \in Users, UNCHANGED <<governance, market>>,
           NEW p \in PositionType, ValidateHealthFactor(p),
           p.eMode = eModeCategory'[u], p.borrowing = borrowing'[u],
           \A r \in Reserves :
               /\ p.balance[r] = BalanceOf(u, r)' /\ p.debt[r] = DebtOf(u, r)'
               /\ (r \in p.collateral <=> r \in usingAsCollateral'[u]) \/ BalanceOf(u, r)' = 0
    PROVE  StaysHealthy(u)
<1>1. /\ config' = config /\ eModeCategories' = eModeCategories /\ price' = price
      /\ p.eMode = eModeCategory'[u]
  BY DEF governance, market
<1>2. ASSUME NEW r \in Reserves
      PROVE  /\ AssetPrice(eModeCategory[u], r)' = AssetPrice(p.eMode, r)
             /\ LiquidationThreshold(eModeCategory[u], r)' = LiquidationThreshold(p.eMode, r)
             /\ AssetPrice(p.eMode, r) \in Nat /\ config[r].unit \in Nat \ {0}
  <2>1. p.eMode \in Categories \cup {NoCategory}
    BY DEF PositionType
  <2>2. AssetPrice(p.eMode, r) \in Nat /\ config[r].unit \in Nat \ {0}
    BY <2>1, PriceNat, ConfigFacts DEF HealthInv
  <2>3. AssetPrice(eModeCategory[u], r)' = AssetPrice(p.eMode, r)
    BY <1>1 DEF AssetPrice, HasPriceSource, IsInEModeCategory
  <2>4. LiquidationThreshold(eModeCategory[u], r)' = LiquidationThreshold(p.eMode, r)
    BY <1>1 DEF LiquidationThreshold, IsInEModeCategory
  <2> QED
    BY <2>2, <2>3, <2>4
<1>3. PositionFacts(p) /\ PositionFacts(Position(u))'
  BY PositionsAddUp, UsersAddUpNext DEF HealthInv
<1>4. ASSUME NEW r \in Reserves
      PROVE  /\ CountedIn(p)[r] = CountedIn(Position(u))'[r]
             /\ WeightedIn(p)[r] = WeightedIn(Position(u))'[r]
             /\ OwedIn(p)[r] = OwedIn(Position(u))'[r]
  <2>1. CountedIn(p)[r] = CountedIn(Position(u))'[r]
    <3>1. CountedIn(p)[r] = IF r \in p.collateral /\ config[r].liquidationThreshold # 0
                            THEN (BalanceOf(u, r)' * AssetPrice(p.eMode, r)) \div config[r].unit
                            ELSE 0
      BY DEF CountedIn, CountedCollateral, BalanceInBase
    <3>2. CountedIn(Position(u))'[r]
            = IF r \in usingAsCollateral'[u] /\ config[r].liquidationThreshold # 0
              THEN (BalanceOf(u, r)' * AssetPrice(p.eMode, r)) \div config[r].unit
              ELSE 0
      BY <1>1, <1>2, ValuesOfNext DEF ValuesAre
    <3>3. CASE BalanceOf(u, r)' = 0
      <4>1. (0 * AssetPrice(p.eMode, r)) \div config[r].unit = 0
        BY <1>2
      <4> QED
        BY <3>1, <3>2, <3>3, <4>1
    <3>4. CASE r \in p.collateral <=> r \in usingAsCollateral'[u]
      BY <3>1, <3>2, <3>4
    <3> QED
      BY <3>3, <3>4
  <2>2. WeightedIn(p)[r] = CountedIn(p)[r] * LiquidationThreshold(p.eMode, r)
    BY DEF WeightedIn
  <2>3. WeightedIn(Position(u))'[r]
          = CountedIn(Position(u))'[r] * LiquidationThreshold(p.eMode, r)
    BY <1>2, ValuesOfNext DEF ValuesAre
  <2>4. OwedIn(p)[r] = IF r \in p.borrowing
                       THEN (DebtOf(u, r)' * AssetPrice(p.eMode, r)) \div config[r].unit ELSE 0
    BY DEF OwedIn, DebtInBase
  <2>5. OwedIn(Position(u))'[r] = IF r \in borrowing'[u]
                                  THEN DebtInBase(Position(u), r)' ELSE 0
    BY DEF OwedIn, Position
  <2>6. DebtInBase(Position(u), r)'
          = (DebtOf(u, r)' * AssetPrice(p.eMode, r)) \div config[r].unit
    BY <1>1, <1>2 DEF DebtInBase, Position
  <2> QED
    BY <2>1, <2>2, <2>3, <2>4, <2>5, <2>6
<1>5. /\ CountedIn(p) = CountedIn(Position(u))' /\ WeightedIn(p) = WeightedIn(Position(u))'
      /\ OwedIn(p) = OwedIn(Position(u))'
  BY <1>3, <1>4 DEF PositionFacts
<1>6. HealthFactor(p) = HealthFactor(Position(u))'
  BY <1>5, SameHealth
<1> QED
  BY <1>6 DEF ValidateHealthFactor, StaysHealthy, Healthy, HEALTH_FACTOR_LIQUIDATION_THRESHOLD

LEMMA PositionTypedNext ==
    ASSUME TypeOK'
    PROVE  \A u \in Users : Position(u)' \in PositionType
<1>1. (TypeOK => \A u \in Users : Position(u) \in PositionType)'
  BY PositionsTyped, PTL
<1> QED
  BY <1>1

LEMMA ValidatedAfter ==
    ASSUME HealthInv, HealthInv', NEW u \in Users, UNCHANGED <<governance, market>>,
           ValidateHealthFactor(Position(u)')
    PROVE  StaysHealthy(u)
<1>1. Position(u)' \in PositionType
  BY PositionTypedNext DEF HealthInv
<1>2. /\ Position(u)'.eMode = eModeCategory'[u] /\ Position(u)'.borrowing = borrowing'[u]
      /\ \A r \in Reserves :
           /\ Position(u)'.balance[r] = BalanceOf(u, r)' /\ Position(u)'.debt[r] = DebtOf(u, r)'
           /\ r \in Position(u)'.collateral <=> r \in usingAsCollateral'[u]
  BY DEF Position
<1> DEFINE p == Position(u)'
<1>3. p \in PositionType /\ ValidateHealthFactor(p)
  BY <1>1
<1>4. /\ p.eMode = eModeCategory'[u] /\ p.borrowing = borrowing'[u]
      /\ \A r \in Reserves :
           /\ p.balance[r] = BalanceOf(u, r)' /\ p.debt[r] = DebtOf(u, r)'
           /\ (r \in p.collateral <=> r \in usingAsCollateral'[u]) \/ BalanceOf(u, r)' = 0
  BY <1>2
<1> HIDE DEF p
<1> QED
  BY <1>3, <1>4, Validated

(* Nobody without a debt is out of health.                                 *)
LEMMA NoDebts ==
    ASSUME HealthInv, HealthInv', NEW u \in Users, NEW r \in Reserves, borrowing'[u] = {}
    PROVE  StaysHealthy(u)
<1>1. PositionFacts(Position(u)) /\ PositionFacts(Position(u))'
  BY UsersAddUp, UsersAddUpNext DEF HealthInv
<1>2. \A q \in Reserves : OwedIn(Position(u))'[q] = 0
  BY DEF OwedIn, Position
<1>3. UnitsOf(OwedIn(Position(u))', Reserves) = {}
  BY <1>2 DEF UnitsOf
<1>4. TotalDebt(Position(u))' = 0
  BY <1>1, <1>3, FS_EmptySet DEF PositionFacts, Counted
<1> DEFINE covered == percentMul(TotalCollateral(Position(u)),
                                 AverageLiquidationThreshold(Position(u)) + 1)'
           k == TotalDebt(Position(u)) \div (2 * WAD)
<1>5. covered \in Nat
  <2>1. /\ TotalCollateral(Position(u))' \in Nat
        /\ AverageLiquidationThreshold(Position(u))' \in Nat
    BY <1>1, DivBounds DEF PositionFacts, AverageOf
  <2>2. AverageLiquidationThreshold(Position(u))' + 1 \in Nat
    BY <2>1
  <2> QED
    BY <2>1, <2>2, PercentMulNat
<1>6. k \in Nat
  <2>1. TotalDebt(Position(u)) \in Nat
    BY <1>1 DEF PositionFacts
  <2> QED
    BY <2>1, ScaleAssumption, DivBounds
<1>7. RoundingInBase(u, r) \in Nat
  BY RoundingInBaseNat DEF HealthInv
<1> HIDE DEF covered, k
<1>8. TotalDebt(Position(u))' <= covered + RoundingInBase(u, r) + k
  BY <1>4, <1>5, <1>6, <1>7
<1> QED
  BY <1>8 DEF StaysHealthy, CoveredUpToRounding, covered, k

(* More collateral, less debt.                                             *)
LEMMA BetterOff ==
    ASSUME HealthInv, HealthInv', NEW u \in Users, Quiet(u), NEW r \in Reserves,
           \A q \in Reserves :
               /\ q \in usingAsCollateral[u]
                    => q \in usingAsCollateral'[u] /\ BalanceOf(u, q) <= BalanceOf(u, q)'
               /\ DebtOf(u, q)' <= DebtOf(u, q)
    PROVE  StaysHealthy(u)
<1>1. ASSUME NEW q \in Reserves
      PROVE  /\ CountedIn(Position(u))[q] <= CountedIn(Position(u))'[q]
             /\ OwedIn(Position(u))'[q] <= OwedIn(Position(u))[q]
  <2> DEFINE A == AssetPrice(eModeCategory[u], q)
             n == config[q].unit
             b == BalanceOf(u, q)
             b2 == BalanceOf(u, q)'
             d == DebtOf(u, q)
             d2 == DebtOf(u, q)'
             counted == config[q].liquidationThreshold # 0
  <2>1. u \in Accounts
    BY DEF Accounts
  <2>2. b \in Nat /\ d \in Nat
    BY <2>1, BalanceNat, DebtNat DEF HealthInv
  <2>3. b2 \in Nat /\ d2 \in Nat
    BY <2>1, AmountsNatNext DEF HealthInv
  <2>4. A \in Nat /\ n \in Nat \ {0} /\ AssetPrice(eModeCategory[u], q)' = A /\ config' = config
    BY QuietFacts
  <2>5. /\ CountedIn(Position(u))[q]
             = IF q \in usingAsCollateral[u] /\ counted THEN (b * A) \div n ELSE 0
        /\ CountedIn(Position(u))'[q]
             = IF q \in usingAsCollateral'[u] /\ counted THEN (b2 * A) \div n ELSE 0
        /\ OwedIn(Position(u))[q] = (d * A) \div n /\ OwedIn(Position(u))'[q] = (d2 * A) \div n
    BY <2>4, ValuesOf, ValuesOfNext DEF ValuesAre
  <2>6. /\ d2 <= d
        /\ q \in usingAsCollateral[u] => q \in usingAsCollateral'[u] /\ b <= b2
    OBVIOUS
  <2> HIDE DEF A, n, b, b2, d, d2
  <2>7. b * A \in Nat /\ b2 * A \in Nat /\ d * A \in Nat /\ d2 * A \in Nat
    BY <2>2, <2>3, <2>4, ProductNat
  <2>8. (d2 * A) \div n <= (d * A) \div n
    <3>1. d2 * A <= d * A
      BY <2>2, <2>3, <2>4, <2>6, ProductMonotone
    <3> QED
      BY <2>4, <2>7, <3>1, QuotientMonotone
  <2>9. ASSUME b <= b2 PROVE (b * A) \div n <= (b2 * A) \div n
    <3>1. b * A <= b2 * A
      BY <2>2, <2>3, <2>4, <2>9, ProductMonotone
    <3> QED
      BY <2>4, <2>7, <3>1, QuotientMonotone
  <2>10. (b2 * A) \div n \in Nat
    BY <2>4, <2>7, DivBounds
  <2> QED
    BY <2>5, <2>6, <2>8, <2>9, <2>10
<1>2. RoundingInBase(u, r) \in Nat
  BY RoundingInBaseNat DEF HealthInv
<1>3. /\ CountedIn(Position(u))[r] <= CountedIn(Position(u))'[r] + 0
      /\ OwedIn(Position(u))'[r] + 0 <= OwedIn(Position(u))[r] + RoundingInBase(u, r)
  <2>1. PositionFacts(Position(u)) /\ PositionFacts(Position(u))'
    BY UsersAddUp, UsersAddUpNext DEF HealthInv
  <2>2. /\ CountedIn(Position(u))'[r] \in Nat
        /\ OwedIn(Position(u))'[r] \in Nat /\ OwedIn(Position(u))[r] \in Nat
    BY <2>1 DEF PositionFacts
  <2> QED
    BY <1>1, <1>2, <2>2
<1> QED
  BY <1>1, <1>3, OneAssetMoves

(* A debt and a balance of one asset, moved together and rounded.          *)
BothRoundings(r) == Rounding(liquidityIndex[r]) + Rounding(variableBorrowIndex[r])

LEMMA RoundedAway ==
    ASSUME HealthInv, HealthInv', NEW u \in Users, Quiet(u), NEW r \in Reserves,
           usingAsCollateral'[u] = usingAsCollateral[u],
           \A q \in Reserves \ {r} :
               BalanceOf(u, q)' = BalanceOf(u, q) /\ DebtOf(u, q)' = DebtOf(u, q),
           DebtOf(u, r)' <= DebtOf(u, r) + BothRoundings(r),
           DebtOf(u, r)' + BalanceOf(u, r)
             <= DebtOf(u, r) + BalanceOf(u, r)' + BothRoundings(r)
    PROVE  StaysHealthy(u)
<1>1. u \in Accounts
  BY DEF Accounts
<1>2. ASSUME NEW q \in Reserves
      PROVE  /\ BalanceOf(u, q) \in Nat /\ DebtOf(u, q) \in Nat
             /\ BalanceOf(u, q)' \in Nat /\ DebtOf(u, q)' \in Nat
             /\ AssetPrice(eModeCategory[u], q) \in Nat /\ config[q].unit \in Nat \ {0}
             /\ CountedIn(Position(u))[q]
                  = IF q \in usingAsCollateral[u] /\ config[q].liquidationThreshold # 0
                    THEN (BalanceOf(u, q) * AssetPrice(eModeCategory[u], q)) \div config[q].unit
                    ELSE 0
             /\ CountedIn(Position(u))'[q]
                  = IF q \in usingAsCollateral[u] /\ config[q].liquidationThreshold # 0
                    THEN (BalanceOf(u, q)' * AssetPrice(eModeCategory[u], q)) \div config[q].unit
                    ELSE 0
             /\ OwedIn(Position(u))[q]
                  = (DebtOf(u, q) * AssetPrice(eModeCategory[u], q)) \div config[q].unit
             /\ OwedIn(Position(u))'[q]
                  = (DebtOf(u, q)' * AssetPrice(eModeCategory[u], q)) \div config[q].unit
  <2>1. BalanceOf(u, q) \in Nat /\ DebtOf(u, q) \in Nat
    BY <1>1, AmountsNat DEF HealthInv
  <2>2. BalanceOf(u, q)' \in Nat /\ DebtOf(u, q)' \in Nat
    BY <1>1, AmountsNatNext DEF HealthInv
  <2>3. /\ AssetPrice(eModeCategory[u], q) \in Nat /\ config[q].unit \in Nat \ {0}
        /\ AssetPrice(eModeCategory[u], q)' = AssetPrice(eModeCategory[u], q) /\ config' = config
    BY QuietFacts
  <2> QED
    BY <2>1, <2>2, <2>3, ValuesOf, ValuesOfNext DEF ValuesAre
<1> DEFINE A == AssetPrice(eModeCategory[u], r)
           n == config[r].unit
           b == BalanceOf(u, r)
           b2 == BalanceOf(u, r)'
           d == DebtOf(u, r)
           d2 == DebtOf(u, r)'
           R == BothRoundings(r)
           counted == r \in usingAsCollateral[u] /\ config[r].liquidationThreshold # 0
           c == CountedIn(Position(u))[r]
           c2 == CountedIn(Position(u))'[r]
           o == OwedIn(Position(u))[r]
           o2 == OwedIn(Position(u))'[r]
           RB == RoundingInBase(u, r)
<1>3. \A q \in Reserves \ {r} :
          /\ CountedIn(Position(u))[q] <= CountedIn(Position(u))'[q]
          /\ OwedIn(Position(u))'[q] <= OwedIn(Position(u))[q]
  <2>1. PositionFacts(Position(u)) /\ PositionFacts(Position(u))'
    BY UsersAddUp, UsersAddUpNext DEF HealthInv
  <2>2. \A q \in Reserves : /\ CountedIn(Position(u))[q] \in Nat
                            /\ OwedIn(Position(u))[q] \in Nat
    BY <2>1 DEF PositionFacts
  <2>3. \A q \in Reserves \ {r} : /\ CountedIn(Position(u))[q] = CountedIn(Position(u))'[q]
                                  /\ OwedIn(Position(u))'[q] = OwedIn(Position(u))[q]
    BY <1>2
  <2> QED
    BY <2>2, <2>3
<1>4. /\ b \in Nat /\ d \in Nat /\ b2 \in Nat /\ d2 \in Nat
      /\ A \in Nat /\ n \in Nat \ {0}
      /\ c = IF counted THEN (b * A) \div n ELSE 0
      /\ c2 = IF counted THEN (b2 * A) \div n ELSE 0
      /\ o = (d * A) \div n /\ o2 = (d2 * A) \div n
  BY <1>2
<1>5. R \in Nat
  BY IndexFacts, RoundingNat DEF BothRoundings, HealthInv
<1>6. RB = (R * A + 2 * (n - 1)) \div n
  BY DEF RoundingInBase, BothRoundings
<1>7. d2 <= d + R /\ d2 + b <= d + b2 + R
  OBVIOUS
<1> HIDE DEF A, n, b, b2, d, d2, R, counted, c, c2, o, o2, RB
<1>8. /\ b * A \in Nat /\ b2 * A \in Nat /\ d * A \in Nat /\ d2 * A \in Nat /\ R * A \in Nat
  BY <1>4, <1>5, ProductNat
<1>9. /\ d2 * A + 0 <= d * A + 0 + R * A
      /\ d2 * A + b * A <= d * A + b2 * A + R * A
  <2>1. d2 * A <= (d + R) * A /\ (d2 + b) * A <= (d + b2 + R) * A
    BY <1>4, <1>5, <1>7, ProductMonotone
  <2>2. /\ (d + R) * A = d * A + R * A /\ (d2 + b) * A = d2 * A + b * A
        /\ (d + b2 + R) * A = d * A + b2 * A + R * A
    BY <1>4, <1>5
  <2> QED
    BY <1>8, <2>1, <2>2
<1>10. o2 + 0 \div n <= o + 0 \div n + RB
  BY <1>4, <1>6, <1>8, <1>9, FloorsFit
<1>11. o2 + (b * A) \div n <= o + (b2 * A) \div n + RB
  BY <1>4, <1>6, <1>8, <1>9, FloorsFit
<1>12. o2 \in Nat /\ o \in Nat /\ (b * A) \div n \in Nat /\ (b2 * A) \div n \in Nat /\ 0 \div n = 0
  BY <1>4, <1>8, DivBounds
<1>13. RB \in Nat
  BY RoundingInBaseNat DEF HealthInv, RB
<1>14. \E L \in Nat : c <= c2 + L /\ o2 + L <= o + RB
  <2>1. CASE c <= c2
    <3>1. c <= c2 + 0 /\ o2 + 0 <= o + RB
      BY <1>4, <1>10, <1>12, <1>13, <2>1
    <3> QED
      BY <3>1
  <2>2. CASE ~(c <= c2)
    <3>1. counted
      BY <1>4, <2>2
    <3>2. c - c2 \in Nat /\ c <= c2 + (c - c2) /\ o2 + (c - c2) <= o + RB
      BY <1>4, <1>11, <1>12, <1>13, <2>2, <3>1
    <3> QED
      BY <3>2
  <2> QED
    BY <2>1, <2>2
<1>15. PICK L \in Nat : c <= c2 + L /\ o2 + L <= o + RB
  BY <1>14
<1> QED
  BY <1>3, <1>15, OneAssetMoves DEF c, c2, o, o2, RB

(* The same in scaled amounts: what a handler writes.                      *)
LEMMA NotWorse ==
    ASSUME HealthInv, HealthInv', NEW u \in Users, NEW r \in Reserves, Quiet(u),
           UNCHANGED variableBorrowIndex,
           \A q \in Reserves : liquidityIndex[q] <= liquidityIndex'[q],
           \A q \in usingAsCollateral[u] :
               q \in usingAsCollateral'[u] /\ scaledBalance[u][q] <= scaledBalance'[u][q],
           \A q \in Reserves : /\ scaledVariableDebt'[u][q] <= scaledVariableDebt[u][q]
                               /\ stableDebt'[u][q] <= stableDebt[u][q]
    PROVE  StaysHealthy(u)
<1>1. u \in Accounts
  BY DEF Accounts
<1>2. ASSUME NEW q \in Reserves
      PROVE  /\ q \in usingAsCollateral[u]
                  => q \in usingAsCollateral'[u] /\ BalanceOf(u, q) <= BalanceOf(u, q)'
             /\ DebtOf(u, q)' <= DebtOf(u, q)
  <2>1. /\ scaledBalance[u][q] \in Nat /\ scaledBalance'[u][q] \in Nat
        /\ scaledVariableDebt[u][q] \in Nat /\ scaledVariableDebt'[u][q] \in Nat
        /\ stableDebt[u][q] \in Nat /\ stableDebt'[u][q] \in Nat
    BY <1>1 DEF HealthInv, TypeOK
  <2>2. /\ liquidityIndex[q] \in Nat /\ liquidityIndex'[q] \in Nat
        /\ variableBorrowIndex[q] \in Nat
    <3>1. /\ liquidityIndex[q] \in RAY..MaxIndex /\ liquidityIndex'[q] \in RAY..MaxIndex
          /\ variableBorrowIndex[q] \in RAY..MaxIndex
      BY DEF HealthInv, TypeOK
    <3> QED
      BY <3>1, ScaleAssumption, PoolAssumption
  <2>3. ASSUME q \in usingAsCollateral[u] PROVE BalanceOf(u, q) <= BalanceOf(u, q)'
    <3>1. scaledBalance[u][q] <= scaledBalance'[u][q] /\ liquidityIndex[q] <= liquidityIndex'[q]
      BY <2>3
    <3>2. rayMul(scaledBalance[u][q], liquidityIndex[q])
            <= rayMul(scaledBalance'[u][q], liquidityIndex[q])
      BY <2>1, <2>2, <3>1, RayMulMonotoneLeft
    <3>3. rayMul(scaledBalance'[u][q], liquidityIndex[q])
            <= rayMul(scaledBalance'[u][q], liquidityIndex'[q])
      BY <2>1, <2>2, <3>1, RayMulMonotone
    <3>4. /\ rayMul(scaledBalance[u][q], liquidityIndex[q]) \in Nat
          /\ rayMul(scaledBalance'[u][q], liquidityIndex[q]) \in Nat
          /\ rayMul(scaledBalance'[u][q], liquidityIndex'[q]) \in Nat
      BY <2>1, <2>2, RayMulNat
    <3>5. BalanceOf(u, q)' = rayMul(scaledBalance'[u][q], liquidityIndex'[q])
      BY DEF BalanceOf, rayMul
    <3> QED
      BY <3>2, <3>3, <3>4, <3>5 DEF BalanceOf
  <2>4. DebtOf(u, q)' <= DebtOf(u, q)
    <3>1. rayMul(scaledVariableDebt'[u][q], variableBorrowIndex[q])
            <= rayMul(scaledVariableDebt[u][q], variableBorrowIndex[q])
      BY <2>1, <2>2, RayMulMonotoneLeft
    <3>2. /\ rayMul(scaledVariableDebt'[u][q], variableBorrowIndex[q]) \in Nat
          /\ rayMul(scaledVariableDebt[u][q], variableBorrowIndex[q]) \in Nat
      BY <2>1, <2>2, RayMulNat
    <3>3. DebtOf(u, q)' = rayMul(scaledVariableDebt'[u][q], variableBorrowIndex[q])
                            + stableDebt'[u][q]
      BY DEF DebtOf, VariableDebtOf, rayMul
    <3>4. DebtOf(u, q) = rayMul(scaledVariableDebt[u][q], variableBorrowIndex[q])
                           + stableDebt[u][q]
      BY DEF DebtOf, VariableDebtOf
    <3>5. stableDebt'[u][q] <= stableDebt[u][q]
      OBVIOUS
    <3> QED
      BY <2>1, <3>1, <3>2, <3>3, <3>4, <3>5
  <2> QED
    BY <2>3, <2>4
<1> QED
  BY <1>2, BetterOff

LEMMA Unmoved ==
    ASSUME HealthInv, HealthInv', NEW u \in Users, Quiet(u),
           borrowing'[u] = borrowing[u], usingAsCollateral'[u] = usingAsCollateral[u],
           \A r \in Reserves :
               BalanceOf(u, r)' = BalanceOf(u, r) /\ DebtOf(u, r)' = DebtOf(u, r)
    PROVE  StaysHealthy(u)
<1> SUFFICES ASSUME Healthy(u) PROVE StaysHealthy(u)
  BY DEF StaysHealthy
<1>1. Position(u) \in PositionType
  BY PositionTyped DEF HealthInv
<1>2. ValidateHealthFactor(Position(u))
  BY DEF Healthy, ValidateHealthFactor
<1>3. /\ Position(u).eMode = eModeCategory'[u] /\ Position(u).borrowing = borrowing'[u]
      /\ \A r \in Reserves :
           /\ Position(u).balance[r] = BalanceOf(u, r)' /\ Position(u).debt[r] = DebtOf(u, r)'
           /\ r \in Position(u).collateral <=> r \in usingAsCollateral'[u]
  BY DEF Position, Quiet
<1>4. UNCHANGED <<governance, market>>
  BY DEF Quiet
<1> QED
  BY <1>1, <1>2, <1>3, <1>4, Validated

(* The call does not touch the user's debts.                               *)
LEMMA DebtsStay ==
    ASSUME HealthInv, HealthInv', NEW u \in Users, NEW r \in Reserves, Quiet(u),
           UNCHANGED <<indices, debtTokens>>,
           \A q \in usingAsCollateral[u] :
               q \in usingAsCollateral'[u] /\ scaledBalance[u][q] <= scaledBalance'[u][q]
    PROVE  StaysHealthy(u)
<1>1. /\ variableBorrowIndex' = variableBorrowIndex /\ liquidityIndex' = liquidityIndex
      /\ scaledVariableDebt' = scaledVariableDebt /\ stableDebt' = stableDebt
  BY DEF indices, debtTokens
<1>2. \A q \in Reserves : /\ liquidityIndex[q] <= liquidityIndex'[q]
                          /\ scaledVariableDebt'[u][q] <= scaledVariableDebt[u][q]
                          /\ stableDebt'[u][q] <= stableDebt[u][q]
  <2> SUFFICES ASSUME NEW q \in Reserves
               PROVE  /\ liquidityIndex[q] <= liquidityIndex'[q]
                      /\ scaledVariableDebt'[u][q] <= scaledVariableDebt[u][q]
                      /\ stableDebt'[u][q] <= stableDebt[u][q]
    OBVIOUS
  <2>1. /\ liquidityIndex[q] \in Nat /\ scaledVariableDebt[u][q] \in Nat
        /\ stableDebt[u][q] \in Nat
    BY IndexFacts, DebtNat DEF HealthInv
  <2> QED
    BY <1>1, <2>1
<1> QED
  BY <1>1, <1>2, NotWorse

-----------------------------------------------------------------------------
(* The calls of suppliers.                                                 *)
LEMMA BalanceWritten ==
    ASSUME TypeOK, NEW v \in Users, NEW r \in Reserves, NEW s \in Nat, NEW u \in Users,
           NEW b, b = [scaledBalance EXCEPT ![v][r] = @ + s]
    PROVE  \A q \in Reserves : scaledBalance[u][q] <= b[u][q]
<1>1. u \in Accounts /\ v \in Accounts
  BY DEF Accounts
<1>2. \A q \in Reserves : scaledBalance[u][q] \in Nat
  BY <1>1 DEF TypeOK
<1> QED
  BY <1>1, <1>2 DEF TypeOK

LEMMA CollateralReceived ==
    ASSUME NEW b \in [Users -> SUBSET Reserves], NEW v \in Users, NEW r, NEW first,
           NEW sender, NEW u \in Users
    PROVE  b[u] \subseteq CollateralOnReceipt(b, v, r, first, sender)[u]
  BY DEF CollateralOnReceipt

LEMMA SupplyHealthy ==
    ASSUME HealthInv, HealthInv', NEW sender, NEW v \in Users, NEW r \in Reserves,
           NEW x \in Amounts, Supply(sender, v, r, x), NEW u \in Users
    PROVE  StaysHealthy(u)
<1>1. rayDiv(x, liquidityIndex[r]) \in Nat
  BY StorageAssumption, ScaledNat DEF HealthInv
<1>2. scaledBalance' = [scaledBalance EXCEPT ![v][r] = @ + rayDiv(x, liquidityIndex[r])]
  BY DEF Supply, MintAToken
<1>3. \A q \in Reserves : scaledBalance[u][q] <= scaledBalance'[u][q]
  BY <1>1, <1>2, BalanceWritten DEF HealthInv
<1>4. usingAsCollateral \in [Users -> SUBSET Reserves]
  BY DEF HealthInv, TypeOK
<1>5. usingAsCollateral[u] \subseteq usingAsCollateral'[u]
  BY <1>4, CollateralReceived DEF Supply
<1>6. Quiet(u) /\ UNCHANGED <<indices, debtTokens>>
  BY DEF Supply, Quiet
<1> QED
  BY <1>3, <1>4, <1>5, <1>6, DebtsStay

LEMMA WithdrawHealthy ==
    ASSUME HealthInv, HealthInv', NEW v \in Users, NEW r \in Reserves,
           NEW x \in Requests, Withdraw(v, r, x), NEW u \in Users
    PROVE  StaysHealthy(u)
<1>1. PICK amount \in Nat :
          /\ BurnAToken(v, r, amount)
          /\ usingAsCollateral' =
               [usingAsCollateral EXCEPT ![v] = IF amount = BalanceOf(v, r) THEN @ \ {r} ELSE @]
  <2>1. v \in Accounts
    BY DEF Accounts
  <2> QED
    BY <2>1, BalanceNat, RequestNat DEF Withdraw, HealthInv
<1>2. scaledBalance' = [scaledBalance EXCEPT ![v][r] = @ - rayDiv(amount, liquidityIndex[r])]
  BY <1>1 DEF BurnAToken
<1>3. u \in Accounts /\ v \in Accounts
  BY DEF Accounts
<1>4. /\ usingAsCollateral \in [Users -> SUBSET Reserves]
      /\ \A q \in Reserves : scaledBalance[u][q] \in Nat
  BY <1>3 DEF HealthInv, TypeOK
<1>5. Quiet(u) /\ UNCHANGED <<indices, debtTokens>> /\ borrowing' = borrowing
  BY DEF Withdraw, Quiet
<1>6. CASE u # v \/ r \notin usingAsCollateral[u]
  <2>1. \A q \in usingAsCollateral[u] :
            q \in usingAsCollateral'[u] /\ scaledBalance[u][q] <= scaledBalance'[u][q]
    <3> SUFFICES ASSUME NEW q \in usingAsCollateral[u]
                 PROVE  /\ q \in usingAsCollateral'[u]
                        /\ scaledBalance[u][q] <= scaledBalance'[u][q]
      OBVIOUS
    <3>1. q \in Reserves /\ (u # v \/ q # r)
      BY <1>4, <1>6
    <3>2. q \in usingAsCollateral'[u]
      BY <1>1, <1>4, <3>1
    <3>3. scaledBalance'[u][q] = scaledBalance[u][q]
      BY <1>2, <1>3, <3>1 DEF HealthInv, TypeOK
    <3> QED
      BY <1>4, <3>1, <3>2, <3>3
  <2> QED
    BY <1>5, <2>1, DebtsStay
<1>7. CASE u = v /\ r \in usingAsCollateral[u] /\ borrowing[u] = {}
  BY <1>5, <1>7, NoDebts
<1>8. CASE u = v /\ r \in usingAsCollateral[u] /\ borrowing[u] # {}
  <2>1. ValidateHealthFactor(Position(u)')
    BY <1>8 DEF Withdraw, ValidateHFAndLtv
  <2>2. Position(u)' \in PositionType
    BY PositionTypedNext DEF HealthInv
  <2> QED
    BY <1>5, <2>1, <2>2, ValidatedAfter DEF Quiet
<1> QED
  BY <1>6, <1>7, <1>8

(* A transfer is validated with the collateral flag still on; when it is   *)
(* dropped, nothing is left of the balance.                                *)
LEMMA TransferHealthy ==
    ASSUME HealthInv, HealthInv', NEW from \in Users, NEW to \in Users, NEW r \in Reserves,
           NEW x \in Amounts, Transfer(from, to, r, x), NEW u \in Users
    PROVE  StaysHealthy(u)
<1> DEFINE scaled == rayDiv(x, liquidityIndex[r])
           kept == [usingAsCollateral EXCEPT
                       ![from] = IF x = BalanceOf(from, r) THEN @ \ {r} ELSE @]
<1>1. /\ from # to /\ scaled \in Nat /\ scaled <= scaledBalance[from][r]
      /\ scaledBalance' = Moved(scaledBalance, from, to, r, scaled)
  BY StorageAssumption, ScaledNat DEF Transfer, HealthInv
<1>2. u \in Accounts /\ from \in Accounts /\ to \in Accounts
  BY DEF Accounts
<1>3. /\ scaledBalance \in [Accounts -> [Reserves -> Nat]]
      /\ usingAsCollateral \in [Users -> SUBSET Reserves]
  BY DEF HealthInv, TypeOK
<1>4. kept \in [Users -> SUBSET Reserves]
  BY <1>3
<1>5. usingAsCollateral' = CollateralOnReceipt(kept, to, r, BalanceOf(to, r) = 0, NoAsset)
  BY DEF Transfer
<1>6. Quiet(u) /\ UNCHANGED <<indices, debtTokens>> /\ borrowing' = borrowing
  BY DEF Transfer, Quiet
<1>7. \A a \in Accounts, q \in Reserves :
          scaledBalance'[a][q] = IF q # r THEN scaledBalance[a][q]
                                 ELSE IF a = from THEN scaledBalance[a][q] - scaled
                                 ELSE IF a = to THEN scaledBalance[a][q] + scaled
                                 ELSE scaledBalance[a][q]
  <2> HIDE DEF scaled
  <2> QED
    BY <1>1, <1>2, <1>3 DEF Moved
<1>8. /\ u # from => usingAsCollateral[u] \subseteq usingAsCollateral'[u]
      /\ usingAsCollateral'[from] = IF x = BalanceOf(from, r)
                                    THEN usingAsCollateral[from] \ {r}
                                    ELSE usingAsCollateral[from]
  <2>1. /\ u # from => kept[u] = usingAsCollateral[u]
        /\ kept[from] = IF x = BalanceOf(from, r) THEN usingAsCollateral[from] \ {r}
                                                  ELSE usingAsCollateral[from]
    BY <1>3
  <2> HIDE DEF kept
  <2>2. kept[u] \subseteq usingAsCollateral'[u]
    BY <1>4, <1>5, CollateralReceived
  <2>3. usingAsCollateral'[from] = kept[from]
    BY <1>1, <1>4, <1>5 DEF CollateralOnReceipt
  <2> QED
    BY <2>1, <2>2, <2>3
<1> HIDE DEF scaled, kept
<1>9. CASE u # from \/ r \notin usingAsCollateral[u]
  <2>1. \A q \in usingAsCollateral[u] :
            q \in usingAsCollateral'[u] /\ scaledBalance[u][q] <= scaledBalance'[u][q]
    <3> SUFFICES ASSUME NEW q \in usingAsCollateral[u]
                 PROVE  /\ q \in usingAsCollateral'[u]
                        /\ scaledBalance[u][q] <= scaledBalance'[u][q]
      OBVIOUS
    <3>1. q \in Reserves /\ (u # from \/ q # r) /\ scaledBalance[u][q] \in Nat
      BY <1>2, <1>3, <1>9
    <3>2. q \in usingAsCollateral'[u]
      BY <1>8, <3>1
    <3>3. scaledBalance[u][q] <= scaledBalance'[u][q]
      BY <1>1, <1>2, <1>7, <3>1
    <3> QED
      BY <3>2, <3>3
  <2> QED
    BY <1>6, <2>1, DebtsStay
<1>10. CASE u = from /\ r \in usingAsCollateral[u] /\ borrowing[u] = {}
  BY <1>6, <1>10, NoDebts
<1>11. CASE u = from /\ r \in usingAsCollateral[u] /\ borrowing[u] # {}
  <2> DEFINE before == Position(u)'
             p == [Position(u)' EXCEPT !.collateral = usingAsCollateral[u]]
  <2>1. ValidateHealthFactor(p)
    BY <1>11 DEF Transfer, ValidateHFAndLtv
  <2>2. Position(u)' \in PositionType
    BY PositionTypedNext DEF HealthInv
  <2>3. p \in PositionType
    BY <1>3, <2>2 DEF PositionType
  <2>4. /\ p.eMode = eModeCategory'[u] /\ p.borrowing = borrowing'[u]
        /\ p.collateral = usingAsCollateral[u]
        /\ \A q \in Reserves : p.balance[q] = BalanceOf(u, q)' /\ p.debt[q] = DebtOf(u, q)'
    BY DEF Position
  <2>5. ASSUME NEW q \in Reserves
        PROVE  (q \in usingAsCollateral[u] <=> q \in usingAsCollateral'[u])
                 \/ BalanceOf(u, q)' = 0
    <3>1. CASE q # r \/ x # BalanceOf(u, r)
      BY <1>8, <1>11, <3>1
    <3>2. CASE q = r /\ x = BalanceOf(u, r)
      <4>1. /\ scaledBalance[u][r] \in Nat /\ liquidityIndex[r] \in Nat
            /\ liquidityIndex[r] >= RAY
        BY <1>2, <1>3, IndexFacts DEF HealthInv
      <4>2. scaled = scaledBalance[u][r]
        BY <3>2, <4>1, RoundTrip DEF scaled, BalanceOf
      <4>3. scaledBalance'[u][r] = 0
        BY <1>2, <1>7, <1>11, <4>1, <4>2
      <4>4. liquidityIndex' = liquidityIndex
        BY <1>6 DEF indices
      <4>5. rayMul(0, liquidityIndex[r]) = 0
        BY <4>1, RayMulZero
      <4>6. BalanceOf(u, r)' = rayMul(scaledBalance'[u][r], liquidityIndex'[r])
        BY DEF BalanceOf, rayMul
      <4> QED
        BY <3>2, <4>3, <4>4, <4>5, <4>6
    <3> QED
      BY <3>1, <3>2
  <2>6. UNCHANGED <<governance, market>>
    BY <1>6 DEF Quiet
  <2> HIDE DEF p
  <2> QED
    BY <2>1, <2>3, <2>4, <2>5, <2>6, Validated
<1> QED
  BY <1>9, <1>10, <1>11

LEMMA SetUseHealthy ==
    ASSUME HealthInv, HealthInv', NEW v \in Users, NEW r \in Reserves, NEW use \in BOOLEAN,
           SetUserUseReserveAsCollateral(v, r, use), NEW u \in Users
    PROVE  StaysHealthy(u)
<1>1. Quiet(u) /\ UNCHANGED <<indices, debtTokens, aToken>>
  BY DEF SetUserUseReserveAsCollateral, Quiet
<1>2. usingAsCollateral' = [usingAsCollateral EXCEPT
                               ![v] = IF use THEN @ \cup {r} ELSE @ \ {r}]
  BY DEF SetUserUseReserveAsCollateral
<1>3. CASE u # v \/ use
  <2>1. usingAsCollateral[u] \subseteq usingAsCollateral'[u]
    BY <1>2, <1>3 DEF HealthInv, TypeOK
  <2>2. \A q \in Reserves : scaledBalance[u][q] <= scaledBalance'[u][q]
    <3>1. u \in Accounts
      BY DEF Accounts
    <3>2. \A q \in Reserves : scaledBalance[u][q] \in Nat
      BY <3>1 DEF HealthInv, TypeOK
    <3> QED
      BY <1>1, <3>2 DEF aToken
  <2>3. usingAsCollateral[u] \subseteq Reserves
    BY DEF HealthInv, TypeOK
  <2> QED
    BY <1>1, <2>1, <2>2, <2>3, DebtsStay
<1>4. CASE u = v /\ ~use
  <2>1. ValidateHealthFactor(Position(u)')
    BY <1>4 DEF SetUserUseReserveAsCollateral, ValidateHFAndLtv
  <2> QED
    BY <1>1, <2>1, ValidatedAfter DEF Quiet
<1> QED
  BY <1>3, <1>4

-----------------------------------------------------------------------------
(* The other calls.                                                        *)
LEMMA MintUnbackedHealthy ==
    ASSUME HealthInv, HealthInv', NEW v \in Users, NEW r \in Reserves,
           NEW x \in Amounts, MintUnbacked(v, r, x), NEW u \in Users
    PROVE  StaysHealthy(u)
<1>1. rayDiv(x, liquidityIndex[r]) \in Nat
  BY StorageAssumption, ScaledNat DEF HealthInv
<1>2. scaledBalance' = [scaledBalance EXCEPT ![v][r] = @ + rayDiv(x, liquidityIndex[r])]
  BY DEF MintUnbacked, MintAToken
<1>3. \A q \in Reserves : scaledBalance[u][q] <= scaledBalance'[u][q]
  BY <1>1, <1>2, BalanceWritten DEF HealthInv
<1>4. usingAsCollateral \in [Users -> SUBSET Reserves]
  BY DEF HealthInv, TypeOK
<1>5. usingAsCollateral[u] \subseteq usingAsCollateral'[u]
  BY <1>4, CollateralReceived DEF MintUnbacked
<1>6. Quiet(u) /\ UNCHANGED <<indices, debtTokens>>
  BY DEF MintUnbacked, Quiet
<1> QED
  BY <1>3, <1>4, <1>5, <1>6, DebtsStay

(* Income moves an index and nothing of any position.                      *)
LEMMA PositionKept ==
    ASSUME HealthInv, HealthInv', NEW u \in Users, NEW r \in Reserves, Quiet(u),
           UNCHANGED <<variableBorrowIndex, aToken, debtTokens, userFlags>>,
           \A q \in Reserves : liquidityIndex[q] <= liquidityIndex'[q]
    PROVE  StaysHealthy(u)
<1>1. \A q \in Reserves :
          /\ scaledBalance[u][q] <= scaledBalance'[u][q]
          /\ scaledVariableDebt'[u][q] <= scaledVariableDebt[u][q]
          /\ stableDebt'[u][q] <= stableDebt[u][q]
  <2>1. u \in Accounts
    BY DEF Accounts
  <2>2. \A q \in Reserves : /\ scaledBalance[u][q] \in Nat
                            /\ scaledVariableDebt[u][q] \in Nat /\ stableDebt[u][q] \in Nat
    BY <2>1 DEF HealthInv, TypeOK
  <2> QED
    BY <2>2 DEF aToken, debtTokens
<1>2. usingAsCollateral' = usingAsCollateral /\ usingAsCollateral[u] \subseteq Reserves
  BY DEF userFlags, HealthInv, TypeOK
<1> QED
  BY <1>1, <1>2, NotWorse

LEMMA BackUnbackedHealthy ==
    ASSUME HealthInv, HealthInv', NEW r \in Reserves, NEW x \in Amounts, NEW fee \in Fees,
           BackUnbacked(r, x, fee), NEW u \in Users
    PROVE  StaysHealthy(u)
<1> DEFINE feeToProtocol == percentMul(fee, BridgeProtocolFee)
           total == TotalLiquidity(r)
           index == CumulatedLiquidityIndex(r, total, fee - feeToProtocol)
<1>1. fee \in Nat /\ BridgeProtocolFee \in Nat
  BY PoolAssumption
<1>2. /\ feeToProtocol <= fee /\ total # 0 /\ index <= MaxIndex
      /\ liquidityIndex' = [liquidityIndex EXCEPT ![r] = index]
  BY DEF BackUnbacked
<1>3. feeToProtocol \in Nat
  BY <1>1, PercentMulNat
<1>4. liquidityIndex[r] <= index
  <2>1. fee - feeToProtocol \in Nat
    <3> HIDE DEF feeToProtocol
    <3> QED
      BY <1>1, <1>2, <1>3
  <2> HIDE DEF feeToProtocol
  <2> QED
    BY <1>2, <2>1, CumulatedIndexType DEF HealthInv
<1> HIDE DEF index
<1>5. \A q \in Reserves : liquidityIndex[q] <= liquidityIndex'[q]
  <2>1. \A q \in Reserves : liquidityIndex[q] \in Nat
    BY IndexFacts DEF HealthInv
  <2> QED
    BY <1>2, <1>4, <2>1 DEF HealthInv, TypeOK
<1>6. /\ Quiet(u) /\ UNCHANGED <<variableBorrowIndex, aToken, debtTokens, userFlags>>
  BY DEF BackUnbacked, Quiet
<1> QED
  BY <1>5, <1>6, PositionKept

LEMMA MintToTreasuryHealthy ==
    ASSUME HealthInv, HealthInv', NEW r \in Reserves, MintToTreasury(r), NEW u \in Users
    PROVE  StaysHealthy(u)
<1>1. Quiet(u) /\ UNCHANGED <<indices, debtTokens, userFlags>>
  BY DEF MintToTreasury, Quiet
<1>2. \A q \in usingAsCollateral[u] :
          q \in usingAsCollateral'[u] /\ scaledBalance[u][q] <= scaledBalance'[u][q]
  <2>1. u \in Accounts /\ u # Treasury
    BY StorageAssumption DEF Accounts
  <2>2. scaledBalance'[u] = scaledBalance[u]
    BY <2>1 DEF MintToTreasury, MintAToken, HealthInv, TypeOK
  <2>3. usingAsCollateral' = usingAsCollateral /\ usingAsCollateral[u] \subseteq Reserves
    BY <1>1 DEF userFlags, HealthInv, TypeOK
  <2>4. \A q \in Reserves : scaledBalance[u][q] \in Nat
    BY <2>1 DEF HealthInv, TypeOK
  <2> QED
    BY <2>2, <2>3, <2>4
<1> QED
  BY <1>1, <1>2, DebtsStay

(* Leaving a category is validated.  Entering one from none without a new  *)
(* price and without a lower threshold can only raise what is covered.     *)
LEMMA SetUserEModeHealthy ==
    ASSUME HealthInv, HealthInv', NEW v \in Users, NEW c \in Categories \cup {NoCategory},
           SetUserEMode(v, c), NEW u \in Users, ~EntersUnchecked(u)
    PROVE  StaysHealthy(u)
<1>1. /\ UNCHANGED <<governance, indices, aToken, debtTokens, userFlags, market>>
      /\ eModeCategory' = [eModeCategory EXCEPT ![v] = c]
  BY DEF SetUserEMode
<1>2. /\ borrowing' = borrowing /\ usingAsCollateral' = usingAsCollateral
      /\ \A r \in Reserves :
           BalanceOf(u, r)' = BalanceOf(u, r) /\ DebtOf(u, r)' = DebtOf(u, r)
  BY <1>1 DEF userFlags, aToken, debtTokens, indices, BalanceOf, DebtOf, VariableDebtOf
<1>3. CASE eModeCategory'[u] = eModeCategory[u]
  BY <1>1, <1>2, <1>3, Unmoved DEF Quiet
<1>4. CASE u = v /\ eModeCategory[u] # NoCategory
  <2> DEFINE p == [Position(u) EXCEPT !.eMode = c]
  <2>1. ValidateHealthFactor(p)
    BY <1>4 DEF SetUserEMode
  <2>2. p \in PositionType
    <3>1. Position(u) \in PositionType
      BY PositionTyped DEF HealthInv
    <3> QED
      BY <3>1 DEF PositionType
  <2>3. eModeCategory'[u] = c
    BY <1>1, <1>4 DEF HealthInv, TypeOK
  <2>4. /\ p.eMode = eModeCategory'[u] /\ p.borrowing = borrowing'[u]
        /\ \A r \in Reserves :
             /\ p.balance[r] = BalanceOf(u, r)' /\ p.debt[r] = DebtOf(u, r)'
             /\ r \in p.collateral <=> r \in usingAsCollateral'[u]
    BY <1>2, <2>3 DEF Position
  <2> HIDE DEF p
  <2> QED
    BY <1>1, <2>1, <2>2, <2>4, Validated
<1>5. CASE eModeCategory[u] = NoCategory /\ eModeCategory'[u] # NoCategory
  <2>1. ~HasPriceSource(eModeCategory'[u]) /\ ~LowersThreshold(eModeCategory'[u], u)
    BY <1>5 DEF EntersUnchecked
  <2>2. UNCHANGED <<config, price, eModeCategories>>
    BY <1>1 DEF governance, market
  <2>3. ASSUME NEW r \in Reserves
        PROVE  /\ CountedIn(Position(u))'[r] = CountedIn(Position(u))[r]
               /\ OwedIn(Position(u))'[r] = OwedIn(Position(u))[r]
               /\ WeightedIn(Position(u))[r] <= WeightedIn(Position(u))'[r]
    <3> DEFINE t == LiquidationThreshold(eModeCategory[u], r)
               t2 == LiquidationThreshold(eModeCategory[u], r)'
               k == CountedIn(Position(u))[r]
    <3>1. AssetPrice(eModeCategory[u], r) = price[r] /\ AssetPrice(eModeCategory[u], r)' = price[r]
      <4>1. ~HasPriceSource(eModeCategory[u]) /\ ~HasPriceSource(eModeCategory[u])'
        BY <1>5, <2>1, <2>2 DEF HasPriceSource
      <4> QED
        BY <2>2, <4>1 DEF AssetPrice
    <3>2. /\ CountedIn(Position(u))'[r] = k
          /\ OwedIn(Position(u))'[r] = OwedIn(Position(u))[r]
      BY <1>2, <2>2, <3>1, ValuesOf, ValuesOfNext DEF ValuesAre
    <3>3. /\ WeightedIn(Position(u))[r] = k * t /\ WeightedIn(Position(u))'[r] = k * t2
      BY <3>2, ValuesOf, ValuesOfNext DEF ValuesAre
    <3>4. t = config[r].liquidationThreshold /\ t \in Nat
      <4>1. eModeCategory[u] \in Categories \cup {NoCategory}
        BY DEF HealthInv, TypeOK
      <4>2. t \in Nat
        BY <4>1, ThresholdNat DEF HealthInv
      <4> QED
        BY <1>5, <4>2 DEF LiquidationThreshold, IsInEModeCategory
    <3>5. t2 = LiquidationThreshold(eModeCategory'[u], r) /\ t2 \in Nat
      <4>1. t2 = LiquidationThreshold(eModeCategory'[u], r)
        BY <2>2 DEF LiquidationThreshold, IsInEModeCategory
      <4>2. eModeCategory'[u] \in Categories \cup {NoCategory}
        BY DEF HealthInv, TypeOK
      <4>3. LiquidationThreshold(eModeCategory'[u], r) \in Nat
        BY <4>2, ThresholdNat DEF HealthInv
      <4> QED
        BY <4>1, <4>3
    <3>6. k \in Nat
      <4>1. PositionFacts(Position(u))
        BY UsersAddUp DEF HealthInv
      <4> QED
        BY <4>1 DEF PositionFacts
    <3>7. k * t <= k * t2
      <4>1. CASE r \in usingAsCollateral[u]
        <5>1. t <= t2
          BY <2>1, <3>4, <3>5, <4>1 DEF LowersThreshold
        <5> HIDE DEF t, t2, k
        <5>2. t * k <= t2 * k
          BY <3>4, <3>5, <3>6, <5>1, ProductMonotone
        <5> QED
          BY <3>4, <3>5, <3>6, <5>2
      <4>2. CASE r \notin usingAsCollateral[u]
        <5>1. k = 0
          BY <4>2, ValuesOf DEF ValuesAre
        <5> HIDE DEF t, t2, k
        <5> QED
          BY <3>4, <3>5, <5>1
      <4> QED
        BY <4>1, <4>2
    <3> QED
      BY <3>2, <3>3, <3>7
  <2>4. PositionFacts(Position(u)) /\ PositionFacts(Position(u))'
    BY UsersAddUp, UsersAddUpNext DEF HealthInv
  <2>5. IsFiniteSet(Reserves)
    BY StorageAssumption
  <2>6. Weighted(Position(u)) <= Weighted(Position(u))'
    <3>1. /\ WeightedIn(Position(u)) \in [Reserves -> Nat]
          /\ WeightedIn(Position(u))' \in [Reserves -> Nat]
      BY <2>4 DEF PositionFacts
    <3>2. Counted(WeightedIn(Position(u)), Reserves) <= Counted(WeightedIn(Position(u))', Reserves)
      BY <2>3, <2>5, <3>1, CountedMonotone
    <3> QED
      BY <3>2 DEF Weighted
  <2>7. TotalDebt(Position(u))' = TotalDebt(Position(u))
    <3>1. OwedIn(Position(u))' = OwedIn(Position(u))
      BY <2>3, <2>4 DEF PositionFacts
    <3> QED
      BY <2>4, <3>1 DEF PositionFacts
  <2>8. CASE Reserves = {}
    <3>1. TotalDebt(Position(u)) = 0
      BY <2>4, <2>8, CountedNothing DEF PositionFacts
    <3>2. HealthFactor(Position(u))' = HealthFactor(Position(u))
      BY <2>7, <3>1 DEF HealthFactor
    <3> QED
      BY <3>2 DEF StaysHealthy, Healthy, HEALTH_FACTOR_LIQUIDATION_THRESHOLD
  <2>9. CASE Reserves # {}
    <3>1. PICK r \in Reserves : TRUE
      BY <2>9
    <3>2. RoundingInBase(u, r) \in Nat
      BY RoundingInBaseNat DEF HealthInv
    <3>3. /\ Weighted(Position(u)) <= Weighted(Position(u))' + 0 * PERCENTAGE_FACTOR
          /\ TotalDebt(Position(u))' + 0 <= TotalDebt(Position(u)) + RoundingInBase(u, r)
      <4>1. /\ Weighted(Position(u))' \in Nat /\ TotalDebt(Position(u)) \in Nat
            /\ TotalDebt(Position(u))' \in Nat
        BY <2>4 DEF PositionFacts
      <4> QED
        BY <2>6, <2>7, <3>2, <4>1, ScaleAssumption
    <3> QED
      BY <3>3, LittleLost DEF HealthInv
  <2> QED
    BY <2>8, <2>9
<1>6. u # v => eModeCategory'[u] = eModeCategory[u]
  BY <1>1 DEF HealthInv, TypeOK
<1> QED
  BY <1>3, <1>4, <1>5, <1>6

-----------------------------------------------------------------------------
(* What a debt or a balance amounts to after a step that leaves the        *)
(* indices alone.                                                          *)
LEMMA AmountsFollow ==
    ASSUME UNCHANGED indices, NEW u \in Users, NEW q \in Reserves
    PROVE  /\ BalanceOf(u, q)' = rayMul(scaledBalance'[u][q], liquidityIndex[q])
           /\ DebtOf(u, q)' = rayMul(scaledVariableDebt'[u][q], variableBorrowIndex[q])
                                + stableDebt'[u][q]
           /\ scaledBalance'[u][q] = scaledBalance[u][q] => BalanceOf(u, q)' = BalanceOf(u, q)
           /\ scaledVariableDebt'[u][q] = scaledVariableDebt[u][q]
              /\ stableDebt'[u][q] = stableDebt[u][q] => DebtOf(u, q)' = DebtOf(u, q)
<1>1. liquidityIndex' = liquidityIndex /\ variableBorrowIndex' = variableBorrowIndex
  BY DEF indices
<1> QED
  BY <1>1 DEF BalanceOf, DebtOf, VariableDebtOf, rayMul

(* A debt grows by what was borrowed, up to its rounding, and no other     *)
(* does.                                                                   *)
LEMMA DebtOpened ==
    ASSUME TypeOK, UNCHANGED indices, NEW v \in Users, NEW r \in Reserves, NEW x \in Nat,
           NEW mode, OpenDebt(v, r, x, mode)
    PROVE  /\ DebtOf(v, r)' <= DebtOf(v, r) + x + Rounding(variableBorrowIndex[r])
           /\ \A u \in Users, q \in Reserves : u # v \/ q # r =>
                  /\ scaledVariableDebt'[u][q] = scaledVariableDebt[u][q]
                  /\ stableDebt'[u][q] = stableDebt[u][q]
<1> DEFINE i == variableBorrowIndex[r]
           s == scaledVariableDebt[v][r]
           d == stableDebt[v][r]
<1>1. i \in Nat /\ RAY <= i /\ s \in Nat /\ d \in Nat
  BY IndexFacts, DebtNat
<1>2. Rounding(i) \in Nat /\ rayMul(s, i) \in Nat /\ rayDiv(x, i) \in Nat
  <2>1. Rounding(i) \in Nat /\ rayMul(s, i) \in Nat
    BY <1>1, RoundingNat, RayMulNat
  <2>2. i \in Nat \ {0}
    BY IndexFacts
  <2> QED
    BY <2>1, <2>2, RayDivNat
<1>3. DebtOf(v, r) = rayMul(s, i) + d
  BY DEF DebtOf, VariableDebtOf
<1>4. DebtOf(v, r)' = rayMul(scaledVariableDebt'[v][r], i) + stableDebt'[v][r]
  BY AmountsFollow
<1>5. CASE MintStableDebt(v, r, x) /\ UNCHANGED variableDebtToken
  <2>1. scaledVariableDebt' = scaledVariableDebt
        /\ stableDebt' = [stableDebt EXCEPT ![v][r] = @ + x]
    BY <1>5 DEF MintStableDebt, variableDebtToken
  <2>2. stableDebt'[v][r] = d + x
    BY <2>1 DEF TypeOK
  <2>3. \A u \in Users, q \in Reserves : u # v \/ q # r => stableDebt'[u][q] = stableDebt[u][q]
    BY <2>1 DEF TypeOK
  <2> HIDE DEF i, s, d
  <2> QED
    BY <1>1, <1>2, <1>3, <1>4, <2>1, <2>2, <2>3 DEF s, i
<1>6. CASE MintVariableDebt(v, r, x) /\ UNCHANGED stableDebt
  <2>1. scaledVariableDebt' = [scaledVariableDebt EXCEPT ![v][r] = @ + rayDiv(x, i)]
        /\ stableDebt' = stableDebt
    BY <1>6 DEF MintVariableDebt
  <2>2. scaledVariableDebt'[v][r] = s + rayDiv(x, i)
    BY <2>1 DEF TypeOK
  <2>3. \A u \in Users, q \in Reserves : u # v \/ q # r
            => scaledVariableDebt'[u][q] = scaledVariableDebt[u][q]
    BY <2>1 DEF TypeOK
  <2>4. DebtOf(v, r)' = rayMul(s + rayDiv(x, i), i) + d
    BY <1>4, <2>1, <2>2
  <2> HIDE DEF i, s, d
  <2>5. rayMul(s + rayDiv(x, i), i) <= rayMul(s, i) + x + Rounding(i)
    BY <1>1, WriteRounds
  <2>6. rayMul(s + rayDiv(x, i), i) \in Nat
    <3>1. s + rayDiv(x, i) \in Nat
      BY <1>1, <1>2
    <3> QED
      BY <1>1, <3>1, RayMulNat
  <2>7. rayMul(s + rayDiv(x, i), i) + d <= rayMul(s, i) + d + x + Rounding(i)
    BY <1>1, <1>2, <2>5, <2>6
  <2> QED
    BY <1>3, <2>1, <2>3, <2>4, <2>7 DEF i
<1> QED
  BY <1>5, <1>6 DEF OpenDebt

(* A burn takes what was repaid off the debt, up to its rounding, and      *)
(* raises no scaled debt.                                                  *)
LEMMA VariableDebtRepaid ==
    ASSUME TypeOK, NEW v \in Users, NEW r \in Reserves, NEW x \in Nat,
           BurnVariableDebt(v, r, x)
    PROVE  /\ rayMul(scaledVariableDebt'[v][r], variableBorrowIndex[r]) + x
                <= VariableDebtOf(v, r) + Rounding(variableBorrowIndex[r])
           /\ \A u \in Users, q \in Reserves :
                  /\ scaledVariableDebt'[u][q] <= scaledVariableDebt[u][q]
                  /\ u # v \/ q # r => scaledVariableDebt'[u][q] = scaledVariableDebt[u][q]
<1> DEFINE i == variableBorrowIndex[r]
           s == scaledVariableDebt[v][r]
           b == rayDiv(x, i)
<1>1. i \in Nat \ {0} /\ RAY <= i /\ s \in Nat /\ b \in Nat
  BY IndexFacts, DebtNat, RayDivNat
<1>2. scaledVariableDebt' = [scaledVariableDebt EXCEPT ![v][r] = @ - b] /\ b <= s
  BY DEF BurnVariableDebt
<1>3. scaledVariableDebt'[v][r] = s - b
  BY <1>2 DEF TypeOK
<1>4. \A u \in Users, q \in Reserves :
          /\ scaledVariableDebt'[u][q] <= scaledVariableDebt[u][q]
          /\ u # v \/ q # r => scaledVariableDebt'[u][q] = scaledVariableDebt[u][q]
  <2> SUFFICES ASSUME NEW u \in Users, NEW q \in Reserves
               PROVE  /\ scaledVariableDebt'[u][q] <= scaledVariableDebt[u][q]
                      /\ u # v \/ q # r => scaledVariableDebt'[u][q] = scaledVariableDebt[u][q]
    OBVIOUS
  <2>1. u # v \/ q # r => scaledVariableDebt'[u][q] = scaledVariableDebt[u][q]
    BY <1>2 DEF TypeOK
  <2>2. scaledVariableDebt[u][q] \in Nat
    BY DebtNat
  <2> HIDE DEF b, i, s
  <2> QED
    BY <1>1, <1>2, <1>3, <2>1, <2>2 DEF s
<1> HIDE DEF b
<1>5. rayMul((s - b) + rayDiv(x, i), i) = rayMul(s, i)
  <2>1. (s - b) + b = s
    BY <1>1
  <2> QED
    BY <2>1 DEF b
<1>6. rayMul(s - b, i) + x <= rayMul((s - b) + rayDiv(x, i), i) + Rounding(i)
  <2>1. s - b \in Nat
    BY <1>1, <1>2
  <2> QED
    BY <1>1, <2>1, WriteRounds
<1> QED
  BY <1>3, <1>4, <1>5, <1>6 DEF VariableDebtOf

LEMMA StableDebtRepaid ==
    ASSUME TypeOK, NEW v \in Users, NEW r \in Reserves, NEW x \in Nat,
           BurnStableDebt(v, r, x)
    PROVE  /\ stableDebt'[v][r] + x = stableDebt[v][r]
           /\ \A u \in Users, q \in Reserves :
                  /\ stableDebt'[u][q] <= stableDebt[u][q]
                  /\ u # v \/ q # r => stableDebt'[u][q] = stableDebt[u][q]
<1>1. stableDebt' = [stableDebt EXCEPT ![v][r] = @ - x] /\ x <= stableDebt[v][r]
  BY DEF BurnStableDebt
<1>2. \A u \in Users, q \in Reserves : stableDebt[u][q] \in Nat
  BY DebtNat
<1>3. stableDebt'[v][r] = stableDebt[v][r] - x
  BY <1>1 DEF TypeOK
<1>4. \A u \in Users, q \in Reserves : u # v \/ q # r => stableDebt'[u][q] = stableDebt[u][q]
  BY <1>1 DEF TypeOK
<1> QED
  BY <1>1, <1>2, <1>3, <1>4

-----------------------------------------------------------------------------
(* The calls of borrowers.                                                 *)

(* What may be borrowed against a collateral is within what covers a debt. *)
LEMMA LtvCovers ==
    ASSUME TypeOK, AsListed, NEW p \in PositionType, TotalCollateral(p) # 0, AverageLtv(p) # 0,
           NEW owed \in Nat, percentDiv(owed, AverageLtv(p)) <= TotalCollateral(p)
    PROVE  owed <= percentMul(TotalCollateral(p), AverageLiquidationThreshold(p) + 1)
<1> DEFINE T == TotalCollateral(p)
           W == Weighted(p)
           B == Borrowable(p)
<1>1. /\ T \in Nat \ {0} /\ W \in Nat /\ B \in Nat /\ B <= W /\ W <= PERCENTAGE_FACTOR * T
      /\ AverageLtv(p) = AverageOf(T, B)
      /\ AverageLiquidationThreshold(p) = AverageOf(T, W)
  BY PositionsAddUp DEF PositionFacts
<1>2. AverageLtv(p) = B \div T /\ AverageLiquidationThreshold(p) = W \div T
  BY <1>1 DEF AverageOf
<1> HIDE DEF T, W, B
<1>3. B \div T \in Nat /\ W \div T \in Nat /\ B \div T <= W \div T
  BY <1>1, DivBounds, QuotientMonotone
<1>4. B \div T <= PERCENTAGE_FACTOR
  <2>1. PERCENTAGE_FACTOR \in Nat /\ PERCENTAGE_FACTOR * T \in Nat
    BY <1>1, ScaleAssumption, ProductNat
  <2>2. B <= PERCENTAGE_FACTOR * T
    BY <1>1, <2>1
  <2>3. (PERCENTAGE_FACTOR * T) \div T = PERCENTAGE_FACTOR
    BY <1>1, <2>1, DivUnique
  <2>4. B \div T <= (PERCENTAGE_FACTOR * T) \div T
    BY <1>1, <2>1, <2>2, QuotientMonotone
  <2> QED
    BY <2>3, <2>4
<1>5. B \div T \in 1..PERCENTAGE_FACTOR
  BY <1>2, <1>3, <1>4, ScaleAssumption
<1>6. owed <= percentMul(T, B \div T)
  BY <1>1, <1>2, <1>5, PercentDivCovers DEF T
<1>7. percentMul(T, B \div T) <= percentMul(T, W \div T + 1)
  <2>1. W \div T + 1 \in Nat /\ B \div T <= W \div T + 1
    BY <1>3
  <2> QED
    BY <1>1, <1>3, <2>1, PercentMulMonotone
<1>8. percentMul(T, B \div T) \in Nat /\ percentMul(T, W \div T + 1) \in Nat
  <2>1. W \div T + 1 \in Nat
    BY <1>3
  <2> QED
    BY <1>1, <1>3, <2>1, PercentMulNat
<1> QED
  BY <1>2, <1>6, <1>7, <1>8 DEF T

(* A borrow is checked with the amount asked for; what is written is its   *)
(* rounding away from it.                                                  *)
LEMMA BorrowHealthy ==
    ASSUME HealthInv, HealthInv', NEW v \in Users, NEW r \in Reserves, NEW x \in Nat,
           NEW mode, NEW category, NEW release, ExecuteBorrow(v, r, x, mode, category, release),
           NEW u \in Users, u = v => category = eModeCategory[v]
    PROVE  StaysHealthy(u)
<1>1. /\ UNCHANGED <<governance, indices, aToken, usingAsCollateral, eModeCategory, market>>
      /\ OpenDebt(v, r, x, mode)
      /\ u = v => CollateralCoversBorrow([Position(v) EXCEPT !.eMode = eModeCategory[v]], r, x)
  BY DEF ExecuteBorrow, ValidateBorrow
<1>2. x \in Nat
  OBVIOUS
<1>3. Quiet(u) /\ UNCHANGED <<indices, scaledBalance>> /\ usingAsCollateral' = usingAsCollateral
  BY <1>1 DEF Quiet, aToken
<1>4. /\ DebtOf(v, r)' <= DebtOf(v, r) + x + Rounding(variableBorrowIndex[r])
      /\ \A q \in Reserves : u # v \/ q # r =>
             /\ scaledVariableDebt'[u][q] = scaledVariableDebt[u][q]
             /\ stableDebt'[u][q] = stableDebt[u][q]
  BY <1>1, <1>2, <1>3, DebtOpened DEF HealthInv
<1>5. ASSUME NEW q \in Reserves
      PROVE  /\ BalanceOf(u, q)' = BalanceOf(u, q)
             /\ u # v \/ q # r => DebtOf(u, q)' = DebtOf(u, q)
  BY <1>3, <1>4, AmountsFollow
<1>6. CASE u # v
  <2>1. borrowing'[u] = borrowing[u]
    BY <1>1, <1>6 DEF OpenDebt, HealthInv, TypeOK
  <2> QED
    BY <1>3, <1>5, <1>6, <2>1, Unmoved
<1>7. CASE u = v
  <2> DEFINE p == Position(u)
             A == AssetPrice(eModeCategory[u], r)
             n == config[r].unit
             T == TotalCollateral(p)
             D == TotalDebt(p)
             D2 == TotalDebt(Position(u))'
             o == OwedIn(p)
             o2 == OwedIn(Position(u))'
             aib == (A * x) \div n
             RB == RoundingInBase(u, r)
             cover == percentMul(T, AverageLiquidationThreshold(p) + 1)
             k == D \div (2 * WAD)
  <2>1. p \in PositionType /\ PositionFacts(p) /\ PositionFacts(Position(u))'
    BY PositionTyped, UsersAddUp, UsersAddUpNext DEF HealthInv
  <2>2. [Position(v) EXCEPT !.eMode = eModeCategory[v]] = p
    BY <1>7 DEF Position
  <2>3. /\ T # 0 /\ AverageLtv(p) # 0
        /\ percentDiv(D + aib, AverageLtv(p)) <= T
    <3>1. CollateralCoversBorrow(p, r, x)
      BY <1>1, <1>7, <2>2
    <3>2. p.eMode = eModeCategory[u]
      BY DEF Position
    <3> HIDE DEF p
    <3> QED
      BY <3>1, <3>2 DEF CollateralCoversBorrow
  <2>4. /\ A \in Nat /\ n \in Nat \ {0} /\ AssetPrice(eModeCategory[u], r)' = A /\ config' = config
    BY <1>3, QuietFacts
  <2>5. T \in Nat /\ D \in Nat /\ D2 \in Nat /\ o \in [Reserves -> Nat] /\ o2 \in [Reserves -> Nat]
        /\ D = Counted(o, Reserves) /\ D2 = Counted(o2, Reserves)
    BY <2>1 DEF PositionFacts
  <2>6. A * x \in Nat /\ aib \in Nat
    <3> HIDE DEF A, n
    <3>1. A * x \in Nat
      BY <1>2, <2>4, ProductNat
    <3> QED
      BY <2>4, <3>1, DivBounds
  <2>7. D + aib <= cover
    <3>1. D + aib \in Nat
      BY <2>5, <2>6
    <3> HIDE DEF p, aib
    <3> QED
      BY <2>1, <2>3, <3>1, LtvCovers DEF HealthInv
  <2>8. ASSUME NEW q \in Reserves
        PROVE  /\ CountedIn(Position(u))'[q] = CountedIn(Position(u))[q]
               /\ WeightedIn(Position(u))'[q] = WeightedIn(Position(u))[q]
               /\ q # r => o2[q] = o[q]
    <3>1. /\ AssetPrice(eModeCategory[u], q)' = AssetPrice(eModeCategory[u], q)
          /\ LiquidationThreshold(eModeCategory[u], q)'
               = LiquidationThreshold(eModeCategory[u], q)
          /\ config' = config
      BY <1>3, QuietFacts
    <3>2. CountedIn(Position(u))'[q] = CountedIn(Position(u))[q]
      BY <1>3, <1>5, <3>1, ValuesOf, ValuesOfNext DEF ValuesAre
    <3>3. WeightedIn(Position(u))'[q] = WeightedIn(Position(u))[q]
      BY <3>1, <3>2, ValuesOf, ValuesOfNext DEF ValuesAre
    <3>4. q # r => o2[q] = o[q]
      BY <1>5, <3>1, ValuesOf, ValuesOfNext DEF ValuesAre
    <3> QED
      BY <3>2, <3>3, <3>4
  <2>9. /\ TotalCollateral(Position(u))' = T
        /\ AverageLiquidationThreshold(Position(u))' = AverageLiquidationThreshold(p)
    <3>1. /\ CountedIn(Position(u))' = CountedIn(Position(u))
          /\ WeightedIn(Position(u))' = WeightedIn(Position(u))
      BY <2>1, <2>8 DEF PositionFacts
    <3> QED
      BY <2>1, <3>1 DEF PositionFacts, Weighted
  <2>10. o2[r] <= o[r] + aib + RB
    <3> DEFINE d == DebtOf(u, r)
               d2 == DebtOf(u, r)'
               R == BothRoundings(r)
    <3>1. d \in Nat /\ d2 \in Nat
      BY AmountsNat, AmountsNatNext DEF HealthInv
    <3>2. Rounding(liquidityIndex[r]) \in Nat /\ Rounding(variableBorrowIndex[r]) \in Nat
      BY IndexFacts, RoundingNat DEF HealthInv
    <3>3. R \in Nat /\ d2 <= d + x + R
      BY <1>2, <1>4, <1>7, <3>1, <3>2 DEF BothRoundings
    <3>4. RB = (R * A + 2 * (n - 1)) \div n
      BY DEF RoundingInBase, BothRoundings
    <3>5. o[r] = (d * A) \div n /\ o2[r] = (d2 * A) \div n
      BY <2>4, ValuesOf, ValuesOfNext DEF ValuesAre
    <3> HIDE DEF A, n, o, o2, RB, d, d2, R
    <3>6. d2 * A \in Nat /\ d * A \in Nat /\ R * A \in Nat /\ x * A \in Nat /\ A * x = x * A
      BY <1>2, <2>4, <3>1, <3>3, ProductNat
    <3>7. d2 * A + 0 <= d * A + A * x + R * A
      <4>1. d2 * A <= (d + x + R) * A
        BY <1>2, <2>4, <3>1, <3>3, ProductMonotone
      <4>2. (d + x + R) * A = d * A + x * A + R * A
        BY <1>2, <2>4, <3>1, <3>3
      <4> QED
        BY <3>6, <4>1, <4>2
    <3>8. (d2 * A) \div n + 0 \div n <= (d * A) \div n + (A * x) \div n + (R * A + 2 * (n - 1)) \div n
      BY <2>4, <2>6, <3>6, <3>7, FloorsFit
    <3>9. 0 \div n = 0 /\ (d2 * A) \div n \in Nat
      BY <2>4, <3>6, DivBounds
    <3> QED
      BY <3>4, <3>5, <3>8, <3>9
  <2>11. D2 <= D + aib + RB
    <3>1. D2 = D + o2[r] - o[r]
      <4>1. \A q \in Reserves \ {r} : o2[q] = o[q]
        BY <2>8
      <4>2. IsFiniteSet(Reserves)
        BY StorageAssumption
      <4> HIDE DEF o, o2, D, D2
      <4> QED
        BY <2>5, <4>1, <4>2, CountedMoves
    <3>2. RB \in Nat /\ o[r] \in Nat /\ o2[r] \in Nat
      BY <2>5, RoundingInBaseNat DEF HealthInv
    <3> HIDE DEF o, o2, D, D2, RB, aib
    <3> QED
      BY <2>5, <2>6, <2>10, <3>1, <3>2
  <2>12. k \in Nat /\ cover \in Nat /\ RB \in Nat
    <3>1. AverageLiquidationThreshold(p) + 1 \in Nat
      <4>1. AverageLiquidationThreshold(p) \in Nat
        BY <2>1, DivBounds DEF PositionFacts, AverageOf
      <4> QED
        BY <4>1
    <3>2. RB \in Nat
      BY RoundingInBaseNat DEF HealthInv
    <3>3. T \in Nat /\ D \in Nat
      BY <2>5
    <3> HIDE DEF p, T, D, RB
    <3>4. k \in Nat
      BY <3>3, ScaleAssumption, DivBounds
    <3>5. cover \in Nat
      BY <3>1, <3>3, PercentMulNat
    <3> QED
      BY <3>2, <3>4, <3>5
  <2>13. percentMul(TotalCollateral(Position(u)), AverageLiquidationThreshold(Position(u)) + 1)'
           = cover
    BY <2>9 DEF percentMul
  <2>14. D2 <= cover + RB + k
    <3> HIDE DEF D, D2, cover, RB, k, aib
    <3> QED
      BY <2>5, <2>6, <2>7, <2>11, <2>12
  <2> QED
    BY <2>13, <2>14 DEF StaysHealthy, CoveredUpToRounding
<1> QED
  BY <1>6, <1>7

LEMMA ATokensRepay ==
    ASSUME TypeOK, NEW v \in Users, NEW r \in Reserves, NEW x \in Nat, BurnAToken(v, r, x)
    PROVE  /\ BalanceOf(v, r) <= rayMul(scaledBalance'[v][r], liquidityIndex[r]) + x
                                   + Rounding(liquidityIndex[r])
           /\ \A u \in Users, q \in Reserves :
                  u # v \/ q # r => scaledBalance'[u][q] = scaledBalance[u][q]
<1> DEFINE i == liquidityIndex[r]
           s == scaledBalance[v][r]
           b == rayDiv(x, i)
<1>1. v \in Accounts /\ (\A u \in Users : u \in Accounts)
  BY DEF Accounts
<1>2. i \in Nat \ {0} /\ RAY <= i /\ s \in Nat /\ b \in Nat
  <2>1. s \in Nat
    BY <1>1 DEF TypeOK
  <2> QED
    BY <2>1, IndexFacts, RayDivNat
<1>3. scaledBalance' = [scaledBalance EXCEPT ![v][r] = @ - b] /\ b <= s
  BY DEF BurnAToken
<1>4. scaledBalance'[v][r] = s - b
  BY <1>1, <1>3 DEF TypeOK
<1>5. \A u \in Users, q \in Reserves :
          u # v \/ q # r => scaledBalance'[u][q] = scaledBalance[u][q]
  BY <1>1, <1>3 DEF TypeOK
<1> HIDE DEF b
<1>6. s - b \in Nat /\ (s - b) + b = s
  BY <1>2, <1>3
<1>7. rayMul((s - b) + rayDiv(x, i), i) = rayMul(s, i)
  BY <1>6 DEF b
<1>8. rayMul((s - b) + rayDiv(x, i), i) <= rayMul(s - b, i) + x + Rounding(i)
  BY <1>2, <1>6, WriteRounds
<1> QED
  BY <1>4, <1>5, <1>7, <1>8 DEF BalanceOf

(* A repayment with aTokens takes from the collateral what it takes off    *)
(* the debt, each rounded; any other takes off the debt alone.             *)
LEMMA RepayHealthy ==
    ASSUME HealthInv, HealthInv', NEW v \in Users, NEW r \in Reserves,
           NEW mode \in InterestRateModes, NEW x \in Requests, NEW useATokens \in BOOLEAN,
           Repay(v, r, x, mode, useATokens), NEW u \in Users
    PROVE  StaysHealthy(u)
<1>1. /\ UNCHANGED <<governance, indices, usingAsCollateral, eModeCategory, market>>
      /\ \E payback \in Nat :
            /\ \/ BurnStableDebt(v, r, payback) /\ UNCHANGED variableDebtToken
               \/ BurnVariableDebt(v, r, payback) /\ UNCHANGED stableDebt
            /\ BurnAToken(v, r, payback) \/ UNCHANGED aToken
  <2> DEFINE offered == IF useATokens /\ x = MaxUint256 THEN BalanceOf(v, r) ELSE x
             payback == AtMost(offered, IF mode = STABLE THEN stableDebt[v][r]
                                                         ELSE VariableDebtOf(v, r))
  <2>1. x \in Nat /\ v \in Accounts /\ TypeOK
    BY RequestNat DEF Accounts, HealthInv
  <2>2. payback \in Nat
    <3>1. offered \in Nat
      BY <2>1, BalanceNat
    <3>2. (IF mode = STABLE THEN stableDebt[v][r] ELSE VariableDebtOf(v, r)) \in Nat
      BY <2>1, DebtNat
    <3> QED
      BY <3>1, <3>2, AtMostNat
  <2>3. /\ \/ BurnStableDebt(v, r, payback) /\ UNCHANGED variableDebtToken
           \/ BurnVariableDebt(v, r, payback) /\ UNCHANGED stableDebt
        /\ BurnAToken(v, r, payback) \/ UNCHANGED aToken
        /\ UNCHANGED <<governance, indices, usingAsCollateral, eModeCategory, market>>
    BY DEF Repay, Settle
  <2> HIDE DEF payback
  <2> QED
    BY <2>2, <2>3
<1>2. PICK payback \in Nat :
          /\ \/ BurnStableDebt(v, r, payback) /\ UNCHANGED variableDebtToken
             \/ BurnVariableDebt(v, r, payback) /\ UNCHANGED stableDebt
          /\ BurnAToken(v, r, payback) \/ UNCHANGED aToken
  BY <1>1
<1>3. /\ Quiet(u) /\ UNCHANGED indices /\ usingAsCollateral' = usingAsCollateral
      /\ TypeOK
  BY <1>1 DEF Quiet, HealthInv
<1>4. \A q \in Reserves :
          /\ scaledVariableDebt[u][q] \in Nat /\ stableDebt[u][q] \in Nat
          /\ scaledBalance[u][q] \in Nat
  <2>1. u \in Accounts
    BY DEF Accounts
  <2>2. \A q \in Reserves : scaledBalance[u][q] \in Nat
    BY <1>3, <2>1 DEF TypeOK
  <2> QED
    BY <1>3, <2>2, DebtNat
<1>5. /\ DebtOf(v, r)' + payback <= DebtOf(v, r) + Rounding(variableBorrowIndex[r])
      /\ \A q \in Reserves :
            /\ scaledVariableDebt'[u][q] <= scaledVariableDebt[u][q]
            /\ stableDebt'[u][q] <= stableDebt[u][q]
            /\ u # v \/ q # r => /\ scaledVariableDebt'[u][q] = scaledVariableDebt[u][q]
                                 /\ stableDebt'[u][q] = stableDebt[u][q]
  <2> DEFINE R == Rounding(variableBorrowIndex[r])
             V == VariableDebtOf(v, r)
             V2 == rayMul(scaledVariableDebt'[v][r], variableBorrowIndex[r])
  <2>1. DebtOf(v, r) = V + stableDebt[v][r] /\ DebtOf(v, r)' = V2 + stableDebt'[v][r]
    BY <1>3, AmountsFollow DEF DebtOf
  <2>2. R \in Nat /\ V \in Nat /\ stableDebt[v][r] \in Nat
    BY <1>3, DebtNat, IndexFacts, RoundingNat
  <2>3. V2 \in Nat /\ stableDebt'[v][r] \in Nat
    <3>1. scaledVariableDebt'[v][r] \in Nat /\ stableDebt'[v][r] \in Nat
      BY DEF HealthInv, TypeOK
    <3> QED
      BY <1>3, <3>1, IndexFacts, RayMulNat
  <2>4. CASE BurnStableDebt(v, r, payback) /\ UNCHANGED variableDebtToken
    <3>1. /\ stableDebt'[v][r] + payback = stableDebt[v][r]
          /\ \A q \in Reserves : /\ stableDebt'[u][q] <= stableDebt[u][q]
                                 /\ u # v \/ q # r => stableDebt'[u][q] = stableDebt[u][q]
      BY <1>3, <2>4, StableDebtRepaid
    <3>2. scaledVariableDebt' = scaledVariableDebt
      BY <2>4 DEF variableDebtToken
    <3>3. V2 = V
      BY <3>2 DEF VariableDebtOf
    <3>4. \A q \in Reserves : scaledVariableDebt'[u][q] <= scaledVariableDebt[u][q]
      BY <1>4, <3>2
    <3> HIDE DEF R, V, V2
    <3>5. DebtOf(v, r)' + payback <= DebtOf(v, r) + R
      BY <2>1, <2>2, <2>3, <3>1, <3>3
    <3> QED
      BY <3>1, <3>2, <3>4, <3>5 DEF R
  <2>5. CASE BurnVariableDebt(v, r, payback) /\ UNCHANGED stableDebt
    <3>1. /\ V2 + payback <= V + R
          /\ \A q \in Reserves :
                /\ scaledVariableDebt'[u][q] <= scaledVariableDebt[u][q]
                /\ u # v \/ q # r => scaledVariableDebt'[u][q] = scaledVariableDebt[u][q]
      BY <1>3, <2>5, VariableDebtRepaid
    <3>2. stableDebt' = stableDebt
      BY <2>5
    <3>3. \A q \in Reserves : stableDebt'[u][q] <= stableDebt[u][q]
      BY <1>4, <3>2
    <3> HIDE DEF R, V, V2
    <3>4. DebtOf(v, r)' + payback <= DebtOf(v, r) + R
      BY <2>1, <2>2, <2>3, <3>1, <3>2
    <3> QED
      BY <3>1, <3>2, <3>3, <3>4 DEF R
  <2> QED
    BY <1>2, <2>4, <2>5
<1>6. CASE UNCHANGED aToken \/ u # v
  <2>1. \A q \in Reserves : scaledBalance'[u][q] = scaledBalance[u][q]
    <3>1. CASE UNCHANGED aToken
      BY <3>1 DEF aToken
    <3>2. CASE BurnAToken(v, r, payback) /\ u # v
      BY <1>3, <3>2, ATokensRepay
    <3> QED
      BY <1>2, <1>6, <3>1, <3>2
  <2>2. \A q \in usingAsCollateral[u] :
            q \in usingAsCollateral'[u] /\ scaledBalance[u][q] <= scaledBalance'[u][q]
    <3>1. usingAsCollateral[u] \subseteq Reserves
      BY <1>3 DEF TypeOK
    <3> QED
      BY <1>3, <1>4, <2>1, <3>1
  <2>3. \A q \in Reserves : liquidityIndex[q] <= liquidityIndex'[q]
    <3>1. \A q \in Reserves : liquidityIndex[q] \in Nat
      BY <1>3, IndexFacts
    <3> QED
      BY <1>3, <3>1 DEF indices
  <2>4. UNCHANGED variableBorrowIndex
    BY <1>3 DEF indices
  <2> QED
    BY <1>3, <1>5, <2>2, <2>3, <2>4, NotWorse
<1>7. CASE BurnAToken(v, r, payback) /\ u = v
  <2>1. /\ BalanceOf(u, r) <= BalanceOf(u, r)' + payback + Rounding(liquidityIndex[r])
        /\ \A q \in Reserves \ {r} : BalanceOf(u, q)' = BalanceOf(u, q)
    BY <1>3, <1>7, ATokensRepay, AmountsFollow
  <2>2. \A q \in Reserves \ {r} : DebtOf(u, q)' = DebtOf(u, q)
    BY <1>3, <1>5, AmountsFollow
  <2>3. /\ BalanceOf(u, r) \in Nat /\ BalanceOf(u, r)' \in Nat
        /\ DebtOf(u, r) \in Nat /\ DebtOf(u, r)' \in Nat
    BY AmountsNat, AmountsNatNext DEF HealthInv, Accounts
  <2>4. /\ Rounding(liquidityIndex[r]) \in Nat /\ Rounding(variableBorrowIndex[r]) \in Nat
    BY <1>3, IndexFacts, RoundingNat
  <2>5. /\ DebtOf(u, r)' <= DebtOf(u, r) + BothRoundings(r)
        /\ DebtOf(u, r)' + BalanceOf(u, r)
             <= DebtOf(u, r) + BalanceOf(u, r)' + BothRoundings(r)
    BY <1>5, <1>7, <2>1, <2>3, <2>4 DEF BothRoundings
  <2> QED
    BY <1>3, <2>1, <2>2, <2>5, RoundedAway
<1> QED
  BY <1>2, <1>6, <1>7

(* The debt changes token, and is rounded again.                           *)
LEMMA SwapHealthy ==
    ASSUME HealthInv, HealthInv', NEW v \in Users, NEW r \in Reserves, NEW mode,
           SwapBorrowRateMode(v, r, mode), NEW u \in Users
    PROVE  StaysHealthy(u)
<1> DEFINE i == variableBorrowIndex[r]
           s == scaledVariableDebt[v][r]
           d == stableDebt[v][r]
<1>1. /\ UNCHANGED <<indices, aToken>> /\ usingAsCollateral' = usingAsCollateral
      /\ borrowing' = borrowing /\ Quiet(u) /\ TypeOK
  BY DEF SwapBorrowRateMode, userFlags, Quiet, HealthInv
<1>2. i \in Nat \ {0} /\ RAY <= i /\ s \in Nat /\ d \in Nat
  BY <1>1, IndexFacts, DebtNat
<1>3. Rounding(i) \in Nat /\ rayMul(s, i) \in Nat /\ rayDiv(d, i) \in Nat
  BY <1>2, RoundingNat, RayMulNat, RayDivNat
<1>4. DebtOf(v, r)' = rayMul(scaledVariableDebt'[v][r], i) + stableDebt'[v][r]
      /\ DebtOf(v, r) = rayMul(s, i) + d
  BY <1>1, AmountsFollow DEF DebtOf, VariableDebtOf
<1>5. /\ DebtOf(v, r)' <= DebtOf(v, r) + Rounding(i)
      /\ \A q \in Reserves : u # v \/ q # r =>
             /\ scaledVariableDebt'[u][q] = scaledVariableDebt[u][q]
             /\ stableDebt'[u][q] = stableDebt[u][q]
  <2>1. CASE BurnStableDebt(v, r, d) /\ MintVariableDebt(v, r, d)
    <3>1. /\ stableDebt'[v][r] + d = d
          /\ \A q \in Reserves : u # v \/ q # r => stableDebt'[u][q] = stableDebt[u][q]
      BY <1>1, <1>2, <2>1, StableDebtRepaid
    <3>2. scaledVariableDebt' = [scaledVariableDebt EXCEPT ![v][r] = @ + rayDiv(d, i)]
      BY <2>1 DEF MintVariableDebt
    <3>3. scaledVariableDebt'[v][r] = s + rayDiv(d, i)
      BY <1>1, <3>2 DEF TypeOK
    <3>4. \A q \in Reserves : u # v \/ q # r
              => scaledVariableDebt'[u][q] = scaledVariableDebt[u][q]
      BY <1>1, <3>2 DEF TypeOK
    <3>5. stableDebt'[v][r] = 0
      <4>1. stableDebt'[v][r] \in Nat
        BY DEF HealthInv, TypeOK
      <4> QED
        BY <1>2, <3>1, <4>1
    <3> HIDE DEF i, s, d
    <3>6. rayMul(s + rayDiv(d, i), i) <= rayMul(s, i) + d + Rounding(i)
      BY <1>2, WriteRounds
    <3>7. rayMul(s + rayDiv(d, i), i) \in Nat
      <4>1. s + rayDiv(d, i) \in Nat
        BY <1>2, <1>3
      <4> QED
        BY <1>2, <4>1, RayMulNat
    <3>8. DebtOf(v, r)' = rayMul(s + rayDiv(d, i), i)
      BY <1>4, <3>3, <3>5, <3>7
    <3> QED
      BY <1>4, <3>1, <3>4, <3>6, <3>8
  <2>2. CASE BurnVariableDebt(v, r, VariableDebtOf(v, r))
             /\ MintStableDebt(v, r, VariableDebtOf(v, r))
    <3>1. scaledVariableDebt' = [scaledVariableDebt EXCEPT ![v][r] = @ - rayDiv(rayMul(s, i), i)]
          /\ stableDebt' = [stableDebt EXCEPT ![v][r] = @ + rayMul(s, i)]
      BY <2>2 DEF BurnVariableDebt, MintStableDebt, VariableDebtOf
    <3>2. rayDiv(rayMul(s, i), i) = s
      BY <1>2, RoundTrip
    <3>3. scaledVariableDebt'[v][r] = s - s /\ stableDebt'[v][r] = d + rayMul(s, i)
      BY <1>1, <3>1, <3>2 DEF TypeOK
    <3>4. \A q \in Reserves : u # v \/ q # r =>
              /\ scaledVariableDebt'[u][q] = scaledVariableDebt[u][q]
              /\ stableDebt'[u][q] = stableDebt[u][q]
      BY <1>1, <3>1 DEF TypeOK
    <3> HIDE DEF i, s, d
    <3>5. s - s = 0 /\ rayMul(0, i) = 0
      BY <1>2, RayMulZero
    <3>6. DebtOf(v, r)' = 0 + (d + rayMul(s, i))
      BY <1>4, <3>3, <3>5
    <3> QED
      BY <1>2, <1>3, <1>4, <3>4, <3>6
  <2> QED
    BY <2>1, <2>2 DEF SwapBorrowRateMode
<1>6. \A q \in Reserves :
          /\ BalanceOf(u, q)' = BalanceOf(u, q)
          /\ u # v \/ q # r => DebtOf(u, q)' = DebtOf(u, q)
  BY <1>1, <1>5, AmountsFollow DEF aToken
<1>7. CASE u # v
  BY <1>1, <1>6, <1>7, Unmoved
<1>8. CASE u = v
  <2>1. /\ BalanceOf(u, r) \in Nat /\ DebtOf(u, r) \in Nat /\ DebtOf(u, r)' \in Nat
    BY AmountsNat, AmountsNatNext DEF HealthInv, Accounts
  <2>2. Rounding(liquidityIndex[r]) \in Nat
    BY <1>1, IndexFacts, RoundingNat
  <2>3. BalanceOf(u, r)' = BalanceOf(u, r)
    BY <1>6
  <2>4. /\ DebtOf(u, r)' <= DebtOf(u, r) + BothRoundings(r)
        /\ DebtOf(u, r)' + BalanceOf(u, r)
             <= DebtOf(u, r) + BalanceOf(u, r)' + BothRoundings(r)
    BY <1>3, <1>5, <1>8, <2>1, <2>2, <2>3 DEF BothRoundings
  <2> QED
    BY <1>1, <1>6, <1>8, <2>4, RoundedAway
<1> QED
  BY <1>7, <1>8

-----------------------------------------------------------------------------
(* A liquidation is of a position out of health, and the others only gain. *)
LEMMA MovedGains ==
    ASSUME NEW balances \in [Accounts -> [Reserves -> Nat]],
           NEW from \in Accounts, NEW to \in Accounts, NEW r \in Reserves, NEW scaled \in Nat,
           NEW a \in Accounts, a # from, NEW q \in Reserves
    PROVE  balances[a][q] <= Moved(balances, from, to, r, scaled)[a][q]
<1> DEFINE debited == [balances EXCEPT ![from][r] = @ - scaled]
<1>1. debited[a] = balances[a] /\ balances[a][q] \in Nat /\ balances[a] \in [Reserves -> Nat]
  OBVIOUS
<1>2. Moved(balances, from, to, r, scaled) = [debited EXCEPT ![to][r] = @ + scaled]
  BY DEF Moved
<1>3. a \in DOMAIN debited
  OBVIOUS
<1> HIDE DEF debited
<1> QED
  BY <1>1, <1>2, <1>3

LEMMA SeizureSpares ==
    ASSUME TypeOK, NEW liquidator \in Users, NEW v \in Users, NEW rc \in Reserves,
           NEW seized \in Nat, NEW fee \in Nat, NEW receiveAToken \in BOOLEAN,
           SeizeATokens(liquidator, v, rc, seized, fee, receiveAToken),
           NEW u \in Users, u # v, NEW q \in Reserves
    PROVE  scaledBalance[u][q] <= scaledBalance'[u][q]
<1> DEFINE index == liquidityIndex[rc]
           scaled == rayDiv(seized, index)
           afterSeize == IF receiveAToken
                         THEN Moved(scaledBalance, v, liquidator, rc, scaled)
                         ELSE [scaledBalance EXCEPT ![v][rc] = @ - scaled]
           left == afterSeize[v][rc]
           paidFee == IF rayDiv(fee, index) > left THEN rayMul(left, index) ELSE fee
           scaledFee == rayDiv(paidFee, index)
<1>1. /\ u \in Accounts /\ v \in Accounts /\ liquidator \in Accounts /\ Treasury \in Accounts
      /\ scaledBalance \in [Accounts -> [Reserves -> Nat]]
  BY DEF Accounts, TypeOK
<1>2. scaled \in Nat /\ scaled <= scaledBalance[v][rc]
  BY ScaledNat DEF SeizeATokens
<1>3. scaledBalance' = IF fee = 0 THEN afterSeize
                       ELSE Moved(afterSeize, v, Treasury, rc, scaledFee)
  BY DEF SeizeATokens
<1>4. scaledBalance[u][q] <= afterSeize[u][q] /\ afterSeize \in [Accounts -> [Reserves -> Nat]]
  <2> HIDE DEF scaled
  <2>1. CASE receiveAToken
    BY <1>1, <1>2, <2>1, MovedGains, MovedType
  <2>2. CASE ~receiveAToken
    <3>1. afterSeize = [scaledBalance EXCEPT ![v][rc] = @ - scaled]
      BY <2>2
    <3> HIDE DEF afterSeize
    <3>2. afterSeize \in [Accounts -> [Reserves -> Nat]]
      BY <1>1, <1>2, <3>1
    <3>3. afterSeize[u] = scaledBalance[u] /\ scaledBalance[u][q] \in Nat
      BY <1>1, <3>1 DEF TypeOK
    <3> QED
      BY <3>2, <3>3
  <2> QED
    BY <2>1, <2>2
<1>5. scaledFee \in Nat
  <2>1. left \in Nat
    <3> HIDE DEF afterSeize
    <3> QED
      BY <1>1, <1>4
  <2>2. paidFee \in Nat
    <3> HIDE DEF left
    <3> QED
      BY <2>1, IndexFacts, RayMulNat
  <2> HIDE DEF paidFee
  <2> QED
    BY <2>2, ScaledNat
<1> HIDE DEF afterSeize, scaledFee
<1>6. afterSeize[u][q] <= Moved(afterSeize, v, Treasury, rc, scaledFee)[u][q]
  BY <1>1, <1>4, <1>5, MovedGains
<1>7. scaledBalance[u][q] \in Nat /\ scaledBalance'[u][q] \in Nat /\ afterSeize[u][q] \in Nat
  <2>1. ATokenType'
    BY SeizeATokensType
  <2> QED
    BY <1>1, <1>4, <2>1 DEF ATokenType
<1> QED
  BY <1>3, <1>4, <1>6, <1>7

LEMMA LiquidationHealthy ==
    ASSUME HealthInv, HealthInv', NEW liquidator \in Users, NEW v \in Users,
           NEW rc \in Reserves, NEW rd \in Reserves, NEW x \in Requests,
           NEW receiveAToken \in BOOLEAN,
           LiquidationCall(liquidator, v, rc, rd, x, receiveAToken), NEW u \in Users
    PROVE  StaysHealthy(u)
<1>1. CASE u = v
  <2>1. HealthFactor(Position(v)) < HEALTH_FACTOR_LIQUIDATION_THRESHOLD
    BY DEF LiquidationCall, ValidateLiquidationCall
  <2>2. HealthFactor(Position(v)) \in Nat /\ HEALTH_FACTOR_LIQUIDATION_THRESHOLD \in Nat
    <3>1. PositionFacts(Position(v))
      BY UsersAddUp DEF HealthInv
    <3>2. AverageLiquidationThreshold(Position(v)) \in Nat
      BY <3>1, DivBounds DEF PositionFacts, AverageOf
    <3>3. percentMul(TotalCollateral(Position(v)), AverageLiquidationThreshold(Position(v))) \in Nat
      BY <3>1, <3>2, PercentMulNat DEF PositionFacts
    <3>4. TotalDebt(Position(v)) \in Nat /\ MaxUint256 \in Nat
      BY <3>1, StorageAssumption DEF PositionFacts
    <3> DEFINE P == percentMul(TotalCollateral(Position(v)), AverageLiquidationThreshold(Position(v)))
               D == TotalDebt(Position(v))
    <3> HIDE DEF P, D
    <3>5. D # 0 /\ P \in Nat /\ D \in Nat => wadDiv(P, D) \in Nat
      <4> SUFFICES ASSUME D # 0, P \in Nat, D \in Nat PROVE wadDiv(P, D) \in Nat
        OBVIOUS
      <4>1. P * WAD \in Nat /\ D \div 2 \in Nat
        BY ScaleAssumption, ProductNat
      <4> DEFINE n == P * WAD + D \div 2
      <4>2. n \in Nat
        BY <4>1
      <4>3. wadDiv(P, D) = n \div D
        BY DEF wadDiv
      <4> HIDE DEF n
      <4> QED
        BY <4>2, <4>3, DivBounds
    <3> QED
      BY <3>3, <3>4, <3>5, ScaleAssumption
      DEF HealthFactor, P, D, HEALTH_FACTOR_LIQUIDATION_THRESHOLD
  <2> QED
    BY <1>1, <2>1, <2>2 DEF StaysHealthy, Healthy
<1>2. CASE u # v
  <2>1. /\ UNCHANGED <<governance, indices, eModeCategory, market>> /\ TypeOK
    BY DEF LiquidationCall, HealthInv
  <2>2. PICK covered \in Nat, seized \in Nat, fee \in Nat, receive \in BOOLEAN :
            /\ BurnDebtTokens(v, rd, covered)
            /\ SeizeATokens(liquidator, v, rc, seized, fee, receive)
    BY <2>1, LiquidationFlows DEF LiquidationMoves
  <2>3. usingAsCollateral[u] \subseteq usingAsCollateral'[u] /\ usingAsCollateral[u] \subseteq Reserves
    <3> DEFINE quote == SeizedAndRepaid(rc, rd, eModeCategory[v], DebtToLiquidate(v, rd, x),
                                        BalanceOf(v, rc))
               released == [usingAsCollateral EXCEPT
                               ![v] = IF quote.collateral = BalanceOf(v, rc) THEN @ \ {rc} ELSE @]
    <3>1. usingAsCollateral \in [Users -> SUBSET Reserves]
      BY <2>1 DEF TypeOK
    <3>2. usingAsCollateral' = CollateralOnReceipt(released, liquidator, rc,
                                   receiveAToken /\ BalanceOf(liquidator, rc) = 0, liquidator)
      BY DEF LiquidationCall
    <3>3. released \in [Users -> SUBSET Reserves] /\ released[u] = usingAsCollateral[u]
      <4> HIDE DEF quote
      <4> QED
        BY <1>2, <3>1
    <3> HIDE DEF released
    <3> QED
      BY <3>1, <3>2, <3>3, CollateralReceived
  <2>4. ASSUME NEW q \in Reserves
        PROVE  /\ scaledVariableDebt'[u][q] <= scaledVariableDebt[u][q]
               /\ stableDebt'[u][q] <= stableDebt[u][q]
    <3>1. scaledVariableDebt[u][q] \in Nat /\ stableDebt[u][q] \in Nat
      BY <2>1, DebtNat
    <3>2. CASE BurnVariableDebt(v, rd, covered) /\ UNCHANGED stableDebt
      BY <2>1, <3>1, <3>2, VariableDebtRepaid
    <3>3. CASE BurnStableDebt(v, rd, covered) /\ UNCHANGED variableDebtToken
      BY <2>1, <3>1, <3>3, StableDebtRepaid DEF variableDebtToken
    <3>4. CASE \E y, z \in Nat : BurnVariableDebt(v, rd, y) /\ BurnStableDebt(v, rd, z)
      BY <2>1, <3>4, VariableDebtRepaid, StableDebtRepaid
    <3> QED
      BY <2>1, <2>2, <3>2, <3>3, <3>4, DebtBurned
  <2>5. \A q \in usingAsCollateral[u] :
            q \in usingAsCollateral'[u] /\ scaledBalance[u][q] <= scaledBalance'[u][q]
    BY <1>2, <2>1, <2>2, <2>3, SeizureSpares
  <2>6. \A q \in Reserves : liquidityIndex[q] <= liquidityIndex'[q]
    <3>1. \A q \in Reserves : liquidityIndex[q] \in Nat
      BY <2>1, IndexFacts
    <3> QED
      BY <2>1, <3>1 DEF indices
  <2>7. Quiet(u) /\ UNCHANGED variableBorrowIndex
    BY <2>1 DEF Quiet, indices
  <2> QED
    BY <2>4, <2>5, <2>6, <2>7, NotWorse
<1> QED
  BY <1>1, <1>2

-----------------------------------------------------------------------------
(* The configuration is the governance's, and the pool never writes it.    *)
LEMMA AsListedStep ==
    ASSUME AsListed, [Next]_vars
    PROVE  AsListed'
  BY SupplierCallFrame, BorrowerCallFrame, LiquidatorCallFrame, OtherCallFrame,
     EnvironmentFrame
  DEF AsListed, Next, PoolCall, vars, governance

(* One lemma per call, and the calls together.                             *)
LEMMA HealthStep ==
    ASSUME HealthInv, HealthInv', PoolCall, NEW u \in Users, ~EntersUnchecked(u)
    PROVE  StaysHealthy(u)
<1>1. CASE SupplierCall
  BY <1>1, SupplyHealthy, WithdrawHealthy, TransferHealthy, SetUseHealthy DEF SupplierCall
<1>2. CASE BorrowerCall
  <2>1. ASSUME NEW v \in Users, NEW r \in Reserves, NEW mode, NEW x \in Amounts,
               Borrow(v, r, x, mode)
        PROVE  StaysHealthy(u)
    <3>1. ExecuteBorrow(v, r, x, mode, eModeCategory[v], TRUE) /\ x \in Nat
      BY <2>1, StorageAssumption DEF Borrow
    <3> QED
      BY <3>1, BorrowHealthy
  <2> QED
    BY <1>2, <2>1, RepayHealthy, SwapHealthy DEF BorrowerCall
<1>3. CASE LiquidatorCall
  BY <1>3, LiquidationHealthy DEF LiquidatorCall
<1>4. CASE OtherCall
  BY <1>4, SetUserEModeHealthy, MintUnbackedHealthy, BackUnbackedHealthy, MintToTreasuryHealthy
  DEF OtherCall
<1> QED
  BY <1>1, <1>2, <1>3, <1>4 DEF PoolCall

(* No call takes a position out of health, whatever the constants: a       *)
(* healthy position is healthy after any call, its own or another's, or    *)
(* its debt passes what the collateral covers by no more than what the     *)
(* arithmetic rounds away (HealthyStaysHealthy in Pool).                   *)
THEOREM HealthyAlwaysStays == Spec => HealthyStaysHealthy
<1>1. Init => AsListed
  BY DEF Init, AsListed
<1>2. AsListed /\ [Next]_vars => AsListed'
  BY AsListedStep
<1>3. HealthInv /\ HealthInv' /\ [Next]_vars
        => [\/ \A u \in Users : Healthy(u) /\ ~EntersUnchecked(u)
                                   => Healthy(u)' \/ CoveredUpToRounding(u)
            \/ Environment]_vars
  BY HealthStep DEF StaysHealthy, Next
<1>4. Spec => []HealthInv
  BY <1>1, <1>2, TypeCorrect, DebtsFlagged, PTL DEF Spec, HealthInv
<1> QED
  BY <1>3, <1>4, PTL DEF Spec, HealthyStaysHealthy
=============================================================================
