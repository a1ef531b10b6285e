---------------------------- MODULE MarketProofs ----------------------------
(***************************************************************************)
(* The accounts of a market, whatever scenarios are run on it: for every   *)
(* set of users, every scale and every amount.                             *)
(***************************************************************************)
EXTENDS Scenario, ReserveProofs

(* The accounts, beside the totals of the tokens.                          *)
AccountsInv ==
    /\ accounts \in [Users -> Account]
    /\ reserve.scaledSupply = InitialLiquidity + ScaledBalances(accounts)
    /\ reserve.scaledVariableDebt = ScaledDebts(accounts)

MarketInv == ReserveInv /\ AccountsInv

LEMMA AccountFacts ==
    ASSUME NEW b \in [Users -> Account], NEW u \in Users
    PROVE  /\ b[u] \in Account
           /\ b[u].scaledBalance \in Nat /\ b[u].balanceIndex \in Nat
           /\ b[u].scaledDebt \in Nat /\ b[u].debtIndex \in Nat
           /\ b[u].usedAsCollateral \in BOOLEAN /\ b[u].wallet \in Int
  BY DEF Account

LEMMA AccountSums ==
    ASSUME NEW b \in [Users -> Account], NEW c \in [Users -> Account], NEW u \in Users,
           \A v \in Users \ {u} : /\ c[v].scaledBalance = b[v].scaledBalance
                                  /\ c[v].scaledDebt = b[v].scaledDebt
    PROVE  /\ ScaledBalances(b) \in Nat /\ ScaledDebts(b) \in Nat
           /\ ScaledBalances(c) = ScaledBalances(b) + c[u].scaledBalance - b[u].scaledBalance
           /\ ScaledDebts(c) = ScaledDebts(b) + c[u].scaledDebt - b[u].scaledDebt
<1> DEFINE balances(a) == [v \in Users |-> a[v].scaledBalance]
           debts(a) == [v \in Users |-> a[v].scaledDebt]
<1>1. IsFiniteSet(Users)
  BY TokenAssumption
<1>2. /\ balances(b) \in [Users -> Nat] /\ balances(c) \in [Users -> Nat]
      /\ debts(b) \in [Users -> Nat] /\ debts(c) \in [Users -> Nat]
  BY AccountFacts
<1>3. /\ balances(b)[u] = b[u].scaledBalance /\ balances(c)[u] = c[u].scaledBalance
      /\ debts(b)[u] = b[u].scaledDebt /\ debts(c)[u] = c[u].scaledDebt
      /\ \A v \in Users \ {u} : balances(c)[v] = balances(b)[v] /\ debts(c)[v] = debts(b)[v]
  OBVIOUS
<1>4. /\ ScaledBalances(b) = SumFunction(balances(b))
      /\ ScaledBalances(c) = SumFunction(balances(c))
      /\ ScaledDebts(b) = SumFunction(debts(b)) /\ ScaledDebts(c) = SumFunction(debts(c))
  BY DEF ScaledBalances, ScaledDebts
<1> HIDE DEF balances, debts
<1>5. SumFunction(balances(b)) \in Nat /\ SumFunction(debts(b)) \in Nat
  BY <1>1, <1>2, SumNat
<1>6. /\ SumFunction(balances(c)) = SumFunction(balances(b)) + balances(c)[u] - balances(b)[u]
      /\ SumFunction(debts(c)) = SumFunction(debts(b)) + debts(c)[u] - debts(b)[u]
  BY <1>1, <1>2, <1>3, SumMoves
<1> QED
  BY <1>3, <1>4, <1>5, <1>6

LEMMA AccountsNext ==
    ASSUME NEW c, accounts' = c
    PROVE  ScaledBalances(accounts)' = ScaledBalances(c) /\ ScaledDebts(accounts)' = ScaledDebts(c)
  BY DEF ScaledBalances, ScaledDebts

(* A call that moves one account moves the totals as much.                 *)
LEMMA OneAccountMoves ==
    ASSUME MarketInv, ReserveInv', NEW u \in Users, NEW c \in [Users -> Account], accounts' = c,
           \A v \in Users \ {u} : /\ c[v].scaledBalance = accounts[v].scaledBalance
                                  /\ c[v].scaledDebt = accounts[v].scaledDebt,
           reserve'.scaledSupply
             = reserve.scaledSupply + c[u].scaledBalance - accounts[u].scaledBalance,
           reserve'.scaledVariableDebt
             = reserve.scaledVariableDebt + c[u].scaledDebt - accounts[u].scaledDebt
    PROVE  MarketInv'
<1>1. /\ accounts \in [Users -> Account]
      /\ reserve.scaledSupply = InitialLiquidity + ScaledBalances(accounts)
      /\ reserve.scaledVariableDebt = ScaledDebts(accounts)
  BY DEF MarketInv, AccountsInv
<1>2. /\ ScaledBalances(accounts) \in Nat /\ ScaledDebts(accounts) \in Nat
      /\ ScaledBalances(c)
           = ScaledBalances(accounts) + c[u].scaledBalance - accounts[u].scaledBalance
      /\ ScaledDebts(c) = ScaledDebts(accounts) + c[u].scaledDebt - accounts[u].scaledDebt
  BY <1>1, AccountSums
<1>3. /\ c[u].scaledBalance \in Nat /\ accounts[u].scaledBalance \in Nat
      /\ c[u].scaledDebt \in Nat /\ accounts[u].scaledDebt \in Nat /\ InitialLiquidity \in Nat
  BY <1>1, AccountFacts, MarketAssumption
<1>4. /\ reserve'.scaledSupply = InitialLiquidity + ScaledBalances(c)
      /\ reserve'.scaledVariableDebt = ScaledDebts(c)
  BY <1>1, <1>2, <1>3
<1> QED
  BY <1>4, AccountsNext DEF MarketInv, AccountsInv

(* One that writes no scaled balance and no total.                         *)
LEMMA NoAccountMoves ==
    ASSUME MarketInv, ReserveInv', NEW c \in [Users -> Account], accounts' = c,
           \A v \in Users : /\ c[v].scaledBalance = accounts[v].scaledBalance
                            /\ c[v].scaledDebt = accounts[v].scaledDebt,
           reserve'.scaledSupply = reserve.scaledSupply,
           reserve'.scaledVariableDebt = reserve.scaledVariableDebt
    PROVE  MarketInv'
<1>1. ScaledBalances(c) = ScaledBalances(accounts) /\ ScaledDebts(c) = ScaledDebts(accounts)
  <2>1. /\ [u \in Users |-> c[u].scaledBalance] = [u \in Users |-> accounts[u].scaledBalance]
        /\ [u \in Users |-> c[u].scaledDebt] = [u \in Users |-> accounts[u].scaledDebt]
    OBVIOUS
  <2> QED
    BY <2>1 DEF ScaledBalances, ScaledDebts
<1> QED
  BY <1>1, AccountsNext DEF MarketInv, AccountsInv

-----------------------------------------------------------------------------
(* What the reserve's part of a call does to the totals.                   *)

(* The accounts and the reserve work with the same indices.                *)
LEMMA SameIndices ==
    ASSUME ReserveInv
    PROVE  /\ UpToDateReserve.liquidityIndex = Income
           /\ UpToDateReserve.variableBorrowIndex = DebtIndex
           /\ UpToDateReserve.scaledSupply = reserve.scaledSupply
           /\ UpToDateReserve.scaledVariableDebt = reserve.scaledVariableDebt
           /\ Income \in Nat \ {0} /\ RAY <= Income
           /\ DebtIndex \in Nat \ {0} /\ RAY <= DebtIndex
<1>1. /\ RecordInv(reserve) /\ reserve \in ReserveData /\ now \in Nat /\ RAY \in Nat \ {0}
      /\ SECONDS_PER_YEAR \in Nat \ {0}
  BY Present, ScaleAssumption, YearAssumption DEF ReserveInv, BooksInv, RecordInv
<1>2. /\ reserve.liquidityIndex \in Nat /\ reserve.variableBorrowIndex \in Nat
      /\ reserve.currentLiquidityRate \in Nat /\ reserve.currentVariableBorrowRate \in Nat
      /\ RAY <= reserve.liquidityIndex /\ RAY <= reserve.variableBorrowIndex
  BY <1>1, RecordFacts
<1>3. /\ Income \in Nat /\ reserve.liquidityIndex <= Income
      /\ DebtIndex \in Nat /\ reserve.variableBorrowIndex <= DebtIndex
  BY <1>1, NextIndices DEF Income, DebtIndex
<1>4. Income \in Nat \ {0} /\ RAY <= Income /\ DebtIndex \in Nat \ {0} /\ RAY <= DebtIndex
  BY <1>1, <1>2, <1>3
<1>5. /\ UpToDateReserve.scaledSupply = reserve.scaledSupply
      /\ UpToDateReserve.scaledVariableDebt = reserve.scaledVariableDebt
  BY <1>1 DEF UpToDateReserve, UpToDate, ReserveData
<1>6. CASE reserve.lastUpdateTimestamp # now
  <2>1. /\ UpToDateReserve.liquidityIndex = NextLiquidityIndex(reserve)
        /\ UpToDateReserve.variableBorrowIndex = NextVariableBorrowIndex(reserve)
    BY <1>1, <1>6 DEF UpToDateReserve, UpToDate, ReserveData
  <2> QED
    BY <1>4, <1>5, <2>1 DEF Income, DebtIndex
<1>7. CASE reserve.lastUpdateTimestamp = now
  <2>1. UpToDateReserve = reserve /\ Elapsed(reserve) = 0
    BY <1>1, <1>7 DEF UpToDateReserve, UpToDate, Elapsed
  <2>2. calculateLinearInterest(reserve.currentLiquidityRate, 0) = RAY
    BY <1>1, <1>2 DEF calculateLinearInterest
  <2>3. calculateCompoundedInterest(reserve.currentVariableBorrowRate, 0) = RAY
    BY DEF calculateCompoundedInterest
  <2>4. \A x \in Nat : rayMul(RAY, x) = x
    <3>1. \A x \in Nat : rayMul(RAY, x) = rayMul(x, RAY)
      BY <1>1 DEF rayMul
    <3> QED
      BY <3>1, RayMulOne
  <2>5. /\ NextLiquidityIndex(reserve) = reserve.liquidityIndex
        /\ NextVariableBorrowIndex(reserve) = reserve.variableBorrowIndex
    BY <1>2, <2>1, <2>2, <2>3, <2>4
       DEF NextLiquidityIndex, NextVariableBorrowIndex, getNormalizedIncome, getNormalizedDebt
  <2> QED
    BY <1>4, <1>5, <2>1, <2>5 DEF Income, DebtIndex
<1> QED
  BY <1>6, <1>7

LEMMA RatedTotals ==
    ASSUME NEW r \in ReserveData, NEW s, DOMAIN s = DOMAIN r, NEW stable, NEW average
    PROVE  /\ Rated(s, stable, average).scaledSupply = s.scaledSupply
           /\ Rated(s, stable, average).scaledVariableDebt = s.scaledVariableDebt
<1> DEFINE rates == calculateInterestRates(Borrowed(s, stable, average))
           x == rates.liquidityRate
           y == rates.stableRate
           z == rates.variableRate
<1>1. Rated(s, stable, average)
        = [s EXCEPT !.currentLiquidityRate = x, !.currentStableBorrowRate = y,
                    !.currentVariableBorrowRate = z]
  BY DEF Rated
<1> HIDE DEF x, y, z
<1> QED
  BY <1>1 DEF ReserveData

(* A call leaves these totals, and the debts in stable mode as they were   *)
(* or moved by the stable debt token.                                      *)
Leaves(supply, debt) ==
    /\ ReserveInv' /\ now' = now
    /\ token' = token \/ TokenCall(token')
    /\ reserve'.scaledSupply = supply /\ reserve'.scaledVariableDebt = debt

LEMMA CallLeaves ==
    ASSUME ReserveInv, CallKept(UpToDateReserve), NEW s, DOMAIN s = DOMAIN UpToDateReserve,
           NEW stable, NEW average, reserve' = Rated(s, stable, average),
           NEW supply, s.scaledSupply = supply, NEW debt, s.scaledVariableDebt = debt
    PROVE  Leaves(supply, debt)
<1>1. UpToDateReserve \in ReserveData
  BY Present DEF RecordInv
<1>2. reserve'.scaledSupply = supply /\ reserve'.scaledVariableDebt = debt
  BY <1>1, RatedTotals
<1> QED
  BY <1>2 DEF Leaves, CallKept

LEMMA SupplyLeaves ==
    ASSUME ReserveInv, NEW amount \in Nat, Supply(amount)
    PROVE  Leaves(reserve.scaledSupply + rayDiv(amount, Income), reserve.scaledVariableDebt)
<1> DEFINE r == UpToDateReserve
           supply == r.scaledSupply + rayDiv(amount, r.liquidityIndex)
           liquidity == r.liquidity + amount
           s == [r EXCEPT !.liquidity = liquidity, !.scaledSupply = supply]
           stable == StableTotalSupply(token)
           average == token.avgStableRate
<1>1. reserve' = Rated(s, stable, average)
  BY DEF Supply, OtherCall
<1>2. supply = reserve.scaledSupply + rayDiv(amount, Income)
  BY SameIndices
<1>3. r \in ReserveData
  BY Present DEF RecordInv
<1> HIDE DEF liquidity, supply
<1>4. /\ DOMAIN s = DOMAIN r /\ s.scaledSupply = supply
      /\ s.scaledVariableDebt = reserve.scaledVariableDebt
  BY <1>3, SameIndices DEF ReserveData
<1> HIDE DEF s, stable, average
<1>5. CallKept(r)
  BY SupplyKeeps
<1> QED
  BY <1>1, <1>2, <1>4, <1>5, CallLeaves

LEMMA WithdrawLeaves ==
    ASSUME ReserveInv, NEW amount \in Nat, Withdraw(amount)
    PROVE  Leaves(reserve.scaledSupply - rayDiv(amount, Income), reserve.scaledVariableDebt)
<1> DEFINE r == UpToDateReserve
           scaled == rayDiv(amount, r.liquidityIndex)
           supply == r.scaledSupply - scaled
           liquidity == r.liquidity - amount
           s == [r EXCEPT !.liquidity = liquidity, !.scaledSupply = supply]
           stable == StableTotalSupply(token)
           average == token.avgStableRate
<1>1. reserve' = Rated(s, stable, average)
  BY DEF Withdraw, OtherCall
<1>2. supply = reserve.scaledSupply - rayDiv(amount, Income)
  BY SameIndices
<1>3. r \in ReserveData
  BY Present DEF RecordInv
<1> HIDE DEF liquidity, supply
<1>4. /\ DOMAIN s = DOMAIN r /\ s.scaledSupply = supply
      /\ s.scaledVariableDebt = reserve.scaledVariableDebt
  BY <1>3, SameIndices DEF ReserveData
<1> HIDE DEF s, stable, average
<1>5. CallKept(r)
  BY WithdrawKeeps
<1> QED
  BY <1>1, <1>2, <1>4, <1>5, CallLeaves

LEMMA BorrowVariableLeaves ==
    ASSUME ReserveInv, NEW amount \in Nat, BorrowVariable(amount)
    PROVE  Leaves(reserve.scaledSupply, reserve.scaledVariableDebt + rayDiv(amount, DebtIndex))
<1> DEFINE r == UpToDateReserve
           debt == r.scaledVariableDebt + rayDiv(amount, r.variableBorrowIndex)
           liquidity == r.liquidity - amount
           s == [r EXCEPT !.liquidity = liquidity, !.scaledVariableDebt = debt]
           stable == StableTotalSupply(token)
           average == token.avgStableRate
<1>1. reserve' = Rated(s, stable, average)
  BY DEF BorrowVariable, OtherCall
<1>2. debt = reserve.scaledVariableDebt + rayDiv(amount, DebtIndex)
  BY SameIndices
<1>3. r \in ReserveData
  BY Present DEF RecordInv
<1> HIDE DEF liquidity, debt
<1>4. /\ DOMAIN s = DOMAIN r /\ s.scaledSupply = reserve.scaledSupply
      /\ s.scaledVariableDebt = debt
  BY <1>3, SameIndices DEF ReserveData
<1> HIDE DEF s, stable, average
<1>5. CallKept(r)
  BY BorrowVariableKeeps
<1> QED
  BY <1>1, <1>2, <1>4, <1>5, CallLeaves

LEMMA RepayVariableLeaves ==
    ASSUME ReserveInv, NEW amount \in Nat, RepayVariable(amount)
    PROVE  Leaves(reserve.scaledSupply, reserve.scaledVariableDebt - rayDiv(amount, DebtIndex))
<1> DEFINE r == UpToDateReserve
           debt == r.scaledVariableDebt - rayDiv(amount, r.variableBorrowIndex)
           liquidity == r.liquidity + amount
           s == [r EXCEPT !.liquidity = liquidity, !.scaledVariableDebt = debt]
           stable == StableTotalSupply(token)
           average == token.avgStableRate
<1>1. reserve' = Rated(s, stable, average)
  BY DEF RepayVariable, OtherCall
<1>2. debt = reserve.scaledVariableDebt - rayDiv(amount, DebtIndex)
  BY SameIndices
<1>3. r \in ReserveData
  BY Present DEF RecordInv
<1> HIDE DEF liquidity, debt
<1>4. /\ DOMAIN s = DOMAIN r /\ s.scaledSupply = reserve.scaledSupply
      /\ s.scaledVariableDebt = debt
  BY <1>3, SameIndices DEF ReserveData
<1> HIDE DEF s, stable, average
<1>5. CallKept(r)
  BY RepayVariableKeeps
<1> QED
  BY <1>1, <1>2, <1>4, <1>5, CallLeaves

LEMMA MintUnbackedLeaves ==
    ASSUME ReserveInv, NEW amount \in Nat, MintUnbacked(amount)
    PROVE  Leaves(reserve.scaledSupply + rayDiv(amount, Income), reserve.scaledVariableDebt)
<1> DEFINE r == UpToDateReserve
           supply == r.scaledSupply + rayDiv(amount, r.liquidityIndex)
           unbacked == r.unbacked + amount
           s == [r EXCEPT !.unbacked = unbacked, !.scaledSupply = supply]
           stable == StableTotalSupply(token)
           average == token.avgStableRate
<1>1. reserve' = Rated(s, stable, average)
  BY DEF MintUnbacked, OtherCall
<1>2. supply = reserve.scaledSupply + rayDiv(amount, Income)
  BY SameIndices
<1>3. r \in ReserveData
  BY Present DEF RecordInv
<1> HIDE DEF unbacked, supply
<1>4. /\ DOMAIN s = DOMAIN r /\ s.scaledSupply = supply
      /\ s.scaledVariableDebt = reserve.scaledVariableDebt
  BY <1>3, SameIndices DEF ReserveData
<1> HIDE DEF s, stable, average
<1>5. CallKept(r)
  BY MintUnbackedKeeps
<1> QED
  BY <1>1, <1>2, <1>4, <1>5, CallLeaves

LEMMA BorrowStableLeaves ==
    ASSUME ReserveInv, NEW u \in Users, NEW amount \in Nat \ {0}, BorrowStable(u, amount)
    PROVE  Leaves(reserve.scaledSupply, reserve.scaledVariableDebt)
<1> DEFINE r == UpToDateReserve
           liquidity == r.liquidity - amount
           s == [r EXCEPT !.liquidity = liquidity]
           t == Minted(token, u, amount, r.currentStableBorrowRate)
           stable == t.reported.supply
           average == t.reported.avgStableRate
<1>1. reserve' = Rated(s, stable, average)
  BY DEF BorrowStable, StableCall
<1>2. r \in ReserveData
  BY Present DEF RecordInv
<1> HIDE DEF liquidity
<1>3. /\ DOMAIN s = DOMAIN r /\ s.scaledSupply = reserve.scaledSupply
      /\ s.scaledVariableDebt = reserve.scaledVariableDebt
  BY <1>2, SameIndices DEF ReserveData
<1> HIDE DEF s, stable, average
<1>4. CallKept(r)
  BY BorrowStableKeeps
<1> QED
  BY <1>1, <1>3, <1>4, CallLeaves

LEMMA RepayStableLeaves ==
    ASSUME ReserveInv, NEW u \in Users, NEW amount \in Nat, RepayStable(u, amount)
    PROVE  Leaves(reserve.scaledSupply, reserve.scaledVariableDebt)
<1> DEFINE r == UpToDateReserve
           liquidity == r.liquidity + amount
           s == [r EXCEPT !.liquidity = liquidity]
           t == Burned(token, u, amount)
           stable == t.reported.supply
           average == t.reported.avgStableRate
<1>1. reserve' = Rated(s, stable, average)
  BY DEF RepayStable, StableCall
<1>2. r \in ReserveData
  BY Present DEF RecordInv
<1> HIDE DEF liquidity
<1>3. /\ DOMAIN s = DOMAIN r /\ s.scaledSupply = reserve.scaledSupply
      /\ s.scaledVariableDebt = reserve.scaledVariableDebt
  BY <1>2, SameIndices DEF ReserveData
<1> HIDE DEF s, stable, average
<1>4. CallKept(r)
  BY RepayStableKeeps
<1> QED
  BY <1>1, <1>3, <1>4, CallLeaves

LEMMA SwapToVariableLeaves ==
    ASSUME ReserveInv, NEW u \in Users, SwapToVariable(u)
    PROVE  Leaves(reserve.scaledSupply,
                  reserve.scaledVariableDebt + rayDiv(StableBalanceOf(token, u), DebtIndex))
<1> DEFINE r == UpToDateReserve
           owed == StableBalanceOf(token, u)
           debt == r.scaledVariableDebt + rayDiv(owed, r.variableBorrowIndex)
           s == [r EXCEPT !.scaledVariableDebt = debt]
           t == Burned(token, u, owed)
           stable == t.reported.supply
           average == t.reported.avgStableRate
<1>1. reserve' = Rated(s, stable, average)
  BY DEF SwapToVariable, StableCall
<1>2. debt = reserve.scaledVariableDebt + rayDiv(StableBalanceOf(token, u), DebtIndex)
  BY SameIndices
<1>3. r \in ReserveData
  BY Present DEF RecordInv
<1> HIDE DEF debt
<1>4. /\ DOMAIN s = DOMAIN r /\ s.scaledSupply = reserve.scaledSupply
      /\ s.scaledVariableDebt = debt
  BY <1>3, SameIndices DEF ReserveData
<1> HIDE DEF s, stable, average
<1>5. CallKept(r)
  BY SwapToVariableKeeps
<1> QED
  BY <1>1, <1>2, <1>4, <1>5, CallLeaves

LEMMA SwapToStableLeaves ==
    ASSUME ReserveInv, NEW u \in Users, NEW owed \in Nat, SwapToStable(u, owed)
    PROVE  Leaves(reserve.scaledSupply, reserve.scaledVariableDebt - rayDiv(owed, DebtIndex))
<1> DEFINE r == UpToDateReserve
           debt == r.scaledVariableDebt - rayDiv(owed, r.variableBorrowIndex)
           s == [r EXCEPT !.scaledVariableDebt = debt]
           t == Minted(token, u, owed, r.currentStableBorrowRate)
           stable == t.reported.supply
           average == t.reported.avgStableRate
<1>1. reserve' = Rated(s, stable, average)
  BY DEF SwapToStable, StableCall
<1>2. debt = reserve.scaledVariableDebt - rayDiv(owed, DebtIndex)
  BY SameIndices
<1>3. r \in ReserveData
  BY Present DEF RecordInv
<1> HIDE DEF debt
<1>4. /\ DOMAIN s = DOMAIN r /\ s.scaledSupply = reserve.scaledSupply
      /\ s.scaledVariableDebt = debt
  BY <1>3, SameIndices DEF ReserveData
<1> HIDE DEF s, stable, average
<1>5. CallKept(r)
  BY SwapToStableKeeps
<1> QED
  BY <1>1, <1>2, <1>4, <1>5, CallLeaves

LEMMA RebalanceLeaves ==
    ASSUME ReserveInv, NEW u \in Users, RebalanceStableBorrowRate(u)
    PROVE  Leaves(reserve.scaledSupply, reserve.scaledVariableDebt)
<1> DEFINE r == UpToDateReserve
           owed == StableBalanceOf(token, u)
           s == r
           t == Minted(Burned(token, u, owed), u, owed, r.currentStableBorrowRate)
           stable == t.reported.supply
           average == t.reported.avgStableRate
<1>1. reserve' = Rated(s, stable, average)
  BY DEF RebalanceStableBorrowRate, StableCall
<1>2. r \in ReserveData
  BY Present DEF RecordInv
<1>3. /\ DOMAIN s = DOMAIN r /\ s.scaledSupply = reserve.scaledSupply
      /\ s.scaledVariableDebt = reserve.scaledVariableDebt
  BY <1>2, SameIndices DEF ReserveData
<1> HIDE DEF s, stable, average
<1>4. CallKept(r)
  BY RebalanceKeeps
<1> QED
  BY <1>1, <1>3, <1>4, CallLeaves

(* Backing raises the index: the fee is shared over what is supplied.      *)
LEMMA CumulatedGrows ==
    ASSUME NEW r, RecordInv(r), now \in Nat, r.scaledSupply # 0, NEW fee \in Nat
    PROVE  CumulatedIndex(r, fee) \in Nat /\ r.liquidityIndex <= CumulatedIndex(r, fee)
<1> DEFINE index == r.liquidityIndex
           supplied == rayMul(r.scaledSupply, index)
           owed == rayMul(r.accruedToTreasury, index)
           share == rayDiv(wadToRay(fee), wadToRay(supplied + owed))
<1>1. /\ index \in Nat /\ RAY <= index /\ r.scaledSupply \in Nat /\ r.accruedToTreasury \in Nat
      /\ RAY \in Nat
  BY RecordFacts, ScaleAssumption
<1>2. supplied \in Nat /\ supplied # 0 /\ owed \in Nat
  <2> HIDE DEF index
  <2> QED
    BY <1>1, RayMulNat, RayMulZero DEF index
<1>3. CumulatedIndex(r, fee) = rayMul(share + RAY, index)
  BY DEF CumulatedIndex
<1> HIDE DEF supplied, owed, index
<1>4. supplied + owed \in Nat /\ supplied + owed # 0
  BY <1>2
<1>5. share \in Nat
  BY <1>4, WadToRay, RayDivNat
<1> HIDE DEF share
<1>6. share + RAY \in Nat
  BY <1>1, <1>5
<1> QED
  BY <1>1, <1>3, <1>5, <1>6, RayMulNat, RayMulGrows DEF index

LEMMA BackUnbackedLeaves ==
    ASSUME ReserveInv, NEW amount \in Nat, NEW fee \in Nat, BackUnbacked(amount, fee)
    PROVE  /\ Leaves(reserve.scaledSupply, reserve.scaledVariableDebt)
           /\ UpToDateReserve.liquidityIndex <= reserve'.liquidityIndex
           /\ reserve'.variableBorrowIndex = UpToDateReserve.variableBorrowIndex
           /\ reserve'.lastUpdateTimestamp = now
<1> DEFINE r == UpToDateReserve
           backing == IF amount < r.unbacked THEN amount ELSE r.unbacked
           toProtocol == percentMul(fee, bridgeProtocolFee)
           index == CumulatedIndex(r, fee - toProtocol)
           treasury == r.accruedToTreasury + rayDiv(toProtocol, index)
           unbacked == r.unbacked - backing
           liquidity == r.liquidity + backing + fee
           s == [r EXCEPT !.liquidityIndex = index, !.accruedToTreasury = treasury,
                          !.unbacked = unbacked, !.liquidity = liquidity]
           stable == StableTotalSupply(token)
           average == token.avgStableRate
<1>1. r.scaledSupply # 0 /\ OtherCall(s)
  BY DEF BackUnbacked
<1>2. /\ RecordInv(r) /\ r.lastUpdateTimestamp = now /\ now \in Nat /\ r \in ReserveData
      /\ r.liquidityIndex \in Nat \ {0} /\ RAY <= r.liquidityIndex /\ RAY \in Nat
      /\ r.unbacked \in Nat /\ r.liquidity \in Nat /\ r.accruedToTreasury \in Nat
  BY Present, RecordFacts, ScaleAssumption DEF RecordInv
<1>3. toProtocol \in Nat /\ toProtocol <= fee
  BY PercentMulBounded, MarketAssumption
<1> HIDE DEF toProtocol
<1>4. index \in Nat /\ r.liquidityIndex <= index
  <2>1. fee - toProtocol \in Nat
    BY <1>3
  <2> QED
    BY <1>1, <1>2, <2>1, CumulatedGrows
<1> HIDE DEF index
<1>5. index \in Nat \ {0} /\ RAY <= index
  BY <1>2, <1>4
<1>6. rayDiv(toProtocol, index) \in Nat
  BY <1>3, <1>5, RayDivNat
<1>7. treasury \in Nat /\ unbacked \in Nat /\ liquidity \in Nat
  <2>1. backing \in Nat /\ backing <= r.unbacked
    BY <1>2
  <2> HIDE DEF backing
  <2> QED
    BY <1>2, <1>6, <2>1
<1> HIDE DEF treasury, unbacked, liquidity
<1>8. RecordInv(s) /\ s.lastUpdateTimestamp = now
  BY <1>2, <1>5, <1>7 DEF RecordInv, ReserveData
<1>9. /\ DOMAIN s = DOMAIN r
      /\ s.scaledSupply = r.scaledSupply /\ s.scaledVariableDebt = r.scaledVariableDebt
      /\ s.liquidityIndex = index /\ s.variableBorrowIndex = r.variableBorrowIndex
  BY <1>2 DEF ReserveData
<1>10. reserve' = Rated(s, stable, average)
  BY <1>1 DEF OtherCall
<1> HIDE DEF s, stable, average
<1>11. CallKept(s)
  BY <1>1, <1>8, OtherCallKeeps
<1>12. reserve'.scaledSupply = r.scaledSupply /\ reserve'.scaledVariableDebt = r.scaledVariableDebt
  BY <1>2, <1>9, <1>10, RatedTotals
<1>13. /\ reserve'.liquidityIndex = index /\ reserve'.lastUpdateTimestamp = now
       /\ reserve'.variableBorrowIndex = r.variableBorrowIndex
  BY <1>9, <1>11 DEF CallKept
<1> QED
  BY <1>4, <1>11, <1>12, <1>13, SameIndices DEF Leaves, CallKept

(* The accounts' own calls, which leave the reserve as it was.             *)
LEMMA UntouchedLeaves ==
    ASSUME ReserveInv, Call(token), UNCHANGED reserve
    PROVE  Leaves(reserve.scaledSupply, reserve.scaledVariableDebt)
<1>1. now' = now /\ token' = token /\ calls' = calls + 1 /\ calls < MaxCalls
  BY DEF Call
<1>2. calls \in 0..MaxCalls /\ MaxCalls \in Nat
  BY TokenAssumption DEF ReserveInv
<1>3. ReserveInv'
  BY <1>1, <1>2 DEF ReserveInv, BooksInv, RecordInv, TokenInv
<1> QED
  BY <1>1, <1>3 DEF Leaves

-----------------------------------------------------------------------------
(* What a call makes of the account it moves.                              *)
LEMMA AccountMoved ==
    ASSUME MarketInv, NEW b \in Account, NEW scaled \in Nat
    PROVE  /\ Receiving(b, scaled) \in Account
           /\ Receiving(b, scaled).scaledBalance = b.scaledBalance + scaled
           /\ Receiving(b, scaled).scaledDebt = b.scaledDebt
           /\ Owing(b, scaled) \in Account
           /\ Owing(b, scaled).scaledBalance = b.scaledBalance
           /\ Owing(b, scaled).scaledDebt = b.scaledDebt + scaled
           /\ scaled <= b.scaledBalance =>
                 \A everything \in BOOLEAN :
                    /\ Giving(b, scaled, everything) \in Account
                    /\ Giving(b, scaled, everything).scaledBalance = b.scaledBalance - scaled
                    /\ Giving(b, scaled, everything).scaledDebt = b.scaledDebt
           /\ scaled <= b.scaledDebt =>
                 /\ Owed(b, scaled) \in Account
                 /\ Owed(b, scaled).scaledBalance = b.scaledBalance
                 /\ Owed(b, scaled).scaledDebt = b.scaledDebt - scaled
<1>1. Income \in Nat /\ DebtIndex \in Nat
  BY SameIndices DEF MarketInv
<1> HIDE DEF Income, DebtIndex
<1>2. b.scaledBalance \in Nat /\ b.scaledDebt \in Nat /\ b.usedAsCollateral \in BOOLEAN
  BY DEF Account
<1>3. /\ Receiving(b, scaled) \in Account
      /\ Receiving(b, scaled).scaledBalance = b.scaledBalance + scaled
      /\ Receiving(b, scaled).scaledDebt = b.scaledDebt
  <2> DEFINE held == b.scaledBalance + scaled
             used == b.usedAsCollateral \/ b.scaledBalance = 0
  <2>1. held \in Nat /\ used \in BOOLEAN
    BY <1>2
  <2>2. Receiving(b, scaled)
          = [b EXCEPT !.scaledBalance = held, !.balanceIndex = Income, !.usedAsCollateral = used]
    BY DEF Receiving
  <2> HIDE DEF held, used
  <2>3. /\ Receiving(b, scaled) \in Account
        /\ Receiving(b, scaled).scaledBalance = held
        /\ Receiving(b, scaled).scaledDebt = b.scaledDebt
    BY <1>1, <2>1, <2>2 DEF Account
  <2> QED
    BY <2>3 DEF held
<1>4. /\ Owing(b, scaled) \in Account
      /\ Owing(b, scaled).scaledBalance = b.scaledBalance
      /\ Owing(b, scaled).scaledDebt = b.scaledDebt + scaled
  <2> DEFINE owed == b.scaledDebt + scaled
  <2>1. owed \in Nat
    BY <1>2
  <2>2. Owing(b, scaled) = [b EXCEPT !.scaledDebt = owed, !.debtIndex = DebtIndex]
    BY DEF Owing
  <2> HIDE DEF owed
  <2>3. /\ Owing(b, scaled) \in Account /\ Owing(b, scaled).scaledDebt = owed
        /\ Owing(b, scaled).scaledBalance = b.scaledBalance
    BY <1>1, <2>1, <2>2 DEF Account
  <2> QED
    BY <2>3 DEF owed
<1>5. ASSUME scaled <= b.scaledBalance, NEW everything \in BOOLEAN
      PROVE  /\ Giving(b, scaled, everything) \in Account
             /\ Giving(b, scaled, everything).scaledBalance = b.scaledBalance - scaled
             /\ Giving(b, scaled, everything).scaledDebt = b.scaledDebt
  <2> DEFINE held == b.scaledBalance - scaled
             used == b.usedAsCollateral /\ ~everything
  <2>1. held \in Nat /\ used \in BOOLEAN
    BY <1>2, <1>5
  <2>2. Giving(b, scaled, everything)
          = [b EXCEPT !.scaledBalance = held, !.balanceIndex = Income, !.usedAsCollateral = used]
    BY DEF Giving
  <2> HIDE DEF held, used
  <2>3. /\ Giving(b, scaled, everything) \in Account
        /\ Giving(b, scaled, everything).scaledBalance = held
        /\ Giving(b, scaled, everything).scaledDebt = b.scaledDebt
    BY <1>1, <2>1, <2>2 DEF Account
  <2> QED
    BY <2>3 DEF held
<1>6. ASSUME scaled <= b.scaledDebt
      PROVE  /\ Owed(b, scaled) \in Account
             /\ Owed(b, scaled).scaledBalance = b.scaledBalance
             /\ Owed(b, scaled).scaledDebt = b.scaledDebt - scaled
  <2> DEFINE owed == b.scaledDebt - scaled
  <2>1. owed \in Nat
    BY <1>2, <1>6
  <2>2. Owed(b, scaled) = [b EXCEPT !.scaledDebt = owed, !.debtIndex = DebtIndex]
    BY DEF Owed
  <2> HIDE DEF owed
  <2>3. /\ Owed(b, scaled) \in Account /\ Owed(b, scaled).scaledDebt = owed
        /\ Owed(b, scaled).scaledBalance = b.scaledBalance
    BY <1>1, <2>1, <2>2 DEF Account
  <2> QED
    BY <2>3 DEF owed
<1> QED
  BY <1>3, <1>4, <1>5, <1>6

(* What every call of the market keeps.                                    *)
MarketKept == MarketInv' /\ now' = now /\ (token' = token \/ TokenCall(token'))

(* A call that moves one account and may pay another.                      *)
LEMMA AccountCall ==
    ASSUME MarketInv, NEW u \in Users, NEW a \in Account, NEW payer \in Users, NEW wallet \in Int,
           \/ accounts' = [accounts EXCEPT ![u] = a]
           \/ accounts' = [accounts EXCEPT ![u] = a, ![payer].wallet = wallet],
           NEW supply, NEW debt, Leaves(supply, debt),
           supply = reserve.scaledSupply + a.scaledBalance - accounts[u].scaledBalance,
           debt = reserve.scaledVariableDebt + a.scaledDebt - accounts[u].scaledDebt
    PROVE  MarketKept
<1> DEFINE d == [accounts EXCEPT ![u] = a]
           e == [d[payer] EXCEPT !.wallet = wallet]
<1>1. PICK c : accounts' = c /\ (c = d \/ c = [d EXCEPT ![payer] = e])
  OBVIOUS
<1>2. /\ d \in [Users -> Account] /\ d[u] = a
      /\ \A v \in Users \ {u} : d[v] = accounts[v]
  BY DEF MarketInv, AccountsInv
<1>3. /\ c \in [Users -> Account]
      /\ c[u].scaledBalance = a.scaledBalance /\ c[u].scaledDebt = a.scaledDebt
      /\ \A v \in Users \ {u} : /\ c[v].scaledBalance = accounts[v].scaledBalance
                                /\ c[v].scaledDebt = accounts[v].scaledDebt
  <2> HIDE DEF d
  <2>1. d[payer] \in Account
    BY <1>2
  <2>2. /\ e \in Account /\ e.scaledBalance = d[payer].scaledBalance
        /\ e.scaledDebt = d[payer].scaledDebt
    BY <2>1 DEF Account
  <2> HIDE DEF e
  <2> QED
    BY <1>1, <1>2, <2>2
<1>4. /\ ReserveInv'
      /\ reserve'.scaledSupply
           = reserve.scaledSupply + c[u].scaledBalance - accounts[u].scaledBalance
      /\ reserve'.scaledVariableDebt
           = reserve.scaledVariableDebt + c[u].scaledDebt - accounts[u].scaledDebt
  BY <1>3 DEF Leaves
<1>5. MarketInv'
  BY <1>1, <1>3, <1>4, OneAccountMoves
<1> QED
  BY <1>5 DEF MarketKept, Leaves

LEMMA MarketFacts ==
    ASSUME MarketInv, NEW u \in Users
    PROVE  /\ accounts[u] \in Account
           /\ accounts[u].scaledBalance \in Nat /\ accounts[u].scaledDebt \in Nat
           /\ accounts[u].wallet \in Int
           /\ reserve.scaledSupply \in Nat /\ reserve.scaledVariableDebt \in Nat
           /\ BalanceOf(u) \in Nat /\ VariableDebtOf(u) \in Nat
           /\ StableBalanceOf(token, u) \in Nat
<1>1. Income \in Nat /\ DebtIndex \in Nat
  BY SameIndices DEF MarketInv
<1>2. /\ accounts[u] \in Account
      /\ accounts[u].scaledBalance \in Nat /\ accounts[u].scaledDebt \in Nat
      /\ accounts[u].wallet \in Int
  BY AccountFacts DEF MarketInv, AccountsInv
<1>3. reserve.scaledSupply \in Nat /\ reserve.scaledVariableDebt \in Nat
  BY SameIndices, PresentFacts DEF MarketInv
<1>4. BalanceOf(u) \in Nat /\ VariableDebtOf(u) \in Nat
  BY <1>1, <1>2, RayMulNat DEF BalanceOf, VariableDebtOf
<1>5. StableBalanceOf(token, u) \in Nat
  BY Present, StableBalanceNat DEF MarketInv
<1> QED
  BY <1>2, <1>3, <1>4, <1>5

LEMMA AmountsNat == \A x \in Amounts : x \in Nat \ {0}
  BY TokenAssumption

-----------------------------------------------------------------------------
(* The calls of the market, one lemma each.                                *)

LEMMA DepositKeeps ==
    ASSUME MarketInv, NEW sender \in Users, NEW u \in Users, NEW amount \in Amounts,
           Deposit(sender, u, amount)
    PROVE  MarketKept
<1> DEFINE scaled == rayDiv(amount, Income)
           b == accounts[u]
           a == Receiving(b, scaled)
           wallet == accounts[sender].wallet - amount
<1>1. amount \in Nat /\ scaled \in Nat
  BY AmountsNat, SameIndices, RayDivNat DEF MarketInv
<1>2. /\ accounts' = [accounts EXCEPT ![u] = a, ![sender].wallet = wallet]
      /\ Supply(amount)
  BY DEF Deposit
<1>3. wallet \in Int /\ b \in Account
  BY <1>1, MarketFacts
<1>4. Leaves(reserve.scaledSupply + scaled, reserve.scaledVariableDebt)
  BY <1>1, <1>2, SupplyLeaves DEF MarketInv
<1> HIDE DEF scaled, wallet
<1>5. a \in Account /\ a.scaledBalance = b.scaledBalance + scaled /\ a.scaledDebt = b.scaledDebt
  BY <1>1, <1>3, AccountMoved
<1> HIDE DEF a
<1>6. /\ reserve.scaledSupply + scaled = reserve.scaledSupply + a.scaledBalance - b.scaledBalance
      /\ reserve.scaledVariableDebt = reserve.scaledVariableDebt + a.scaledDebt - b.scaledDebt
  BY <1>1, <1>5, MarketFacts
<1> QED
  BY <1>2, <1>3, <1>4, <1>5, <1>6, AccountCall

(* Nobody burns more than he holds.                                        *)
LEMMA WithdrawToKeeps ==
    ASSUME MarketInv, NEW u \in Users, NEW asked \in Nat, WithdrawTo(u, asked)
    PROVE  MarketKept
<1> DEFINE amount == IF asked = MAX_UINT_AMOUNT THEN BalanceOf(u) ELSE asked
           scaled == rayDiv(amount, Income)
           b == accounts[u]
           everything == amount = BalanceOf(u)
           a == Giving(b, scaled, everything)
           wallet == accounts[u].wallet + amount
<1>1. /\ amount \in 1..BalanceOf(u)
      /\ Withdraw(amount)
      /\ accounts' = [accounts EXCEPT ![u] = Giving(@, scaled, everything),
                                      ![u].wallet = @ + amount]
  BY DEF WithdrawTo
<1> HIDE DEF amount
<1>2. accounts' = [accounts EXCEPT ![u] = a, ![u].wallet = wallet]
  BY <1>1
<1>3. amount \in Nat /\ amount <= BalanceOf(u)
  BY <1>1, MarketFacts
<1>4. scaled \in Nat /\ scaled <= b.scaledBalance
  BY <1>3, MarketFacts, SameIndices, RayDivNat, BurnWithinBalance DEF MarketInv, BalanceOf
<1>5. wallet \in Int /\ b \in Account /\ everything \in BOOLEAN
  BY <1>3, MarketFacts
<1>6. Leaves(reserve.scaledSupply - scaled, reserve.scaledVariableDebt)
  BY <1>1, <1>3, WithdrawLeaves DEF MarketInv
<1> HIDE DEF scaled, wallet, everything
<1>7. a \in Account /\ a.scaledBalance = b.scaledBalance - scaled /\ a.scaledDebt = b.scaledDebt
  BY <1>4, <1>5, AccountMoved
<1> HIDE DEF a
<1>8. /\ reserve.scaledSupply - scaled = reserve.scaledSupply + a.scaledBalance - b.scaledBalance
      /\ reserve.scaledVariableDebt = reserve.scaledVariableDebt + a.scaledDebt - b.scaledDebt
  BY <1>4, <1>7, MarketFacts
<1> QED
  BY <1>2, <1>5, <1>6, <1>7, <1>8, AccountCall

LEMMA BorrowAtVariableKeeps ==
    ASSUME MarketInv, NEW sender \in Users, NEW u \in Users, NEW amount \in Amounts,
           BorrowAtVariable(sender, u, amount)
    PROVE  MarketKept
<1> DEFINE scaled == rayDiv(amount, DebtIndex)
           b == accounts[u]
           a == Owing(b, scaled)
           wallet == accounts[sender].wallet + amount
<1>1. amount \in Nat /\ scaled \in Nat
  BY AmountsNat, SameIndices, RayDivNat DEF MarketInv
<1>2. accounts' = [accounts EXCEPT ![u] = a, ![sender].wallet = wallet] /\ BorrowVariable(amount)
  BY DEF BorrowAtVariable
<1>3. wallet \in Int /\ b \in Account
  BY <1>1, MarketFacts
<1>4. Leaves(reserve.scaledSupply, reserve.scaledVariableDebt + scaled)
  BY <1>1, <1>2, BorrowVariableLeaves DEF MarketInv
<1> HIDE DEF scaled, wallet
<1>5. a \in Account /\ a.scaledBalance = b.scaledBalance /\ a.scaledDebt = b.scaledDebt + scaled
  BY <1>1, <1>3, AccountMoved
<1> HIDE DEF a
<1>6. /\ reserve.scaledSupply = reserve.scaledSupply + a.scaledBalance - b.scaledBalance
      /\ reserve.scaledVariableDebt + scaled
           = reserve.scaledVariableDebt + a.scaledDebt - b.scaledDebt
  BY <1>1, <1>5, MarketFacts
<1> QED
  BY <1>2, <1>3, <1>4, <1>5, <1>6, AccountCall

LEMMA RepayAtVariableKeeps ==
    ASSUME MarketInv, NEW sender \in Users, NEW u \in Users, NEW asked \in Nat,
           RepayAtVariable(sender, u, asked)
    PROVE  MarketKept
<1> DEFINE amount == Payback(asked, VariableDebtOf(u))
           scaled == rayDiv(amount, DebtIndex)
           b == accounts[u]
           a == Owed(b, scaled)
           wallet == accounts[sender].wallet - amount
<1>1. amount \in Nat
  BY MarketFacts DEF Payback
<1>2. /\ accounts' = [accounts EXCEPT ![u] = a, ![sender].wallet = wallet]
      /\ RepayVariable(amount) /\ scaled \in 1..b.scaledDebt
  BY DEF RepayAtVariable
<1> HIDE DEF amount
<1>3. wallet \in Int /\ b \in Account
  BY <1>1, MarketFacts
<1>4. Leaves(reserve.scaledSupply, reserve.scaledVariableDebt - scaled)
  BY <1>1, <1>2, RepayVariableLeaves DEF MarketInv
<1> HIDE DEF scaled, wallet
<1>5. scaled \in Nat /\ scaled <= b.scaledDebt
  BY <1>2, MarketFacts
<1>6. a \in Account /\ a.scaledBalance = b.scaledBalance /\ a.scaledDebt = b.scaledDebt - scaled
  BY <1>3, <1>5, AccountMoved
<1> HIDE DEF a
<1>7. /\ reserve.scaledSupply = reserve.scaledSupply + a.scaledBalance - b.scaledBalance
      /\ reserve.scaledVariableDebt - scaled
           = reserve.scaledVariableDebt + a.scaledDebt - b.scaledDebt
  BY <1>5, <1>6, MarketFacts
<1> QED
  BY <1>2, <1>3, <1>4, <1>6, <1>7, AccountCall

(* Only somebody's wallet.                                                 *)
LEMMA WalletKeeps ==
    ASSUME MarketInv, NEW sender \in Users, NEW wallet \in Int,
           accounts' = [accounts EXCEPT ![sender].wallet = wallet],
           Leaves(reserve.scaledSupply, reserve.scaledVariableDebt)
    PROVE  MarketKept
<1> DEFINE b == accounts[sender]
           a == [b EXCEPT !.wallet = wallet]
<1>1. accounts' = [accounts EXCEPT ![sender] = a]
  OBVIOUS
<1>2. /\ a \in Account /\ a.scaledBalance = b.scaledBalance /\ a.scaledDebt = b.scaledDebt
  BY MarketFacts DEF Account
<1> HIDE DEF a
<1>3. /\ reserve.scaledSupply = reserve.scaledSupply + a.scaledBalance - b.scaledBalance
      /\ reserve.scaledVariableDebt = reserve.scaledVariableDebt + a.scaledDebt - b.scaledDebt
  BY <1>2, MarketFacts
<1> QED
  BY <1>1, <1>2, <1>3, AccountCall

LEMMA BorrowAtStableKeeps ==
    ASSUME MarketInv, NEW sender \in Users, NEW u \in Users, NEW amount \in Amounts,
           BorrowAtStable(sender, u, amount)
    PROVE  MarketKept
<1> DEFINE wallet == accounts[sender].wallet + amount
<1>1. amount \in Nat \ {0} /\ wallet \in Int
  BY AmountsNat, MarketFacts
<1>2. accounts' = [accounts EXCEPT ![sender].wallet = wallet] /\ BorrowStable(u, amount)
  BY DEF BorrowAtStable
<1>3. Leaves(reserve.scaledSupply, reserve.scaledVariableDebt)
  BY <1>1, <1>2, BorrowStableLeaves DEF MarketInv
<1> HIDE DEF wallet
<1> QED
  BY <1>1, <1>2, <1>3, WalletKeeps

LEMMA RepayAtStableKeeps ==
    ASSUME MarketInv, NEW sender \in Users, NEW u \in Users, NEW asked \in Nat,
           RepayAtStable(sender, u, asked)
    PROVE  MarketKept
<1> DEFINE amount == Payback(asked, StableBalanceOf(token, u))
           wallet == accounts[sender].wallet - amount
<1>1. amount \in Nat
  BY MarketFacts DEF Payback
<1>2. accounts' = [accounts EXCEPT ![sender].wallet = wallet] /\ RepayStable(u, amount)
  BY DEF RepayAtStable
<1> HIDE DEF amount
<1>3. Leaves(reserve.scaledSupply, reserve.scaledVariableDebt)
  BY <1>1, <1>2, RepayStableLeaves DEF MarketInv
<1>4. wallet \in Int
  BY <1>1, MarketFacts
<1> HIDE DEF wallet
<1> QED
  BY <1>2, <1>3, <1>4, WalletKeeps

(* The same with nobody to pay.                                            *)
LEMMA OwnAccountCall ==
    ASSUME MarketInv, NEW u \in Users, NEW a \in Account, accounts' = [accounts EXCEPT ![u] = a],
           NEW supply, NEW debt, Leaves(supply, debt),
           supply = reserve.scaledSupply + a.scaledBalance - accounts[u].scaledBalance,
           debt = reserve.scaledVariableDebt + a.scaledDebt - accounts[u].scaledDebt
    PROVE  MarketKept
<1>1. PICK wallet \in Int : TRUE
  OBVIOUS
<1> QED
  BY <1>1, AccountCall

LEMMA SwapFromStableKeeps ==
    ASSUME MarketInv, NEW u \in Users, SwapFromStable(u)
    PROVE  MarketKept
<1> DEFINE owed == StableBalanceOf(token, u)
           scaled == rayDiv(owed, DebtIndex)
           b == accounts[u]
           a == Owing(b, scaled)
<1>1. owed \in Nat /\ b \in Account
  BY MarketFacts
<1>2. accounts' = [accounts EXCEPT ![u] = a] /\ SwapToVariable(u)
  BY DEF SwapFromStable
<1>3. Leaves(reserve.scaledSupply, reserve.scaledVariableDebt + scaled)
  BY <1>2, SwapToVariableLeaves DEF MarketInv
<1> HIDE DEF owed
<1>4. scaled \in Nat
  BY <1>1, SameIndices, RayDivNat DEF MarketInv
<1> HIDE DEF scaled
<1>5. a \in Account /\ a.scaledBalance = b.scaledBalance /\ a.scaledDebt = b.scaledDebt + scaled
  BY <1>1, <1>4, AccountMoved
<1> HIDE DEF a
<1>6. /\ reserve.scaledSupply = reserve.scaledSupply + a.scaledBalance - b.scaledBalance
      /\ reserve.scaledVariableDebt + scaled
           = reserve.scaledVariableDebt + a.scaledDebt - b.scaledDebt
  BY <1>4, <1>5, MarketFacts
<1> QED
  BY <1>2, <1>3, <1>5, <1>6, OwnAccountCall

LEMMA SwapFromVariableKeeps ==
    ASSUME MarketInv, NEW u \in Users, SwapFromVariable(u)
    PROVE  MarketKept
<1> DEFINE owed == VariableDebtOf(u)
           scaled == rayDiv(owed, DebtIndex)
           b == accounts[u]
           a == Owed(b, scaled)
<1>1. owed \in Nat /\ b \in Account
  BY MarketFacts
<1>2. /\ accounts' = [accounts EXCEPT ![u] = a] /\ SwapToStable(u, owed)
      /\ scaled \in 1..b.scaledDebt
  BY DEF SwapFromVariable
<1> HIDE DEF owed
<1>3. Leaves(reserve.scaledSupply, reserve.scaledVariableDebt - scaled)
  BY <1>1, <1>2, SwapToStableLeaves DEF MarketInv
<1> HIDE DEF scaled
<1>4. scaled \in Nat /\ scaled <= b.scaledDebt
  BY <1>2, MarketFacts
<1>5. a \in Account /\ a.scaledBalance = b.scaledBalance /\ a.scaledDebt = b.scaledDebt - scaled
  BY <1>1, <1>4, AccountMoved
<1> HIDE DEF a
<1>6. /\ reserve.scaledSupply = reserve.scaledSupply + a.scaledBalance - b.scaledBalance
      /\ reserve.scaledVariableDebt - scaled
           = reserve.scaledVariableDebt + a.scaledDebt - b.scaledDebt
  BY <1>4, <1>5, MarketFacts
<1> QED
  BY <1>2, <1>3, <1>5, <1>6, OwnAccountCall

(* Nobody's account at all.                                                *)
LEMMA NobodyKeeps ==
    ASSUME MarketInv, UNCHANGED accounts, Leaves(reserve.scaledSupply, reserve.scaledVariableDebt)
    PROVE  MarketKept
<1>1. MarketInv'
  BY NoAccountMoves DEF MarketInv, AccountsInv, Leaves
<1> QED
  BY <1>1 DEF MarketKept, Leaves

LEMMA RebalanceRateKeeps ==
    ASSUME MarketInv, NEW u \in Users, RebalanceRate(u)
    PROVE  MarketKept
<1>1. RebalanceStableBorrowRate(u) /\ UNCHANGED accounts
  BY DEF RebalanceRate
<1> QED
  BY <1>1, RebalanceLeaves, NobodyKeeps DEF MarketInv

LEMMA BackUnbackedKeeps ==
    ASSUME MarketInv, NEW amount \in Amounts, NEW fee \in Fees, BackUnbacked(amount, fee)
    PROVE  MarketKept
<1>1. amount \in Nat /\ fee \in Nat
  BY AmountsNat, MarketAssumption
<1>2. UNCHANGED accounts
  BY DEF BackUnbacked
<1> QED
  BY <1>1, <1>2, BackUnbackedLeaves, NobodyKeeps DEF MarketInv

LEMMA MintUnbackedToKeeps ==
    ASSUME MarketInv, NEW u \in Users, NEW amount \in Amounts, MintUnbackedTo(u, amount)
    PROVE  MarketKept
<1> DEFINE scaled == rayDiv(amount, Income)
           b == accounts[u]
           a == Receiving(b, scaled)
<1>1. amount \in Nat /\ scaled \in Nat /\ b \in Account
  BY AmountsNat, SameIndices, RayDivNat, MarketFacts DEF MarketInv
<1>2. accounts' = [accounts EXCEPT ![u] = a] /\ MintUnbacked(amount)
  BY DEF MintUnbackedTo
<1>3. Leaves(reserve.scaledSupply + scaled, reserve.scaledVariableDebt)
  BY <1>1, <1>2, MintUnbackedLeaves DEF MarketInv
<1> HIDE DEF scaled
<1>4. a \in Account /\ a.scaledBalance = b.scaledBalance + scaled /\ a.scaledDebt = b.scaledDebt
  BY <1>1, AccountMoved
<1> HIDE DEF a
<1>5. /\ reserve.scaledSupply + scaled = reserve.scaledSupply + a.scaledBalance - b.scaledBalance
      /\ reserve.scaledVariableDebt = reserve.scaledVariableDebt + a.scaledDebt - b.scaledDebt
  BY <1>1, <1>4, MarketFacts
<1> QED
  BY <1>2, <1>3, <1>4, <1>5, OwnAccountCall

LEMMA SetUseAsCollateralKeeps ==
    ASSUME MarketInv, NEW u \in Users, NEW use \in BOOLEAN, SetUseAsCollateral(u, use)
    PROVE  MarketKept
<1> DEFINE b == accounts[u]
           a == [b EXCEPT !.usedAsCollateral = use]
<1>1. accounts' = [accounts EXCEPT ![u] = a] /\ Call(token) /\ UNCHANGED reserve
  BY DEF SetUseAsCollateral
<1>2. a \in Account /\ a.scaledBalance = b.scaledBalance /\ a.scaledDebt = b.scaledDebt
  BY MarketFacts DEF Account
<1>3. Leaves(reserve.scaledSupply, reserve.scaledVariableDebt)
  BY <1>1, UntouchedLeaves DEF MarketInv
<1> HIDE DEF a
<1>4. /\ reserve.scaledSupply = reserve.scaledSupply + a.scaledBalance - b.scaledBalance
      /\ reserve.scaledVariableDebt = reserve.scaledVariableDebt + a.scaledDebt - b.scaledDebt
  BY <1>2, MarketFacts
<1> QED
  BY <1>1, <1>2, <1>3, <1>4, OwnAccountCall

LEMMA HoldingMoved ==
    ASSUME MarketInv, NEW b \in Account, NEW scaled \in Nat
    PROVE  /\ Holding(b, scaled) \in Account
           /\ Holding(b, scaled).scaledBalance = scaled
           /\ Holding(b, scaled).scaledDebt = b.scaledDebt
           /\ Holding(b, scaled).balanceIndex = Income
           /\ Holding(b, scaled).debtIndex = b.debtIndex
<1>1. Income \in Nat
  BY SameIndices DEF MarketInv
<1> HIDE DEF Income
<1> QED
  BY <1>1 DEF Holding, Account

(* What one gives the other receives, and whoever sends to himself keeps.  *)
LEMMA MovedKeeps ==
    ASSUME MarketInv, NEW from \in Users, NEW to \in Users, NEW scaled \in Nat,
           scaled <= accounts[from].scaledBalance
    PROVE  /\ Moved(from, to, scaled) \in [Users -> Account]
           /\ ScaledBalances(Moved(from, to, scaled)) = ScaledBalances(accounts)
           /\ ScaledDebts(Moved(from, to, scaled)) = ScaledDebts(accounts)
<1> DEFINE left == accounts[from].scaledBalance - scaled
           gives == Holding(accounts[from], left)
           given == [accounts EXCEPT ![from] = gives]
           got == given[to].scaledBalance + scaled
           takes == Holding(given[to], got)
           moved == [given EXCEPT ![to] = takes]
<1>1. moved = Moved(from, to, scaled)
  BY DEF Moved
<1>2. accounts \in [Users -> Account] /\ accounts[from] \in Account /\ left \in Nat
  BY MarketFacts DEF MarketInv, AccountsInv
<1> HIDE DEF left
<1>3. /\ gives \in Account /\ gives.scaledBalance = left
      /\ gives.scaledDebt = accounts[from].scaledDebt
  BY <1>2, HoldingMoved
<1> HIDE DEF gives
<1>4. /\ given \in [Users -> Account] /\ given[from] = gives
      /\ \A v \in Users \ {from} : given[v] = accounts[v]
  BY <1>2, <1>3
<1> HIDE DEF given
<1>5. given[to] \in Account /\ got \in Nat
  BY <1>4, AccountFacts
<1> HIDE DEF got
<1>6. /\ takes \in Account /\ takes.scaledBalance = got
      /\ takes.scaledDebt = given[to].scaledDebt
  BY <1>5, HoldingMoved
<1> HIDE DEF takes
<1>7. /\ moved \in [Users -> Account] /\ moved[to] = takes
      /\ \A v \in Users \ {to} : moved[v] = given[v]
  BY <1>4, <1>6
<1> HIDE DEF moved
<1>8. /\ ScaledBalances(accounts) \in Nat /\ ScaledDebts(accounts) \in Nat
      /\ ScaledBalances(given)
           = ScaledBalances(accounts) + given[from].scaledBalance - accounts[from].scaledBalance
      /\ ScaledDebts(given)
           = ScaledDebts(accounts) + given[from].scaledDebt - accounts[from].scaledDebt
  BY <1>2, <1>4, AccountSums
<1>9. /\ ScaledBalances(given) \in Nat /\ ScaledDebts(given) \in Nat
      /\ ScaledBalances(moved)
           = ScaledBalances(given) + moved[to].scaledBalance - given[to].scaledBalance
      /\ ScaledDebts(moved) = ScaledDebts(given) + moved[to].scaledDebt - given[to].scaledDebt
  BY <1>4, <1>7, AccountSums
<1>10. ScaledBalances(given) = ScaledBalances(accounts) - scaled
  BY <1>2, <1>3, <1>4, <1>8, MarketFacts DEF left
<1>11. ScaledBalances(moved) = ScaledBalances(given) + scaled
  BY <1>4, <1>6, <1>7, <1>9, AccountFacts DEF got
<1>12. ScaledDebts(given) = ScaledDebts(accounts)
  BY <1>3, <1>4, <1>8, MarketFacts
<1>13. ScaledDebts(moved) = ScaledDebts(given)
  BY <1>4, <1>6, <1>7, <1>9, AccountFacts
<1> QED
  BY <1>1, <1>7, <1>8, <1>10, <1>11, <1>12, <1>13

LEMMA TransferFromKeeps ==
    ASSUME MarketInv, NEW caller, NEW from \in Users, NEW to \in Users, NEW amount \in Nat,
           TransferFrom(caller, from, to, amount)
    PROVE  MarketKept
<1> DEFINE scaled == rayDiv(amount, Income)
           moved == Moved(from, to, scaled)
           stays == moved[from].usedAsCollateral /\ amount # BalanceOf(from)
           uses == moved[to].usedAsCollateral \/ BalanceOf(to) = 0
<1>1. scaled \in Nat /\ scaled <= accounts[from].scaledBalance
  BY SameIndices, RayDivNat DEF MarketInv, TransferFrom
<1>2. Call(token) /\ UNCHANGED reserve
  BY DEF TransferFrom
<1>3. \/ accounts' = moved
      \/ /\ from # to
         /\ accounts' = [moved EXCEPT ![from].usedAsCollateral = stays,
                                      ![to].usedAsCollateral = uses]
  BY DEF TransferFrom
<1>4. Leaves(reserve.scaledSupply, reserve.scaledVariableDebt)
  BY <1>2, UntouchedLeaves DEF MarketInv
<1> HIDE DEF scaled
<1>5. /\ moved \in [Users -> Account]
      /\ ScaledBalances(moved) = ScaledBalances(accounts)
      /\ ScaledDebts(moved) = ScaledDebts(accounts)
  BY <1>1, MovedKeeps
<1> HIDE DEF moved
<1>6. stays \in BOOLEAN /\ uses \in BOOLEAN
  BY <1>5 DEF Account
<1> HIDE DEF stays, uses
<1>7. PICK c : /\ accounts' = c /\ c \in [Users -> Account]
               /\ \A v \in Users : /\ c[v].scaledBalance = moved[v].scaledBalance
                                   /\ c[v].scaledDebt = moved[v].scaledDebt
  <2> DEFINE e(v, use) == [moved[v] EXCEPT !.usedAsCollateral = use]
  <2>1. ASSUME NEW v \in Users, NEW use \in BOOLEAN
        PROVE  /\ e(v, use) \in Account
               /\ e(v, use).scaledBalance = moved[v].scaledBalance
               /\ e(v, use).scaledDebt = moved[v].scaledDebt
    <3>1. moved[v] \in Account
      BY <1>5
    <3> QED
      BY <3>1 DEF Account
  <2>2. CASE accounts' = moved
    BY <1>5, <2>2
  <2>3. CASE /\ from # to
             /\ accounts' = [moved EXCEPT ![from].usedAsCollateral = stays,
                                          ![to].usedAsCollateral = uses]
    <3> DEFINE c == [moved EXCEPT ![from] = e(from, stays), ![to] = e(to, uses)]
    <3>1. accounts' = c
      BY <1>5, <2>3
    <3> HIDE DEF e
    <3>2. /\ c \in [Users -> Account]
          /\ \A v \in Users : /\ c[v].scaledBalance = moved[v].scaledBalance
                              /\ c[v].scaledDebt = moved[v].scaledDebt
      BY <1>5, <1>6, <2>1
    <3> HIDE DEF c
    <3> QED
      BY <3>1, <3>2
  <2> QED
    BY <1>3, <2>2, <2>3
<1>8. ScaledBalances(c) = ScaledBalances(moved) /\ ScaledDebts(c) = ScaledDebts(moved)
  <2>1. /\ [u \in Users |-> c[u].scaledBalance] = [u \in Users |-> moved[u].scaledBalance]
        /\ [u \in Users |-> c[u].scaledDebt] = [u \in Users |-> moved[u].scaledDebt]
    BY <1>7
  <2> QED
    BY <2>1 DEF ScaledBalances, ScaledDebts
<1> QED
  BY <1>4, <1>5, <1>7, <1>8, AccountsNext DEF MarketInv, AccountsInv, Leaves, MarketKept

-----------------------------------------------------------------------------
(* The scenarios.                                                          *)

LEMMA InitialMarket == MarketInit => MarketInv
<1> SUFFICES ASSUME MarketInit PROVE MarketInv
  OBVIOUS
<1> DEFINE r == [liquidityIndex |-> RAY, variableBorrowIndex |-> RAY,
                 currentLiquidityRate |-> 0, currentVariableBorrowRate |-> 0,
                 currentStableBorrowRate |-> 0, lastUpdateTimestamp |-> 1,
                 accruedToTreasury |-> 0, unbacked |-> 0,
                 scaledSupply |-> InitialLiquidity, scaledVariableDebt |-> 0,
                 liquidity |-> InitialLiquidity]
<1>1. /\ now = 1 /\ token = EmptyToken /\ calls = 0
      /\ reserve = Rated(r, 0, 0) /\ accounts = [u \in Users |-> EmptyAccount]
  BY DEF MarketInit, TokenInit
<1>2. RAY \in Nat /\ MaxCalls \in Nat /\ InitialLiquidity \in Nat /\ IsFiniteSet(Users)
  BY ScaleAssumption, TokenAssumption, MarketAssumption
<1>3. /\ RecordInv(r) /\ r \in ReserveData
      /\ r.scaledSupply = InitialLiquidity /\ r.scaledVariableDebt = 0
      /\ r.lastUpdateTimestamp = 1
  BY <1>1, <1>2 DEF RecordInv, ReserveData
<1>4. TokenInv(token) /\ token.supplyTimestamp = 0 /\ calls \in 0..MaxCalls
  BY <1>1, <1>2 DEF EmptyToken, TokenInv, Token
<1> HIDE DEF r
<1>5. /\ RecordInv(reserve) /\ reserve.lastUpdateTimestamp = 1
      /\ reserve.scaledSupply = InitialLiquidity /\ reserve.scaledVariableDebt = 0
  BY <1>1, <1>3, RatedType, RatedTotals
<1>6. ReserveInv
  BY <1>4, <1>5 DEF ReserveInv, BooksInv
<1>7. accounts \in [Users -> Account]
  BY <1>1 DEF Account, EmptyAccount
<1>8. ScaledBalances(accounts) = 0 /\ ScaledDebts(accounts) = 0
  <2> DEFINE zero == [u \in Users |-> 0]
  <2>1. /\ [u \in Users |-> accounts[u].scaledBalance] = zero
        /\ [u \in Users |-> accounts[u].scaledDebt] = zero
    BY <1>1 DEF EmptyAccount
  <2>2. zero \in [Users -> Nat] /\ \A u \in Users : zero[u] = 0
    OBVIOUS
  <2> HIDE DEF zero
  <2>3. SumFunction(zero) = 0
    BY <1>2, <2>2, SumOfNothing
  <2> QED
    BY <2>1, <2>3 DEF ScaledBalances, ScaledDebts
<1> QED
  BY <1>2, <1>5, <1>6, <1>7, <1>8 DEF MarketInv, AccountsInv

(* Nothing of the market moves in a read, and only the clock in a wait.    *)
LEMMA MarketStutters ==
    ASSUME MarketInv, UNCHANGED marketVars
    PROVE  MarketInv'
<1>1. UNCHANGED <<now, token, calls, reserve, accounts>>
  BY DEF marketVars, reserveVars, tokenVars
<1>2. ReserveInv'
  BY <1>1 DEF MarketInv, ReserveInv, BooksInv, RecordInv, TokenInv
<1>3. Leaves(reserve.scaledSupply, reserve.scaledVariableDebt)
  BY <1>1, <1>2 DEF Leaves
<1> QED
  BY <1>1, <1>3, NobodyKeeps DEF MarketKept

LEMMA MarketWaits ==
    ASSUME MarketInv, TimePasses
    PROVE  MarketInv'
<1>1. ReserveInv' /\ reserve' = reserve /\ accounts' = accounts
  BY TimeKeeps DEF TimePasses, MarketInv
<1> QED
  BY <1>1, NoAccountMoves DEF MarketInv, AccountsInv

LEMMA AskedNat == \A x \in Amounts \cup {MAX_UINT_AMOUNT} : x \in Nat
  BY AmountsNat, MarketAssumption

LEMMA MarketCalls ==
    ASSUME MarketInv,
           \/ SendDeposit \/ SendWithdraw \/ SendBorrow \/ SendRepay
           \/ SendSwapBorrowRateMode \/ SendRebalance \/ SendSetUseAsCollateral
           \/ SendMintUnbacked \/ SendBackUnbacked \/ SendTransferFrom
    PROVE  MarketKept
<1>1. CASE SendDeposit
  <2>1. PICK op \in Deposits : Deposit(op.user, op.u, op.amount)
    BY <1>1 DEF SendDeposit
  <2>2. op.user \in Users /\ op.u \in Users /\ op.amount \in Amounts
    BY DEF Deposits
  <2> QED
    BY <2>1, <2>2, DepositKeeps
<1>2. CASE SendWithdraw
  <2>1. PICK op \in Withdrawals : WithdrawTo(op.u, op.amount)
    BY <1>2 DEF SendWithdraw
  <2>2. op.u \in Users /\ op.amount \in Nat
    BY AskedNat DEF Withdrawals
  <2> QED
    BY <2>1, <2>2, WithdrawToKeeps
<1>3. CASE SendBorrow
  <2>1. PICK op \in Borrows :
           BorrowAtStable(op.user, op.u, op.amount) \/ BorrowAtVariable(op.user, op.u, op.amount)
    BY <1>3 DEF SendBorrow
  <2>2. op.user \in Users /\ op.u \in Users /\ op.amount \in Amounts
    BY DEF Borrows
  <2> QED
    BY <2>1, <2>2, BorrowAtStableKeeps, BorrowAtVariableKeeps
<1>4. CASE SendRepay
  <2>1. PICK op \in Repayments :
           RepayAtStable(op.user, op.u, op.amount) \/ RepayAtVariable(op.user, op.u, op.amount)
    BY <1>4 DEF SendRepay
  <2>2. op.user \in Users /\ op.u \in Users /\ op.amount \in Nat
    BY AskedNat DEF Repayments
  <2> QED
    BY <2>1, <2>2, RepayAtStableKeeps, RepayAtVariableKeeps
<1>5. CASE SendSwapBorrowRateMode
  <2>1. PICK op \in Swaps : SwapFromStable(op.u) \/ SwapFromVariable(op.u)
    BY <1>5 DEF SendSwapBorrowRateMode
  <2>2. op.u \in Users
    BY DEF Swaps
  <2> QED
    BY <2>1, <2>2, SwapFromStableKeeps, SwapFromVariableKeeps
<1>6. CASE SendRebalance
  <2>1. PICK op \in Rebalances : RebalanceRate(op.u)
    BY <1>6 DEF SendRebalance
  <2>2. op.u \in Users
    BY DEF Rebalances
  <2> QED
    BY <2>1, <2>2, RebalanceRateKeeps
<1>7. CASE SendSetUseAsCollateral
  <2>1. PICK op \in CollateralSwitches : SetUseAsCollateral(op.u, op.use)
    BY <1>7 DEF SendSetUseAsCollateral
  <2>2. op.u \in Users /\ op.use \in BOOLEAN
    BY DEF CollateralSwitches
  <2> QED
    BY <2>1, <2>2, SetUseAsCollateralKeeps
<1>8. CASE SendMintUnbacked
  <2>1. PICK op \in UnbackedMints : MintUnbackedTo(op.u, op.amount)
    BY <1>8 DEF SendMintUnbacked
  <2>2. op.u \in Users /\ op.amount \in Amounts
    BY DEF UnbackedMints
  <2> QED
    BY <2>1, <2>2, MintUnbackedToKeeps
<1>9. CASE SendBackUnbacked
  <2>1. PICK op \in Backings : BackUnbacked(op.amount, op.fee)
    BY <1>9 DEF SendBackUnbacked
  <2>2. op.amount \in Amounts /\ op.fee \in Fees
    BY DEF Backings
  <2> QED
    BY <2>1, <2>2, BackUnbackedKeeps
<1>10. CASE SendTransferFrom
  <2>1. PICK op \in Transfers : TransferFrom(op.user, op.u, op.to, op.amount)
    BY <1>10 DEF SendTransferFrom
  <2>2. op.u \in Users /\ op.to \in Users /\ op.amount \in Nat
    BY ScenarioAssumption DEF Transfers
  <2> QED
    BY <2>1, <2>2, TransferFromKeeps
<1> QED
  BY <1>1, <1>2, <1>3, <1>4, <1>5, <1>6, <1>7, <1>8, <1>9, <1>10

LEMMA MarketSteps ==
    ASSUME MarketInv, ScenarioNext
    PROVE  MarketInv'
<1>1. CASE Read
  BY <1>1, MarketStutters DEF Read
<1>2. CASE Wait
  BY <1>2, MarketWaits DEF Wait
<1> QED
  BY <1>1, <1>2, MarketCalls DEF ScenarioNext, MarketKept

LEMMA MarketTyped == MarketInv => MarketTypeOK
<1> SUFFICES ASSUME MarketInv PROVE MarketTypeOK
  OBVIOUS
<1>1. /\ TokenInv(token) /\ RecordInv(reserve) /\ calls \in 0..MaxCalls
      /\ RecordInv(UpToDateReserve)
  BY Present DEF MarketInv, ReserveInv, BooksInv
<1>2. ReserveTypeOK
  BY <1>1 DEF ReserveTypeOK, TokenTypeOK, TokenInv, RecordInv
<1> QED
  BY <1>2 DEF MarketInv, AccountsInv, MarketTypeOK

(* Whatever a scenario is made of, the totals of the aToken and of the     *)
(* variable debt token are the sums of what the accounts hold and owe:     *)
(* what a call moves in an account it moves in the token's total, and what *)
(* the pool scales by its index up to date the token scales by the same    *)
(* (ScaledBalanceTokenBase.sol, ReserveLogic.sol).                         *)
THEOREM MarketAddsUp == ScenarioSpec => []MarketTypeOK
<1>1. ScenarioInit => MarketInv
  BY InitialMarket DEF ScenarioInit
<1>2. MarketInv /\ [ScenarioNext]_scenarioVars => MarketInv'
  <2> SUFFICES ASSUME MarketInv, [ScenarioNext]_scenarioVars PROVE MarketInv'
    OBVIOUS
  <2>1. CASE ScenarioNext
    BY <2>1, MarketSteps
  <2>2. CASE UNCHANGED scenarioVars
    BY <2>2, MarketStutters DEF scenarioVars
  <2> QED
    BY <2>1, <2>2
<1> QED
  BY <1>1, <1>2, MarketTyped, PTL DEF ScenarioSpec

-----------------------------------------------------------------------------
(* The receipts.  Where nothing is negative the test's arithmetic is that  *)
(* of the contracts.                                                       *)

LEMMA OracleArithmetic ==
    ASSUME NEW a \in Nat, NEW b \in Nat
    PROVE  /\ b # 0 => Oracle!div(a, b) = a \div b
           /\ Oracle!rayMul(a, b) = rayMul(a, b)
           /\ b # 0 => Oracle!rayDiv(a, b) = rayDiv(a, b)
<1>1. ASSUME NEW m \in Nat, NEW n \in Nat \ {0} PROVE Oracle!div(m, n) = m \div n
  <2> DEFINE q == m \div n
  <2>1. q \in Nat
    BY DivBounds
  <2>2. Oracle!Magnitude(m) = m /\ Oracle!Magnitude(n) = n
    BY DEF Oracle!Magnitude
  <2>3. ~(m < 0) /\ ~(n < 0)
    OBVIOUS
  <2>4. Oracle!div(m, n) = q * 1
    BY <2>2, <2>3 DEF Oracle!div
  <2> HIDE DEF q
  <2>5. q * 1 = q
    BY <2>1
  <2> QED
    BY <2>4, <2>5 DEF q
<1>2. RAY \in Nat \ {0} /\ 2 \in Nat \ {0} /\ RAY \div 2 \in Nat
  BY ScaleAssumption, DivBounds
<1>3. Oracle!rayMul(a, b) = rayMul(a, b)
  <2> DEFINE half == RAY \div 2
             p == a * b
  <2>1. Oracle!div(RAY, 2) = half /\ p \in Nat
    BY <1>1, <1>2, ProductNat
  <2>2. Oracle!rayMul(a, b) = Oracle!div(half + p, RAY)
    BY <2>1 DEF Oracle!rayMul
  <2>3. rayMul(a, b) = (p + half) \div RAY
    BY DEF rayMul, HALF_RAY
  <2> HIDE DEF half, p
  <2>4. half + p \in Nat /\ half + p = p + half
    BY <1>2, <2>1 DEF half
  <2>5. Oracle!div(half + p, RAY) = (half + p) \div RAY
    BY <1>1, <1>2, <2>4
  <2> QED
    BY <2>2, <2>3, <2>4, <2>5
<1>4. ASSUME b # 0 PROVE Oracle!rayDiv(a, b) = rayDiv(a, b)
  <2> DEFINE half == b \div 2
             p == a * RAY
  <2>1. Oracle!div(b, 2) = half /\ p \in Nat /\ half \in Nat
    BY <1>1, <1>2, <1>4, ProductNat, DivBounds
  <2>2. Oracle!rayDiv(a, b) = Oracle!div(half + p, b)
    BY <2>1 DEF Oracle!rayDiv
  <2>3. rayDiv(a, b) = (p + half) \div b
    BY DEF rayDiv
  <2> HIDE DEF half, p
  <2>4. half + p \in Nat /\ half + p = p + half
    BY <2>1
  <2>5. Oracle!div(half + p, b) = (half + p) \div b
    BY <1>1, <1>4, <2>4
  <2> QED
    BY <2>2, <2>3, <2>4, <2>5
<1> QED
  BY <1>1, <1>3, <1>4

LEMMA OracleCompounds ==
    ASSUME NEW rate \in Nat, NEW last \in Nat, NEW current \in Nat, last <= current
    PROVE  Oracle!calcCompoundedInterest(rate, current, last)
             = calculateCompoundedInterest(rate, current - last)
<1> DEFINE elapsed == current - last
<1>1. elapsed \in Nat /\ (elapsed = 0 <=> current = last)
  OBVIOUS
<1>2. CASE current = last
  BY <1>1, <1>2 DEF Oracle!calcCompoundedInterest, calculateCompoundedInterest
<1>3. CASE current # last
  <2> DEFINE expMinusOne == elapsed - 1
             expMinusTwo == IF elapsed > 2 THEN elapsed - 2 ELSE 0
             years == SECONDS_PER_YEAR * SECONDS_PER_YEAR
             square == rayMul(rate, rate)
             basePowerTwo == square \div years
             cube == rayMul(basePowerTwo, rate)
             basePowerThree == cube \div SECONDS_PER_YEAR
             first == rate * elapsed
             second == elapsed * expMinusOne * basePowerTwo
             third == elapsed * expMinusOne * expMinusTwo * basePowerThree
  <2>1. SECONDS_PER_YEAR \in Nat \ {0}
    BY YearAssumption
  <2>2. years \in Nat \ {0}
    BY <2>1
  <2>3. expMinusOne \in Nat /\ expMinusTwo \in Nat
    BY <1>1, <1>3
  <2>4. square \in Nat /\ Oracle!rayMul(rate, rate) = square
    BY RayMulNat, OracleArithmetic
  <2> HIDE DEF square, years
  <2>5. basePowerTwo \in Nat /\ Oracle!div(square, years) = basePowerTwo
    BY <2>2, <2>4, DivBounds, OracleArithmetic
  <2> HIDE DEF basePowerTwo
  <2>6. cube \in Nat /\ Oracle!rayMul(basePowerTwo, rate) = cube
    BY <2>5, RayMulNat, OracleArithmetic
  <2> HIDE DEF cube
  <2>7. basePowerThree \in Nat /\ Oracle!div(cube, SECONDS_PER_YEAR) = basePowerThree
    BY <2>1, <2>6, DivBounds, OracleArithmetic
  <2>8. calculateCompoundedInterest(rate, elapsed)
          = RAY + first \div SECONDS_PER_YEAR + second \div 2 + third \div 6
    BY <1>1, <1>3 DEF calculateCompoundedInterest, basePowerTwo, cube, square, years
  <2>9. Oracle!calcCompoundedInterest(rate, current, last)
          = RAY + Oracle!div(first, SECONDS_PER_YEAR) + Oracle!div(second, 2)
              + Oracle!div(third, 6)
    <3>1. Oracle!calcCompoundedInterest(rate, current, last)
            = Oracle!Compounded(rate, elapsed, basePowerTwo)
      BY <1>3, <2>4, <2>5 DEF Oracle!calcCompoundedInterest, years
    <3> QED
      BY <2>6, <2>7, <3>1 DEF Oracle!Compounded
  <2> HIDE DEF basePowerThree, expMinusOne, expMinusTwo, elapsed
  <2>10. first \in Nat /\ second \in Nat /\ third \in Nat
    <3>1. first \in Nat /\ elapsed * expMinusOne \in Nat
      BY <1>1, <2>3, ProductNat
    <3>2. second \in Nat /\ elapsed * expMinusOne * expMinusTwo \in Nat
      BY <2>3, <2>5, <3>1, ProductNat
    <3> QED
      BY <2>7, <3>1, <3>2, ProductNat
  <2> HIDE DEF first, second, third
  <2>11. /\ Oracle!div(first, SECONDS_PER_YEAR) = first \div SECONDS_PER_YEAR
         /\ Oracle!div(second, 2) = second \div 2 /\ Oracle!div(third, 6) = third \div 6
    BY <2>1, <2>10, OracleArithmetic
  <2> QED
    BY <2>8, <2>9, <2>11 DEF elapsed
<1> QED
  BY <1>2, <1>3

LEMMA NothingCompounds ==
    ASSUME NEW elapsed \in Nat
    PROVE  calculateCompoundedInterest(0, elapsed) = RAY
<1> DEFINE years == SECONDS_PER_YEAR * SECONDS_PER_YEAR
<1>1. SECONDS_PER_YEAR \in Nat \ {0} /\ RAY \in Nat
  BY YearAssumption, ScaleAssumption
<1>2. years \in Nat \ {0}
  BY <1>1
<1>3. rayMul(0, 0) = 0
  BY RayMulOfNothing
<1> HIDE DEF years
<1>4. rayMul(0, 0) \div years = 0 /\ rayMul(0, 0) \div SECONDS_PER_YEAR = 0
  BY <1>1, <1>2, <1>3
<1>5. /\ (0 * elapsed) \div SECONDS_PER_YEAR = 0
      /\ \A x \in Nat : (x * 0) \div 2 = 0 /\ (x * 0) \div 6 = 0
  BY <1>1
<1>6. CASE elapsed = 0
  BY <1>6 DEF calculateCompoundedInterest
<1>7. CASE elapsed # 0
  <2> DEFINE expMinusTwo == IF elapsed > 2 THEN elapsed - 2 ELSE 0
  <2>1. elapsed - 1 \in Nat /\ expMinusTwo \in Nat
    BY <1>7
  <2>2. calculateCompoundedInterest(0, elapsed)
          = RAY + (0 * elapsed) \div SECONDS_PER_YEAR
              + (elapsed * (elapsed - 1) * 0) \div 2
              + (elapsed * (elapsed - 1) * expMinusTwo * 0) \div 6
    BY <1>3, <1>4, <1>7 DEF calculateCompoundedInterest, years
  <2> HIDE DEF expMinusTwo
  <2>3. elapsed * (elapsed - 1) \in Nat
    BY <2>1, ProductNat
  <2>4. elapsed * (elapsed - 1) * expMinusTwo \in Nat
    BY <2>1, <2>3, ProductNat
  <2> QED
    BY <1>1, <1>5, <2>2, <2>3, <2>4
<1> QED
  BY <1>6, <1>7

(* A debt was touched at some block: the test takes a timestamp of zero    *)
(* for no debt at all.                                                     *)
Stamps(t) == \A u \in Users : t.principal[u] # 0 => t.userTimestamp[u] # 0
Stamped == now # 0 /\ Stamps(token)

LEMMA OracleBalance ==
    ASSUME TokenInv(token), Stamped, NEW u \in Users
    PROVE  Oracle!calcExpectedStableDebtTokenBalance(
               token.principal[u], token.userRate[u], token.userTimestamp[u], now)
             = StableBalanceOf(token, u)
<1> DEFINE principal == token.principal[u]
           rate == token.userRate[u]
           last == token.userTimestamp[u]
           balance == Oracle!calcExpectedStableDebtTokenBalance(principal, rate, last, now)
           grown == calculateCompoundedInterest(rate, now - last)
<1>1. /\ principal \in Nat /\ rate \in Nat /\ now - last \in Nat
      /\ now \in Nat /\ last \in Nat /\ last <= now
  BY TokenFacts DEF TokenInv, Token
<1>2. grown \in Nat
  BY <1>1, CompoundedNat
<1>3. StableBalanceOf(token, u) = IF principal = 0 THEN 0 ELSE rayMul(principal, grown)
  BY DEF StableBalanceOf
<1>4. balance = IF rate = 0 \/ now = last \/ last = 0 THEN principal
                ELSE rayMul(principal, grown)
  <2>1. Oracle!calcCompoundedInterest(rate, now, last) = grown
    BY <1>1, OracleCompounds
  <2>2. Oracle!rayMul(principal, grown) = rayMul(principal, grown)
    BY <1>1, <1>2, OracleArithmetic
  <2> QED
    BY <2>1, <2>2 DEF Oracle!calcExpectedStableDebtTokenBalance
<1>5. principal # 0 => last # 0
  BY DEF Stamped, Stamps
<1>6. rate = 0 \/ now = last => grown = RAY
  <2>1. CASE rate = 0
    BY <1>1, <2>1, NothingCompounds
  <2>2. CASE now = last
    BY <1>1, <2>2 DEF calculateCompoundedInterest
  <2> QED
    BY <2>1, <2>2
<1> HIDE DEF principal, rate, last, balance, grown
<1>7. rayMul(principal, RAY) = principal /\ rayMul(0, grown) = 0
  BY <1>1, <1>2, RayMulOne, RayMulOfNothing
<1> QED
  BY <1>3, <1>4, <1>5, <1>6, <1>7 DEF principal, rate, last, balance

(* The contracts' events and the test's are worded alike.                  *)
LEMMA SameEvents ==
    ASSUME NEW tokenName, NEW caller, NEW u, NEW target, NEW amount, NEW increase, NEW index
    PROVE  /\ Paid(caller, u, amount) = Oracle!UnderlyingTransfer(caller, u, amount)
           /\ MintEvents(tokenName, caller, u, amount, increase, index)
                = Oracle!Added(tokenName, caller, u, amount, increase, index)
           /\ BurnEvents(tokenName, u, target, amount, increase, index)
                = Oracle!TakenOff(tokenName, u, target, amount, increase, index)
  BY DEF Paid, MintEvents, BurnEvents, Oracle!UnderlyingTransfer, Oracle!Added, Oracle!TakenOff

(* What the test works out of the balance after is the interest the token  *)
(* announced from the balance before.                                      *)
LEMMA SameIncrease ==
    ASSUME NEW before \in Nat, NEW index \in Nat, NEW last \in Nat,
           NEW after, NEW added, after - added = before
    PROVE  Oracle!IncreaseBefore(after, added, last, index) = Increase(before, index, last)
  BY OracleArithmetic DEF Oracle!IncreaseBefore, Oracle!getBalanceIncrease, Increase

(* The two names of an index.                                              *)
SeenAlike == IncomeIndex = Income /\ VariableIndex = DebtIndex

LEMMA SeenAlikeAtPresent == ReserveInv => SeenAlike
  BY SameIndices DEF SeenAlike, IncomeIndex, VariableIndex

LEMMA IndicesSeen == ReserveInv' => SeenAlike'
  BY SeenAlikeAtPresent, PTL

LEMMA IndicesStay ==
    ASSUME MarketInv, MarketKept, CallKept(UpToDateReserve)
    PROVE  Income' = Income /\ DebtIndex' = DebtIndex
<1>1. ReserveInv /\ ReserveInv'
  BY DEF MarketInv, MarketKept
<1>2. IncomeIndex' = IncomeIndex /\ VariableIndex' = VariableIndex
  BY <1>1, CallsLeaveIndices
<1>3. IncomeIndex = Income /\ VariableIndex = DebtIndex
  BY <1>1, SeenAlikeAtPresent DEF SeenAlike
<1>4. IncomeIndex' = Income' /\ VariableIndex' = DebtIndex'
  BY <1>1, IndicesSeen DEF SeenAlike
<1> QED
  BY <1>2, <1>3, <1>4

-----------------------------------------------------------------------------
(* The receipts of the calls, one lemma each.                              *)

LEMMA PayerAside ==
    ASSUME MarketInv, NEW u \in Users, NEW a \in Account, NEW payer \in Users, NEW wallet \in Int,
           accounts' = [accounts EXCEPT ![u] = a, ![payer].wallet = wallet]
    PROVE  accounts'[u].scaledBalance = a.scaledBalance /\ accounts'[u].scaledDebt = a.scaledDebt
<1> DEFINE d == [accounts EXCEPT ![u] = a]
           e == [d[payer] EXCEPT !.wallet = wallet]
<1>1. accounts' = [d EXCEPT ![payer] = e]
  OBVIOUS
<1>2. d \in [Users -> Account] /\ d[u] = a
  BY DEF MarketInv, AccountsInv
<1> HIDE DEF d
<1>3. d[payer] \in Account
  BY <1>2
<1>4. e.scaledBalance = d[payer].scaledBalance /\ e.scaledDebt = d[payer].scaledDebt
  BY <1>3 DEF Account
<1> HIDE DEF e
<1> QED
  BY <1>1, <1>2, <1>4

LEMMA LastSeen ==
    ASSUME MarketInv, NEW u \in Users
    PROVE  /\ accounts[u].balanceIndex \in Nat /\ accounts[u].debtIndex \in Nat
           /\ Income \in Nat \ {0} /\ DebtIndex \in Nat \ {0}
  BY AccountFacts, SameIndices DEF MarketInv, AccountsInv

(* What the test works out of the balance after a mint or a burn.          *)
LEMMA InterestRead ==
    ASSUME NEW amount \in Nat, NEW index \in Nat \ {0}, NEW last \in Nat, NEW before \in Nat,
           NEW scaled, scaled = rayDiv(amount, index), NEW after
    PROVE  /\ Oracle!rayDiv(amount, index) = scaled
           /\ after = before + scaled =>
                 Oracle!IncreaseBefore(after, scaled, last, index) = Increase(before, index, last)
           /\ after = before - scaled =>
                 Oracle!IncreaseBefore(after, -scaled, last, index) = Increase(before, index, last)
<1>1. scaled \in Nat /\ Oracle!rayDiv(amount, index) = scaled
  BY RayDivNat, OracleArithmetic
<1>2. ASSUME after = before + scaled
      PROVE  Oracle!IncreaseBefore(after, scaled, last, index) = Increase(before, index, last)
  <2>1. after - scaled = before
    BY <1>1, <1>2
  <2> QED
    BY <2>1, SameIncrease
<1>3. ASSUME after = before - scaled
      PROVE  Oracle!IncreaseBefore(after, -scaled, last, index) = Increase(before, index, last)
  <2>1. after - (-scaled) = before
    BY <1>1, <1>3
  <2> QED
    BY <2>1, SameIncrease
<1> QED
  BY <1>1, <1>2, <1>3

LEMMA DepositTold ==
    ASSUME MarketInv, NEW op \in Deposits, Mined(op), Deposit(op.user, op.u, op.amount)
    PROVE  matchEvents(ExpectedEvents)'
<1> DEFINE user == op.user
           u == op.u
           amount == op.amount
           scaled == rayDiv(amount, Income)
           b == accounts[u]
           before == b.scaledBalance
           after == accounts'[u].scaledBalance
           last == b.balanceIndex
           a == Receiving(b, scaled)
           wallet == accounts[user].wallet - amount
<1>1. user \in Users /\ u \in Users /\ amount \in Amounts /\ op.name = "deposit"
  BY DEF Deposits
<1>2. step'.op = op /\ step'.accounts = accounts
  BY DEF Mined
<1>3. MarketKept /\ Supply(amount)
  BY <1>1, DepositKeeps DEF Deposit
<1>4. amount \in Nat /\ scaled \in Nat /\ b \in Account
  BY <1>1, AmountsNat, SameIndices, RayDivNat, MarketFacts DEF MarketInv
<1>5. Income' = Income
  BY <1>3, <1>4, SupplyKeeps, IndicesStay DEF MarketInv
<1>6. /\ accounts' = [accounts EXCEPT ![u] = a, ![user].wallet = wallet]
      /\ logs' = Paid(user, ATOKEN, amount)
                   \cup MintEvents(ATOKEN, user, u, amount, Increase(before, Income, last), Income)
  BY DEF Deposit, ATokensMinted, ATokenIncrease
<1>7. ExpectedEvents' = Oracle!supply(user, u, amount, after, last, Income)
  BY <1>1, <1>2, <1>5 DEF ExpectedEvents
<1>8. wallet \in Int
  BY <1>1, <1>4, MarketFacts
<1>9. last \in Nat /\ before \in Nat /\ Income \in Nat \ {0}
  BY <1>1, LastSeen, MarketFacts
<1> HIDE DEF user, u, amount, scaled, wallet
<1>10. a \in Account /\ a.scaledBalance = before + scaled
  BY <1>4, AccountMoved
<1> HIDE DEF a
<1>11. after = before + scaled
  BY <1>1, <1>6, <1>8, <1>10, PayerAside
<1> HIDE DEF b, before, after, last
<1>12. /\ Oracle!rayDiv(amount, Income) = scaled
       /\ Oracle!IncreaseBefore(after, scaled, last, Income) = Increase(before, Income, last)
  BY <1>4, <1>9, <1>11, InterestRead DEF scaled
<1>13. ExpectedEvents' = logs'
  BY <1>6, <1>7, <1>12, SameEvents DEF Oracle!supply
<1> QED
  BY <1>13 DEF matchEvents

LEMMA WithdrawTold ==
    ASSUME MarketInv, NEW op \in Withdrawals, Mined(op), WithdrawTo(op.u, op.amount),
           op.amount # MAX_UINT_AMOUNT
    PROVE  matchEvents(ExpectedEvents)'
<1> DEFINE u == op.u
           amount == op.amount
           scaled == rayDiv(amount, Income)
           everything == amount = BalanceOf(u)
           b == accounts[u]
           before == b.scaledBalance
           after == accounts'[u].scaledBalance
           last == b.balanceIndex
           a == Giving(b, scaled, everything)
           wallet == accounts[u].wallet + amount
<1>1. u \in Users /\ amount \in Amounts /\ op.name = "withdraw"
  BY DEF Withdrawals
<1>2. step'.op = op /\ step'.accounts = accounts
  BY DEF Mined
<1>3. /\ amount \in 1..BalanceOf(u)
      /\ Withdraw(amount)
      /\ accounts' = [accounts EXCEPT ![u] = Giving(@, scaled, everything),
                                      ![u].wallet = @ + amount]
      /\ logs' = Paid(ATOKEN, u, amount)
                   \cup BurnEvents(ATOKEN, u, u, amount, Increase(before, Income, last), Income)
  BY DEF WithdrawTo, ATokensBurned, ATokenIncrease
<1>4. accounts' = [accounts EXCEPT ![u] = a, ![u].wallet = wallet]
  BY <1>3
<1>5. /\ amount \in Nat /\ amount <= BalanceOf(u) /\ b \in Account
      /\ last \in Nat /\ before \in Nat /\ Income \in Nat \ {0}
  BY <1>1, <1>3, AmountsNat, LastSeen, MarketFacts
<1>6. MarketKept
  BY <1>1, <1>5, WithdrawToKeeps
<1>7. Income' = Income
  BY <1>3, <1>5, <1>6, WithdrawKeeps, IndicesStay DEF MarketInv
<1>8. ExpectedEvents' = Oracle!withdraw(u, u, amount, after, last, Income)
  BY <1>1, <1>2, <1>7 DEF ExpectedEvents
<1>9. scaled \in Nat /\ scaled <= before
  BY <1>1, <1>5, MarketFacts, SameIndices, RayDivNat, BurnWithinBalance DEF MarketInv, BalanceOf
<1>10. wallet \in Int /\ everything \in BOOLEAN
  BY <1>1, <1>5, MarketFacts
<1> HIDE DEF u, amount, scaled, wallet, everything
<1>11. a \in Account /\ a.scaledBalance = before - scaled
  BY <1>5, <1>9, <1>10, AccountMoved
<1> HIDE DEF a
<1>12. after = before - scaled
  BY <1>1, <1>4, <1>10, <1>11, PayerAside
<1> HIDE DEF b, before, after, last
<1>13. /\ Oracle!rayDiv(amount, Income) = scaled
       /\ Oracle!IncreaseBefore(after, -scaled, last, Income) = Increase(before, Income, last)
  BY <1>5, <1>12, InterestRead DEF scaled
<1>14. ExpectedEvents' = logs'
  BY <1>3, <1>8, <1>13, SameEvents DEF Oracle!withdraw
<1> QED
  BY <1>14 DEF matchEvents

LEMMA BorrowVariableTold ==
    ASSUME MarketInv, NEW op \in Borrows, op.mode # Oracle!Stable, Mined(op),
           BorrowAtVariable(op.user, op.u, op.amount)
    PROVE  matchEvents(ExpectedEvents)'
<1> DEFINE user == op.user
           u == op.u
           amount == op.amount
           scaled == rayDiv(amount, DebtIndex)
           b == accounts[u]
           before == b.scaledDebt
           after == accounts'[u].scaledDebt
           last == b.debtIndex
           a == Owing(b, scaled)
           wallet == accounts[user].wallet + amount
<1>1. /\ user \in Users /\ u \in Users /\ amount \in Amounts
      /\ op.name = "borrow" /\ op.mode = Oracle!Variable
  BY DEF Borrows
<1>2. step'.op = op /\ step'.accounts = accounts
  BY DEF Mined
<1>3. MarketKept /\ BorrowVariable(amount)
  BY <1>1, BorrowAtVariableKeeps DEF BorrowAtVariable
<1>4. /\ amount \in Nat /\ scaled \in Nat /\ b \in Account
      /\ last \in Nat /\ before \in Nat /\ DebtIndex \in Nat \ {0}
  BY <1>1, AmountsNat, LastSeen, RayDivNat, MarketFacts
<1>5. DebtIndex' = DebtIndex
  BY <1>3, <1>4, BorrowVariableKeeps, IndicesStay DEF MarketInv
<1>6. /\ accounts' = [accounts EXCEPT ![u] = a, ![user].wallet = wallet]
      /\ logs' = Paid(ATOKEN, user, amount)
                   \cup MintEvents("variableDebt", user, u, amount,
                                   Increase(before, DebtIndex, last), DebtIndex)
  BY DEF BorrowAtVariable, DebtMinted, DebtIncrease
<1>7. ExpectedEvents' = Oracle!variableBorrow(user, u, amount, after, last, DebtIndex)
  BY <1>1, <1>2, <1>5 DEF ExpectedEvents, Oracle!Variable, Oracle!Stable
<1>8. wallet \in Int
  BY <1>1, <1>4, MarketFacts
<1> HIDE DEF user, u, amount, scaled, wallet
<1>9. a \in Account /\ a.scaledDebt = before + scaled
  BY <1>4, AccountMoved
<1> HIDE DEF a
<1>10. after = before + scaled
  BY <1>1, <1>6, <1>8, <1>9, PayerAside
<1> HIDE DEF b, before, after, last
<1>11. /\ Oracle!rayDiv(amount, DebtIndex) = scaled
       /\ Oracle!IncreaseBefore(after, scaled, last, DebtIndex)
            = Increase(before, DebtIndex, last)
  BY <1>4, <1>10, InterestRead DEF scaled
<1>12. ExpectedEvents' = logs'
  BY <1>6, <1>7, <1>11, SameEvents DEF Oracle!variableBorrow
<1> QED
  BY <1>12 DEF matchEvents

LEMMA PaidInFull ==
    ASSUME NEW asked \in Nat, NEW debt \in Nat, asked # MAX_UINT_AMOUNT, asked <= debt
    PROVE  Payback(asked, debt) = asked
  BY DEF Payback

LEMMA RepayVariableTold ==
    ASSUME MarketInv, NEW op \in Repayments, op.mode # Oracle!Stable, Mined(op),
           RepayAtVariable(op.user, op.u, op.amount),
           op.amount # MAX_UINT_AMOUNT, AskedWithinDebt'
    PROVE  matchEvents(ExpectedEvents)'
<1> DEFINE user == op.user
           u == op.u
           asked == op.amount
           debt == VariableDebtOf(u)
           amount == Payback(asked, debt)
           scaled == rayDiv(amount, DebtIndex)
           b == accounts[u]
           before == b.scaledDebt
           after == accounts'[u].scaledDebt
           last == b.debtIndex
           a == Owed(b, scaled)
           wallet == accounts[user].wallet - amount
<1>1. /\ user \in Users /\ u \in Users /\ asked \in Amounts
      /\ op.name = "repay" /\ op.mode = Oracle!Variable
  BY DEF Repayments
<1>2. step'.op = op /\ step'.accounts = accounts
  BY DEF Mined
<1>3. /\ RepayVariable(amount) /\ scaled \in 1..before
      /\ accounts' = [accounts EXCEPT ![u] = a, ![user].wallet = wallet]
      /\ logs' = Paid(user, ATOKEN, amount)
                   \cup BurnEvents("variableDebt", u, ZERO_ADDRESS, amount,
                                   Increase(before, DebtIndex, last), DebtIndex)
  BY DEF RepayAtVariable, DebtBurned, DebtIncrease
<1>4. /\ asked \in Nat /\ debt \in Nat /\ b \in Account /\ amount \in Nat
      /\ last \in Nat /\ before \in Nat /\ DebtIndex \in Nat \ {0}
  BY <1>1, AmountsNat, LastSeen, MarketFacts DEF Payback
<1>5. MarketKept
  BY <1>1, <1>4, RepayAtVariableKeeps
<1>6. DebtIndex' = DebtIndex
  BY <1>3, <1>4, <1>5, RepayVariableKeeps, IndicesStay DEF MarketInv
<1>7. amount = asked
  <2>1. asked <= DebtOf(op)'
    BY <1>1, <1>2 DEF AskedWithinDebt
  <2>2. DebtOf(op)' = debt
    BY <1>1, <1>2, <1>6 DEF DebtOf, VariableDebtOf
  <2> QED
    BY <1>4, <2>1, <2>2, PaidInFull
<1>8. ExpectedEvents' = Oracle!repayVariableBorrow(user, u, asked, after, last, DebtIndex)
  BY <1>1, <1>2, <1>6 DEF ExpectedEvents, Oracle!Variable, Oracle!Stable
<1>9. wallet \in Int /\ scaled \in Nat /\ scaled <= before
  BY <1>1, <1>3, <1>4, MarketFacts
<1> HIDE DEF user, u, asked, debt, amount, scaled, wallet
<1>10. a \in Account /\ a.scaledDebt = before - scaled
  BY <1>4, <1>9, AccountMoved
<1> HIDE DEF a
<1>11. after = before - scaled
  BY <1>1, <1>3, <1>9, <1>10, PayerAside
<1> HIDE DEF b, before, after, last
<1>12. /\ Oracle!rayDiv(amount, DebtIndex) = scaled
       /\ Oracle!IncreaseBefore(after, -scaled, last, DebtIndex)
            = Increase(before, DebtIndex, last)
  BY <1>4, <1>11, InterestRead DEF scaled
<1>13. ExpectedEvents' = logs'
  BY <1>3, <1>7, <1>8, <1>12, SameEvents DEF Oracle!repayVariableBorrow
<1> QED
  BY <1>13 DEF matchEvents

(* The token reports to the pool what it shows of itself, except the total *)
(* where it has reset it.                                                  *)
LEMMA TokenReports ==
    ASSUME NEW t \in Token, NEW u, NEW amount, NEW rate
    PROVE  /\ Minted(t, u, amount, rate).reported.supply = Minted(t, u, amount, rate).supply
           /\ Burned(t, u, amount).reported.avgStableRate = Burned(t, u, amount).avgStableRate
<1>1. ASSUME NEW principal, NEW userRate, NEW timestamp, NEW supply, NEW average, NEW next,
             NEW s, s = Rebuilt(t, u, principal, userRate, timestamp, supply, average, next)
      PROVE  /\ s.supply = supply /\ s.avgStableRate = average
             /\ s.reported.supply = next /\ s.reported.avgStableRate = average
  BY <1>1 DEF Rebuilt, Token
<1>2. Minted(t, u, amount, rate).reported.supply = Minted(t, u, amount, rate).supply
  <2> DEFINE principal == StableBalanceOf(t, u) + amount
             userRate == MergedRate(StableBalanceOf(t, u), t.userRate[u], amount, rate)
             supply == StableTotalSupply(t) + amount
             average == MergedRate(StableTotalSupply(t), t.avgStableRate, amount, rate)
             s == Minted(t, u, amount, rate)
  <2>1. s = Rebuilt(t, u, principal, userRate, now, supply, average, supply)
    BY DEF Minted, Rebuilt
  <2> HIDE DEF principal, userRate, supply, average, s
  <2>2. s.reported.supply = s.supply
    BY <1>1, <2>1
  <2> QED
    BY <2>2 DEF s
<1>3. Burned(t, u, amount).reported.avgStableRate = Burned(t, u, amount).avgStableRate
  <2> DEFINE balance == StableBalanceOf(t, u)
             previous == StableTotalSupply(t)
             carried == rayMul(t.avgStableRate, wadToRay(previous))
             paid == RateRepaid(t, u, amount)
             next == IF previous <= amount THEN 0 ELSE previous - amount
             average == IF previous <= amount \/ paid >= carried THEN 0
                        ELSE rayDiv(carried - paid, wadToRay(next))
             principal == PrincipalLeft(t, u, amount)
             userRate == IF amount = balance THEN 0 ELSE t.userRate[u]
             timestamp == IF amount = balance THEN 0 ELSE now
             supply == SupplyLeft(previous, amount, paid, carried)
             s == Burned(t, u, amount)
  <2>1. s = Rebuilt(t, u, principal, userRate, timestamp, supply, average, next)
    BY DEF Burned, Rebuilt
  <2> HIDE DEF principal, userRate, timestamp, supply, average, next, s
  <2>2. s.reported.avgStableRate = s.avgStableRate
    BY <1>1, <2>1
  <2> QED
    BY <2>2 DEF s
<1> QED
  BY <1>2, <1>3

LEMMA TokenAfter ==
    ASSUME now' = now, NEW t, token' = t
    PROVE  StableTotalSupply(token)' = StableTotalSupply(t)
  BY DEF StableTotalSupply

-----------------------------------------------------------------------------
(* Between the first read and the transaction nobody calls, and the test   *)
(* knows a debt as the token does.                                         *)
ReadInv ==
    /\ Stamped
    /\ step.phase = "read" =>
          \A u \in Users :
              /\ StableBefore(u).principal = token.principal[u]
              /\ StableBefore(u).rate = token.userRate[u]
              /\ StableBefore(u).lastUpdated = token.userTimestamp[u]
    /\ step.phase = "sent" => step.at \in Nat /\ step.at <= now

LEMMA BalanceRead ==
    ASSUME MarketInv, ReadInv, NEW op, Mined(op), NEW u \in Users, now' = now
    PROVE  /\ Oracle!StableBalance(StableBefore(u)', now') = StableBalanceOf(token, u)
           /\ StableBefore(u)'.principal = token.principal[u]
<1>1. step.phase = "read" /\ step'.userData = step.userData
  BY DEF Mined
<1>2. /\ StableBefore(u).principal = token.principal[u]
      /\ StableBefore(u).rate = token.userRate[u]
      /\ StableBefore(u).lastUpdated = token.userTimestamp[u]
  BY <1>1 DEF ReadInv
<1>3. StableBefore(u)' = StableBefore(u)
  BY <1>1 DEF StableBefore
<1>4. TokenInv(token) /\ Stamped
  BY Present DEF MarketInv, ReadInv
<1> QED
  BY <1>2, <1>3, <1>4, OracleBalance DEF Oracle!StableBalance

LEMMA BorrowStableTold ==
    ASSUME MarketInv, ReadInv, NEW op \in Borrows, op.mode = Oracle!Stable, Mined(op),
           BorrowAtStable(op.user, op.u, op.amount)
    PROVE  matchEvents(ExpectedEvents)'
<1> DEFINE user == op.user
           u == op.u
           amount == op.amount
           rate == UpToDateReserve.currentStableBorrowRate
           t == Minted(token, u, amount, rate)
           balance == StableBalanceOf(token, u)
           increase == balance - token.principal[u]
           mine == t.userRate[u]
           average == t.avgStableRate
           total == t.reported.supply
           events == {<<"Transfer", "stableDebt", ZERO_ADDRESS, u, amount + increase>>,
                      <<"Mint", "stableDebt", user, u, amount + increase, balance, increase,
                        mine, average, total>>}
<1>1. user \in Users /\ u \in Users /\ amount \in Amounts /\ op.name = "borrow"
  BY DEF Borrows
<1>2. step'.op = op
  BY DEF Mined
<1>3. now' = now
  BY <1>1, BorrowAtStableKeeps DEF MarketKept
<1>4. token' = t /\ logs' = Paid(ATOKEN, user, amount) \cup events
  BY DEF BorrowAtStable, BorrowStable, StableCall, Call, StableMinted, StableIncrease
<1>5. TokenInv(token) /\ token \in Token /\ amount \in Nat \ {0} /\ rate \in Nat
  BY <1>1, Present, PresentFacts, AmountsNat DEF MarketInv, TokenInv
<1>6. StableTotalSupply(token)' = total
  <2>1. t.supply = StableTotalSupply(t)
    BY <1>1, <1>5, MintedTouches DEF Touched
  <2>2. t.supply = total
    BY <1>5, TokenReports
  <2> HIDE DEF t, total
  <2> QED
    BY <1>3, <1>4, <2>1, <2>2, TokenAfter
<1>7. /\ StableAfter(u)'.rate = mine /\ StableAfter(u)'.averageRate = average
      /\ StableAfter(u)'.total = total
  BY <1>4, <1>6 DEF StableAfter
<1>8. /\ Oracle!StableBalance(StableBefore(u)', now') = balance
      /\ StableBefore(u)'.principal = token.principal[u]
  BY <1>1, <1>3, BalanceRead
<1>9. ExpectedEvents' = Oracle!stableBorrow(user, u, amount, StableBefore(u)', StableAfter(u)',
                                            now')
  BY <1>1, <1>2 DEF ExpectedEvents, Oracle!Variable, Oracle!Stable
<1>10. Oracle!stableBorrow(user, u, amount, StableBefore(u)', StableAfter(u)', now')
         = Oracle!UnderlyingTransfer(ATOKEN, user, amount) \cup events
  <2> HIDE DEF user, u, amount, balance, mine, average, total
  <2> QED
    BY <1>7, <1>8 DEF Oracle!stableBorrow
<1> HIDE DEF events
<1>11. ExpectedEvents' = logs'
  BY <1>4, <1>9, <1>10, SameEvents
<1> QED
  BY <1>11 DEF matchEvents

LEMMA RepayStableTold ==
    ASSUME MarketInv, ReadInv, NEW op \in Repayments, op.mode = Oracle!Stable, Mined(op),
           RepayAtStable(op.user, op.u, op.amount),
           op.amount # MAX_UINT_AMOUNT, AskedWithinDebt', TotalAnnounced'
    PROVE  matchEvents(ExpectedEvents)'
<1> DEFINE user == op.user
           u == op.u
           asked == op.amount
           balance == StableBalanceOf(token, u)
           amount == Payback(asked, balance)
           t == Burned(token, u, amount)
           increase == balance - token.principal[u]
           mine == token.userRate[u]
           average == t.reported.avgStableRate
           total == t.reported.supply
           events == IF increase > asked
                     THEN {<<"Transfer", "stableDebt", ZERO_ADDRESS, u, increase - asked>>,
                           <<"Mint", "stableDebt", u, u, increase - asked, balance, increase,
                             mine, average, total>>}
                     ELSE {<<"Transfer", "stableDebt", u, ZERO_ADDRESS, asked - increase>>,
                           <<"Burn", "stableDebt", u, asked - increase, balance, increase,
                             average, total>>}
<1>1. user \in Users /\ u \in Users /\ asked \in Amounts /\ op.name = "repay"
  BY DEF Repayments
<1>2. step'.op = op
  BY DEF Mined
<1>3. /\ asked \in Nat \ {0} /\ balance \in Nat /\ TokenInv(token) /\ token \in Token
      /\ token.principal[u] \in Nat
  BY <1>1, AmountsNat, MarketFacts, Present, TokenFacts DEF MarketInv, TokenInv
<1>4. now' = now
  BY <1>1, <1>3, RepayAtStableKeeps DEF MarketKept
<1>5. amount = asked
  <2>1. asked <= DebtOf(op)'
    BY <1>1, <1>2 DEF AskedWithinDebt
  <2>2. step'.token = token
    BY DEF Mined
  <2>3. DebtOf(op)' = balance
    BY <1>4, <2>2 DEF DebtOf, StableBalanceOf
  <2> QED
    BY <1>3, <2>1, <2>3, PaidInFull
<1>6. /\ asked \in 0..balance /\ token' = t
      /\ logs' = Paid(user, ATOKEN, asked) \cup events
  <2>1. RepayStable(u, amount) /\ logs' = Paid(user, ATOKEN, amount)
                                            \cup StableBurned(u, amount, token')
    BY DEF RepayAtStable
  <2>2. amount \in 1..balance /\ token' = t
    BY <2>1 DEF RepayStable, StableCall, Call
  <2>3. StableBurned(u, amount, token') = events
    BY <1>5, <2>2 DEF StableBurned, StableIncrease
  <2> QED
    BY <1>3, <1>5, <2>1, <2>2, <2>3
<1>7. /\ StableTotalSupply(token)' = total /\ token'.avgStableRate = average
      /\ increase > asked => token'.userRate[u] = mine
  <2>1. /\ t.supply = StableTotalSupply(t)
        /\ t.userRate[u] = IF asked = balance THEN 0 ELSE mine
    BY <1>1, <1>3, <1>5, <1>6, BurnedTouches DEF Touched
  <2>2. t.avgStableRate = average
    BY <1>3, TokenReports
  <2>3. t.supply = total
    BY <1>1, <1>2, <1>6 DEF TotalAnnounced
  <2>4. increase > asked => asked # balance
    BY <1>3
  <2> HIDE DEF t, total, average, increase, mine, balance
  <2> QED
    BY <1>4, <1>6, <2>1, <2>2, <2>3, <2>4, TokenAfter
<1>8. /\ increase > asked => StableAfter(u)'.rate = mine
      /\ StableAfter(u)'.averageRate = average
      /\ StableAfter(u)'.total = total
  BY <1>7 DEF StableAfter
<1>9. /\ Oracle!StableBalance(StableBefore(u)', now') = balance
      /\ StableBefore(u)'.principal = token.principal[u]
  BY <1>1, <1>4, BalanceRead
<1>10. ExpectedEvents' = Oracle!repayStableBorrow(user, u, asked, StableBefore(u)',
                                                  StableAfter(u)', now')
  BY <1>1, <1>2 DEF ExpectedEvents, Oracle!Variable, Oracle!Stable
<1>11. Oracle!repayStableBorrow(user, u, asked, StableBefore(u)', StableAfter(u)', now')
         = Oracle!UnderlyingTransfer(user, ATOKEN, asked) \cup events
  <2> HIDE DEF user, u, asked, balance, mine, average, total
  <2> QED
    BY <1>8, <1>9 DEF Oracle!repayStableBorrow
<1> HIDE DEF events
<1>12. ExpectedEvents' = logs'
  BY <1>6, <1>10, <1>11, SameEvents
<1> QED
  BY <1>12 DEF matchEvents

(* An account with the balances and indices of another.                    *)
Alike(a, b) ==
    /\ a.scaledBalance = b.scaledBalance /\ a.balanceIndex = b.balanceIndex
    /\ a.scaledDebt = b.scaledDebt /\ a.debtIndex = b.debtIndex

(* A transfer moves the two balances by what it scales to, and not at all  *)
(* where they are one.                                                     *)
LEMMA TransferLeaves ==
    ASSUME MarketInv, NEW caller, NEW from \in Users, NEW to \in Users, NEW amount \in Nat,
           TransferFrom(caller, from, to, amount),
           NEW delta, delta = IF from = to THEN 0 ELSE rayDiv(amount, Income)
    PROVE  /\ accounts'[from].scaledBalance = accounts[from].scaledBalance - delta
           /\ accounts'[to].scaledBalance = accounts[to].scaledBalance + delta
           /\ accounts'[from].balanceIndex = Income /\ accounts'[to].balanceIndex = Income
           /\ \A v \in Users : /\ accounts'[v].scaledDebt = accounts[v].scaledDebt
                              /\ accounts'[v].debtIndex = accounts[v].debtIndex
           /\ \A v \in Users \ {from, to} : Alike(accounts'[v], accounts[v])
<1> DEFINE scaled == rayDiv(amount, Income)
           left == accounts[from].scaledBalance - scaled
           gives == Holding(accounts[from], left)
           given == [accounts EXCEPT ![from] = gives]
           got == given[to].scaledBalance + scaled
           takes == Holding(given[to], got)
           moved == [given EXCEPT ![to] = takes]
           stays == moved[from].usedAsCollateral /\ amount # BalanceOf(from)
           uses == moved[to].usedAsCollateral \/ BalanceOf(to) = 0
<1>1. /\ accounts \in [Users -> Account] /\ accounts[from] \in Account
      /\ accounts[to] \in Account /\ scaled \in Nat /\ scaled <= accounts[from].scaledBalance
  BY MarketFacts, SameIndices, RayDivNat DEF MarketInv, AccountsInv, TransferFrom
<1>2. IF from = to THEN accounts' = moved
      ELSE accounts' = [moved EXCEPT ![from].usedAsCollateral = stays,
                                     ![to].usedAsCollateral = uses]
  BY DEF TransferFrom, Moved
<1>3. left \in Nat
  BY <1>1, MarketFacts
<1> HIDE DEF left, scaled, stays, uses
<1>4. /\ gives \in Account /\ gives.scaledBalance = left /\ gives.balanceIndex = Income
      /\ gives.scaledDebt = accounts[from].scaledDebt
      /\ gives.debtIndex = accounts[from].debtIndex
  BY <1>1, <1>3, HoldingMoved
<1> HIDE DEF gives
<1>5. /\ given \in [Users -> Account] /\ given[from] = gives
      /\ \A v \in Users \ {from} : given[v] = accounts[v]
  BY <1>1, <1>4
<1> HIDE DEF given
<1>6. given[to] \in Account /\ got \in Nat
  BY <1>1, <1>5, AccountFacts
<1> HIDE DEF got
<1>7. /\ takes \in Account /\ takes.scaledBalance = got /\ takes.balanceIndex = Income
      /\ takes.scaledDebt = given[to].scaledDebt
      /\ takes.debtIndex = given[to].debtIndex
  BY <1>6, HoldingMoved
<1> HIDE DEF takes
<1>8. /\ moved \in [Users -> Account] /\ moved[to] = takes
      /\ \A v \in Users \ {to} : moved[v] = given[v]
  BY <1>5, <1>7
<1> HIDE DEF moved
<1>9. \A v \in Users : Alike(accounts'[v], moved[v])
  <2> DEFINE e(v, use) == [moved[v] EXCEPT !.usedAsCollateral = use]
  <2>1. ASSUME NEW v \in Users, NEW use
        PROVE  Alike(e(v, use), moved[v]) /\ Alike(moved[v], moved[v])
    <3>1. moved[v] \in Account
      BY <1>8
    <3> QED
      BY <3>1 DEF Account, Alike
  <2>2. CASE from = to
    BY <1>2, <2>1, <2>2
  <2>3. CASE from # to
    <3>1. accounts' = [moved EXCEPT ![from] = e(from, stays), ![to] = e(to, uses)]
      BY <1>2, <1>8, <2>3
    <3> HIDE DEF e
    <3> QED
      BY <1>8, <2>1, <2>3, <3>1
  <2> QED
    BY <2>2, <2>3
<1>10. /\ moved[from].scaledBalance = accounts[from].scaledBalance - delta
       /\ moved[to].scaledBalance = accounts[to].scaledBalance + delta
  <2>1. CASE from = to
    <3>1. moved[from].scaledBalance = left + scaled /\ delta = 0
      BY <1>4, <1>5, <1>7, <1>8, <2>1 DEF got
    <3>2. accounts[from].scaledBalance \in Nat
      BY MarketFacts
    <3>3. left + scaled = accounts[from].scaledBalance
      BY <1>1, <3>2 DEF left
    <3> QED
      BY <2>1, <3>1, <3>2, <3>3
  <2>2. CASE from # to
    <3>1. /\ moved[from].scaledBalance = left
          /\ moved[to].scaledBalance = accounts[to].scaledBalance + scaled
          /\ delta = scaled
      BY <1>4, <1>5, <1>7, <1>8, <2>2 DEF got, scaled
    <3> QED
      BY <3>1 DEF left
  <2> QED
    BY <2>1, <2>2
<1>11. /\ accounts'[from].scaledBalance = accounts[from].scaledBalance - delta
       /\ accounts'[to].scaledBalance = accounts[to].scaledBalance + delta
  BY <1>9, <1>10 DEF Alike
<1>12. ASSUME NEW v \in Users
       PROVE  /\ moved[v].scaledDebt = accounts[v].scaledDebt
              /\ moved[v].debtIndex = accounts[v].debtIndex
              /\ v \in {from, to} => moved[v].balanceIndex = Income
              /\ v \notin {from, to} => moved[v] = accounts[v]
  BY <1>4, <1>5, <1>7, <1>8
<1>13. /\ accounts'[from].balanceIndex = Income /\ accounts'[to].balanceIndex = Income
       /\ \A v \in Users : /\ accounts'[v].scaledDebt = accounts[v].scaledDebt
                          /\ accounts'[v].debtIndex = accounts[v].debtIndex
       /\ \A v \in Users \ {from, to} : Alike(accounts'[v], accounts[v])
  BY <1>9, <1>12 DEF Alike
<1> QED
  BY <1>11, <1>13

LEMMA TransferTold ==
    ASSUME MarketInv, NEW op \in Transfers, Mined(op),
           TransferFrom(op.user, op.u, op.to, op.amount)
    PROVE  matchEvents(ExpectedEvents)'
<1> DEFINE user == op.user
           from == op.u
           to == op.to
           amount == op.amount
           scaled == rayDiv(amount, Income)
           delta == IF from = to THEN 0 ELSE scaled
           given == accounts[from].scaledBalance
           got == accounts[to].scaledBalance
           before(x) == accounts[x].balanceIndex
           after == [x \in Users |-> accounts'[x].scaledBalance]
           lasts == [x \in Users |-> before(x)]
           fromIncrease == Increase(given, Income, before(from))
           toIncrease == Increase(got, Income, before(to))
           told(x, increase) ==
               IF increase > 0 THEN MintEvents(ATOKEN, user, x, 0, increase, Income) ELSE {}
           moves == {<<"Transfer", ATOKEN, from, to, amount>>,
                     <<"BalanceTransfer", ATOKEN, from, to, scaled, Income>>}
<1>1. from \in Users /\ to \in Users /\ amount \in Nat /\ op.name = "transferFrom"
  BY ScenarioAssumption DEF Transfers
<1>2. step'.op = op /\ step'.accounts = accounts
  BY DEF Mined
<1>3. now' = now /\ UNCHANGED reserve
  BY <1>1, TransferFromKeeps DEF MarketKept, TransferFrom
<1>4. Income' = Income
  BY <1>3 DEF Income, NextLiquidityIndex, getNormalizedIncome, Elapsed
<1>5. /\ before(from) \in Nat /\ before(to) \in Nat /\ given \in Nat /\ got \in Nat
      /\ Income \in Nat \ {0} /\ scaled \in Nat
  BY <1>1, LastSeen, MarketFacts, RayDivNat
<1>6. after[from] = given - delta /\ after[to] = got + delta
  BY <1>1, TransferLeaves
<1>7. lasts[from] = before(from) /\ lasts[to] = before(to)
  BY <1>1
<1>8. logs' = told(from, fromIncrease) \cup told(to, toIncrease) \cup moves
  BY DEF TransferFrom, TransferEvents, ATokensMinted, ATokenIncrease
<1>9. ExpectedEvents' = Oracle!transferFrom(user, from, to, amount, after, lasts, Income)
  BY <1>1, <1>2, <1>4 DEF ExpectedEvents
<1> HIDE DEF user, from, to, amount, given, got, before, after, lasts
<1>10. Oracle!rayDiv(amount, Income) = scaled
  BY <1>1, <1>5, OracleArithmetic
<1> HIDE DEF scaled
<1>11. delta \in Nat /\ after[from] - (-delta) = given /\ after[to] - delta = got
  BY <1>5, <1>6
<1>12. /\ Oracle!IncreaseBefore(after[from], -delta, lasts[from], Income) = fromIncrease
       /\ Oracle!IncreaseBefore(after[to], delta, lasts[to], Income) = toIncrease
  <2> HIDE DEF delta
  <2> QED
    BY <1>5, <1>7, <1>11, SameIncrease
<1>13. ASSUME NEW x, NEW increase
       PROVE  MintEvents(ATOKEN, user, x, 0, increase, Income)
                = Oracle!Added(ATOKEN, user, x, 0, increase, Income)
  BY SameEvents
<1>14. ExpectedEvents'
         = moves \cup told(from, fromIncrease)
             \cup (IF from # to THEN told(to, toIncrease) ELSE {})
  <2> HIDE DEF fromIncrease, toIncrease, moves
  <2>1. Oracle!transferFrom(user, from, to, amount, after, lasts, Income)
          = moves
              \cup (IF fromIncrease > 0
                    THEN Oracle!Added(ATOKEN, user, from, 0, fromIncrease, Income) ELSE {})
              \cup (IF from # to /\ toIncrease > 0
                    THEN Oracle!Added(ATOKEN, user, to, 0, toIncrease, Income) ELSE {})
    BY <1>10, <1>12 DEF Oracle!transferFrom, moves
  <2> QED
    BY <1>9, <1>13, <2>1
<1>15. ExpectedEvents' \subseteq logs'
  <2> HIDE DEF told, moves, fromIncrease, toIncrease
  <2> QED
    BY <1>8, <1>14
<1> QED
  BY <1>15 DEF matchEvents

-----------------------------------------------------------------------------
(* A mint stamps the debt and a burn that leaves any stamps it again.      *)
LEMMA RebuiltStamps ==
    ASSUME NEW t \in Token, Stamps(t), NEW u, NEW principal, NEW rate, NEW timestamp,
           principal # 0 => timestamp # 0, NEW supply, NEW average, NEW next,
           NEW s, s = Rebuilt(t, u, principal, rate, timestamp, supply, average, next)
    PROVE  Stamps(s)
  BY DEF Stamps, Rebuilt, Token

LEMMA MintedStamps ==
    ASSUME NEW t \in Token, Stamps(t), now # 0, NEW u, NEW amount, NEW rate
    PROVE  Stamps(Minted(t, u, amount, rate))
<1> DEFINE principal == StableBalanceOf(t, u) + amount
           userRate == MergedRate(StableBalanceOf(t, u), t.userRate[u], amount, rate)
           supply == StableTotalSupply(t) + amount
           average == MergedRate(StableTotalSupply(t), t.avgStableRate, amount, rate)
           s == Minted(t, u, amount, rate)
<1>1. s = Rebuilt(t, u, principal, userRate, now, supply, average, supply)
  BY DEF Minted, Rebuilt
<1> HIDE DEF principal, userRate, supply, average, s
<1>2. Stamps(s)
  BY <1>1, RebuiltStamps
<1> QED
  BY <1>2 DEF s

LEMMA BurnedStamps ==
    ASSUME NEW t, TokenInv(t), Stamps(t), now # 0, NEW u \in Users,
           NEW amount \in 0..StableBalanceOf(t, u)
    PROVE  Stamps(Burned(t, u, amount))
<1> DEFINE balance == StableBalanceOf(t, u)
           previous == StableTotalSupply(t)
           carried == rayMul(t.avgStableRate, wadToRay(previous))
           paid == RateRepaid(t, u, amount)
           next == IF previous <= amount THEN 0 ELSE previous - amount
           average == IF previous <= amount \/ paid >= carried THEN 0
                      ELSE rayDiv(carried - paid, wadToRay(next))
           principal == PrincipalLeft(t, u, amount)
           userRate == IF amount = balance THEN 0 ELSE t.userRate[u]
           timestamp == IF amount = balance THEN 0 ELSE now
           supply == SupplyLeft(previous, amount, paid, carried)
           s == Burned(t, u, amount)
<1>1. s = Rebuilt(t, u, principal, userRate, timestamp, supply, average, next)
  BY DEF Burned, Rebuilt
<1>2. principal # 0 => timestamp # 0
  BY StableBalanceNat DEF PrincipalLeft
<1>3. t \in Token
  BY DEF TokenInv
<1> HIDE DEF principal, userRate, timestamp, supply, average, next, s
<1>4. Stamps(s)
  BY <1>1, <1>2, <1>3, RebuiltStamps
<1> QED
  BY <1>4 DEF s

LEMMA CallStamps ==
    ASSUME TokenInv(token), Stamped, now' = now, token' = token \/ TokenCall(token')
    PROVE  Stamped'
<1>1. token \in Token /\ Stamps(token) /\ now # 0
  BY DEF TokenInv, Stamped
<1>2. ASSUME NEW t, TokenCall(t) PROVE Stamps(t)
  <2>1. CASE Minting(t)
    BY <1>1, <2>1, MintedStamps DEF Minting
  <2>2. CASE Burning(t)
    BY <1>1, <2>2, BurnedStamps DEF Burning
  <2>3. CASE Rebalancing(t)
    <3>1. PICK u \in Users, rate \in Nat :
              t = Minted(Burned(token, u, StableBalanceOf(token, u)), u,
                         StableBalanceOf(token, u), rate)
      BY <2>3 DEF Rebalancing
    <3> DEFINE debt == StableBalanceOf(token, u)
               burned == Burned(token, u, debt)
    <3>2. debt \in 0..StableBalanceOf(token, u)
      BY StableBalanceNat
    <3>3. burned \in Token /\ Stamps(burned)
      BY <1>1, <3>2, BurnedType, BurnedStamps DEF TokenInv
    <3> HIDE DEF burned, debt
    <3>4. t = Minted(burned, u, debt, rate)
      BY <3>1 DEF burned, debt
    <3> QED
      BY <1>1, <3>3, <3>4, MintedStamps
  <2> QED
    BY <1>2, <2>1, <2>2, <2>3 DEF TokenCall
<1>3. Stamps(token')
  BY <1>1, <1>2
<1> QED
  BY <1>1, <1>3 DEF Stamped, Stamps

Sends ==
    \/ SendDeposit \/ SendWithdraw \/ SendBorrow \/ SendRepay
    \/ SendSwapBorrowRateMode \/ SendRebalance \/ SendSetUseAsCollateral
    \/ SendMintUnbacked \/ SendBackUnbacked \/ SendTransferFrom

LEMMA ReadSteps ==
    ASSUME MarketInv, ReadInv, ScenarioNext
    PROVE  ReadInv'
<1>1. Stamped /\ TokenInv(token) /\ now \in Nat
  BY Present DEF ReadInv, MarketInv
<1>2. CASE Read
  <2>1. UNCHANGED <<now, token>>
    BY <1>2 DEF Read, marketVars, reserveVars, tokenVars
  <2>2. Stamped'
    BY <1>1, <2>1 DEF Stamped, Stamps
  <2>3. step' = [phase |-> "read", reserveData |-> getReserveData,
                 userData |-> [u \in Users |-> getUserData(u, u)], at |-> now]
    BY <1>2 DEF Read
  <2>4. ASSUME NEW u \in Users
        PROVE  /\ StableBefore(u)'.principal = token'.principal[u]
               /\ StableBefore(u)'.rate = token'.userRate[u]
               /\ StableBefore(u)'.lastUpdated = token'.userTimestamp[u]
    <3>1. step'.userData[u] = getUserData(u, u)
      BY <2>3
    <3>2. /\ getUserData(u, u).principalStableDebt = token.principal[u]
          /\ getUserData(u, u).stableBorrowRate = token.userRate[u]
          /\ getUserData(u, u).stableRateLastUpdated = token.userTimestamp[u]
      BY DEF getUserData
    <3> QED
      BY <2>1, <3>1, <3>2 DEF StableBefore
  <2>5. step'.phase = "read"
    BY <2>3
  <2> QED
    BY <2>2, <2>4, <2>5 DEF ReadInv
<1>3. CASE Wait
  <2>1. now' = now + 1 /\ token' = token /\ step' = step
    BY <1>3 DEF Wait, TimePasses, Tick
  <2>2. Stamped'
    BY <1>1, <2>1 DEF Stamped, Stamps
  <2>3. step'.phase = "sent" => step'.at \in Nat /\ step'.at <= now'
    BY <1>1, <2>1 DEF ReadInv
  <2>4. ASSUME NEW u PROVE StableBefore(u)' = StableBefore(u)
    BY <2>1 DEF StableBefore
  <2> QED
    BY <2>1, <2>2, <2>3, <2>4 DEF ReadInv
<1>4. CASE Sends
  <2>1. MarketKept
    BY <1>4, MarketCalls DEF Sends
  <2>2. Stamped'
    BY <1>1, <2>1, CallStamps DEF MarketKept
  <2>3. step'.phase = "sent" /\ step'.at = now
    BY <1>4 DEF Sends, Mined, SendDeposit, SendWithdraw, SendBorrow, SendRepay,
                SendSwapBorrowRateMode, SendRebalance, SendSetUseAsCollateral,
                SendMintUnbacked, SendBackUnbacked, SendTransferFrom
  <2> QED
    BY <1>1, <2>1, <2>2, <2>3 DEF ReadInv, MarketKept
<1> QED
  BY <1>2, <1>3, <1>4 DEF ScenarioNext, Sends

LEMMA ReadStutters ==
    ASSUME ReadInv, UNCHANGED scenarioVars
    PROVE  ReadInv'
<1>1. UNCHANGED <<now, token, step>>
  BY DEF scenarioVars, marketVars, reserveVars, tokenVars
<1>2. \A u : StableBefore(u)' = StableBefore(u)
  BY <1>1 DEF StableBefore
<1> QED
  BY <1>1, <1>2 DEF ReadInv, Stamped, Stamps

LEMMA InitialRead == ScenarioInit => ReadInv
  BY DEF ScenarioInit, MarketInit, TokenInit, EmptyToken, ReadInv, Stamped, Stamps

(* Only a call just made is asked about.                                   *)
LEMMA EventsSteps ==
    ASSUME MarketInv, ReadInv, ScenarioNext
    PROVE  EventsMatched'
<1> DEFINE told == matchEvents(ExpectedEvents)'
<1> SUFFICES ASSUME step'.phase = "sent", now' = step'.at,
                    step'.op.name \in {"deposit", "withdraw", "transferFrom", "borrow", "repay"},
                    step'.op.amount # MAX_UINT_AMOUNT, AskedWithinDebt', TotalAnnounced'
             PROVE  told
  BY DEF EventsMatched, Sent
<1> HIDE DEF told
<1>1. CASE Read
  BY <1>1 DEF Read
<1>2. CASE Wait
  <2>1. now' = now + 1 /\ step' = step
    BY <1>2 DEF Wait, TimePasses, Tick
  <2>2. now \in Nat /\ step.at <= now /\ step.at \in Nat
    BY <2>1, Present DEF ReadInv, MarketInv
  <2>3. step.at = now + 1
    BY <2>1
  <2>4. FALSE
    BY <2>2, <2>3
  <2> QED
    BY <2>4
<1>3. CASE SendDeposit
  <2>1. PICK op \in Deposits : Mined(op) /\ Deposit(op.user, op.u, op.amount)
    BY <1>3 DEF SendDeposit
  <2> QED
    BY <2>1, DepositTold DEF told
<1>4. CASE SendWithdraw
  <2>1. PICK op \in Withdrawals : Mined(op) /\ WithdrawTo(op.u, op.amount)
    BY <1>4 DEF SendWithdraw
  <2>2. step'.op = op
    BY <2>1 DEF Mined
  <2> QED
    BY <2>1, <2>2, WithdrawTold DEF told
<1>5. CASE SendBorrow
  <2>1. PICK op \in Borrows :
           /\ Mined(op)
           /\ IF op.mode = Oracle!Stable THEN BorrowAtStable(op.user, op.u, op.amount)
              ELSE BorrowAtVariable(op.user, op.u, op.amount)
    BY <1>5 DEF SendBorrow
  <2> QED
    BY <2>1, BorrowStableTold, BorrowVariableTold DEF told
<1>6. CASE SendRepay
  <2>1. PICK op \in Repayments :
           /\ Mined(op)
           /\ IF op.mode = Oracle!Stable THEN RepayAtStable(op.user, op.u, op.amount)
              ELSE RepayAtVariable(op.user, op.u, op.amount)
    BY <1>6 DEF SendRepay
  <2>2. step'.op = op
    BY <2>1 DEF Mined
  <2> QED
    BY <2>1, <2>2, RepayStableTold, RepayVariableTold DEF told
<1>7. CASE SendTransferFrom
  <2>1. PICK op \in Transfers : Mined(op) /\ TransferFrom(op.user, op.u, op.to, op.amount)
    BY <1>7 DEF SendTransferFrom
  <2> QED
    BY <2>1, TransferTold DEF told
<1>8. CASE \/ SendSwapBorrowRateMode \/ SendRebalance \/ SendSetUseAsCollateral
           \/ SendMintUnbacked \/ SendBackUnbacked
  <2>1. PICK op \in Swaps \cup Rebalances \cup CollateralSwitches \cup UnbackedMints
                      \cup Backings : Mined(op)
    BY <1>8 DEF SendSwapBorrowRateMode, SendRebalance, SendSetUseAsCollateral,
                SendMintUnbacked, SendBackUnbacked
  <2>2. step'.op = op
    BY <2>1 DEF Mined
  <2>3. op.name \notin {"deposit", "withdraw", "transferFrom", "borrow", "repay"}
    BY <2>1 DEF Swaps, Rebalances, CollateralSwitches, UnbackedMints, Backings
  <2> QED
    BY <2>2, <2>3
<1> QED
  BY <1>1, <1>2, <1>3, <1>4, <1>5, <1>6, <1>7, <1>8 DEF ScenarioNext

LEMMA EventsStutter ==
    ASSUME EventsMatched, UNCHANGED scenarioVars
    PROVE  EventsMatched'
<1>1. UNCHANGED <<now, token, reserve, accounts, logs, step>>
  BY DEF scenarioVars, marketVars, reserveVars, tokenVars
<1>2. Income' = Income /\ DebtIndex' = DebtIndex
  BY <1>1 DEF Income, DebtIndex, NextLiquidityIndex, NextVariableBorrowIndex,
              getNormalizedIncome, getNormalizedDebt, Elapsed
<1>3. \A u : StableBefore(u)' = StableBefore(u) /\ StableAfter(u)' = StableAfter(u)
  BY <1>1 DEF StableBefore, StableAfter, StableTotalSupply
<1>4. ExpectedEvents' = ExpectedEvents
  BY <1>1, <1>2, <1>3 DEF ExpectedEvents
<1>5. AskedWithinDebt' <=> AskedWithinDebt
  <2>1. \A op : DebtOf(op)' = DebtOf(op)
    BY <1>1, <1>2 DEF DebtOf, StableBalanceOf
  <2> QED
    BY <1>1, <2>1 DEF AskedWithinDebt
<1>6. TotalAnnounced' <=> TotalAnnounced
  BY <1>1 DEF TotalAnnounced
<1> QED
  BY <1>1, <1>4, <1>5, <1>6 DEF EventsMatched, Sent, matchEvents

(* Every event a token test expects is in the receipt, with the interest   *)
(* since the balance or the debt was last touched: whoever supplies,       *)
(* withdraws, borrows, repays or transfers, for whom, how long after the   *)
(* first read, and whatever was called before                              *)
(* (ScaledBalanceTokenBase.sol and StableDebtToken.sol, against            *)
(* tokenization-events.ts).                                                *)
THEOREM ReceiptsMatch == ScenarioSpec => []EventsMatched
<1>1. ScenarioInit => MarketInv /\ ReadInv /\ EventsMatched
  <2>1. ScenarioInit => step.phase = "idle"
    BY DEF ScenarioInit
  <2> QED
    BY <2>1, InitialMarket, InitialRead DEF ScenarioInit, EventsMatched, Sent
<1>2. MarketInv /\ ReadInv /\ EventsMatched /\ [ScenarioNext]_scenarioVars
      => (MarketInv /\ ReadInv /\ EventsMatched)'
  <2> SUFFICES ASSUME MarketInv, ReadInv, EventsMatched, [ScenarioNext]_scenarioVars
               PROVE  (MarketInv /\ ReadInv /\ EventsMatched)'
    OBVIOUS
  <2>1. CASE ScenarioNext
    BY <2>1, MarketSteps, ReadSteps, EventsSteps
  <2>2. CASE UNCHANGED scenarioVars
    BY <2>2, MarketStutters, ReadStutters, EventsStutter DEF scenarioVars
  <2> QED
    BY <2>1, <2>2
<1> QED
  BY <1>1, <1>2, PTL DEF ScenarioSpec


-----------------------------------------------------------------------------
(* What the transfers of a receipt add up to.                              *)

Gain(u, e) == (IF e[4] = u THEN e[5] ELSE 0) - (IF e[3] = u THEN e[5] ELSE 0)

(* The recursion of the sum.                                               *)
Adding(g, u, S) ==
    g = [s \in SUBSET S |->
            IF s = {} THEN 0
            ELSE Gain(u, CHOOSE x \in s : TRUE) + g[s \ {CHOOSE x \in s : TRUE}]]

LEMMA ToldAdds ==
    ASSUME NEW tokenName, NEW u, NEW events,
           NEW S, S = TransfersOf(tokenName, events)
    PROVE  Told(tokenName, u, events) = (CHOOSE g : Adding(g, u, S))[S]
  BY Zenon DEF Told, Gain, MapThenSumSet, MapThenFoldSet, Adding

(* What is added of a set is what is added of one of its events and of the *)
(* rest.                                                                   *)
LEMMA AddingOne ==
    ASSUME NEW u, NEW S, NEW g, Adding(g, u, S)
    PROVE  /\ g[{}] = 0
           /\ \A s \in SUBSET S : s # {} => \E x \in s : g[s] = Gain(u, x) + g[s \ {x}]
<1>1. g[{}] = 0
  BY DEF Adding
<1>2. ASSUME NEW s \in SUBSET S, s # {} PROVE \E x \in s : g[s] = Gain(u, x) + g[s \ {x}]
  <2> DEFINE x == CHOOSE y \in s : TRUE
  <2>1. x \in s
    BY <1>2
  <2>2. g[s] = Gain(u, x) + g[s \ {x}]
    BY <1>2 DEF Adding
  <2> HIDE DEF x
  <2> QED
    BY <2>1, <2>2
<1> QED
  BY <1>1, <1>2

(* A transaction emits at most three transfers of a token.                 *)
LEMMA ToldOfThree ==
    ASSUME NEW tokenName, NEW u, NEW events, NEW a, NEW b, NEW c,
           a # b, a # c, b # c, TransfersOf(tokenName, events) \subseteq {a, b, c},
           Gain(u, a) \in Int, Gain(u, b) \in Int, Gain(u, c) \in Int
    PROVE  Told(tokenName, u, events)
             = (IF a \in TransfersOf(tokenName, events) THEN Gain(u, a) ELSE 0)
                 + (IF b \in TransfersOf(tokenName, events) THEN Gain(u, b) ELSE 0)
                 + (IF c \in TransfersOf(tokenName, events) THEN Gain(u, c) ELSE 0)
<1> DEFINE S == TransfersOf(tokenName, events)
           of(x, s) == IF x \in s THEN Gain(u, x) ELSE 0
           g == [s \in SUBSET S |-> of(a, s) + of(b, s) + of(c, s)]
           sum == CHOOSE k : Adding(k, u, S)
<1> HIDE DEF S
<1>1. S \subseteq {a, b, c}
  BY DEF S
<1>2. ASSUME NEW s \in SUBSET S, NEW x \in s
      PROVE  of(a, s) + of(b, s) + of(c, s)
               = Gain(u, x) + (of(a, s \ {x}) + of(b, s \ {x}) + of(c, s \ {x}))
  <2>1. x = a \/ x = b \/ x = c
    BY <1>1
  <2>2. /\ a \in s \ {x} <=> a \in s /\ a # x
        /\ b \in s \ {x} <=> b \in s /\ b # x
        /\ c \in s \ {x} <=> c \in s /\ c # x
    OBVIOUS
  <2> QED
    BY <2>1, <2>2
<1>3. Adding(g, u, S)
  <2> DEFINE pick(s) == CHOOSE x \in s : TRUE
             summand(s) == IF s = {} THEN 0 ELSE Gain(u, pick(s)) + g[s \ {pick(s)}]
  <2>1. ASSUME NEW s \in SUBSET S PROVE g[s] = summand(s)
    <3>1. CASE s = {}
      BY <3>1
    <3>2. CASE s # {}
      <4>1. pick(s) \in s
        BY <3>2
      <4> HIDE DEF pick
      <4>2. s \ {pick(s)} \in SUBSET S
        OBVIOUS
      <4> QED
        BY <1>2, <3>2, <4>1, <4>2
    <3> QED
      BY <3>1, <3>2
  <2>2. g = [s \in SUBSET S |-> g[s]]
    OBVIOUS
  <2> HIDE DEF summand, g
  <2>3. g = [s \in SUBSET S |-> summand(s)]
    BY <2>1, <2>2
  <2> QED
    BY <2>3 DEF summand, Adding
<1> HIDE DEF g
<1>4. Adding(sum, u, S)
  BY <1>3
<1> HIDE DEF sum
<1>5. /\ sum[{}] = 0
      /\ \A s \in SUBSET S : s # {} => \E x \in s : sum[s] = Gain(u, x) + sum[s \ {x}]
  BY <1>4, AddingOne
<1>6. sum[S] = g[S]
  <2>1. \A s \in SUBSET S : s = {} => sum[s] = g[s]
    BY <1>5 DEF g
  <2>2. ASSUME NEW s \in SUBSET S, s # {}, \A x \in s : sum[s \ {x}] = g[s \ {x}]
        PROVE  sum[s] = g[s]
    <3>1. PICK x \in s : sum[s] = Gain(u, x) + sum[s \ {x}]
      BY <1>5, <2>2
    <3>2. g[s] = Gain(u, x) + g[s \ {x}]
      BY <1>2 DEF g
    <3> QED
      BY <2>2, <3>1, <3>2
  <2>3. \A x \in S : \A y \in S \ {x} : \A z \in S \ {x, y} : (S \ {x, y}) \ {z} = {}
    BY <1>1
  <2>4. ASSUME NEW x \in S, NEW y \in S \ {x} PROVE sum[S \ {x, y}] = g[S \ {x, y}]
    <3> DEFINE s == S \ {x, y}
    <3>1. ASSUME NEW z \in s PROVE sum[s \ {z}] = g[s \ {z}]
      <4>1. s \ {z} = {}
        BY <2>3
      <4> QED
        BY <2>1, <4>1
    <3> QED
      BY <2>1, <2>2, <3>1
  <2>5. ASSUME NEW x \in S PROVE sum[S \ {x}] = g[S \ {x}]
    <3> DEFINE s == S \ {x}
    <3>1. ASSUME NEW y \in s PROVE sum[s \ {y}] = g[s \ {y}]
      <4>1. s \ {y} = S \ {x, y}
        OBVIOUS
      <4> QED
        BY <2>4, <4>1
    <3> QED
      BY <2>1, <2>2, <3>1
  <2> QED
    BY <2>1, <2>2, <2>5
<1>7. Told(tokenName, u, events) = sum[S]
  BY ToldAdds DEF sum, S
<1> QED
  BY <1>6, <1>7 DEF g, S

LEMMA GainOf ==
    ASSUME NEW u, NEW kind, NEW tokenName, NEW from, NEW to, NEW amount \in Int
    PROVE  /\ Gain(u, <<kind, tokenName, from, to, amount>>)
                = (IF to = u THEN amount ELSE 0) - (IF from = u THEN amount ELSE 0)
           /\ Gain(u, <<kind, tokenName, from, to, amount>>) \in Int
  BY DEF Gain

LEMMA ToldNothing ==
    ASSUME NEW tokenName, NEW u, NEW events, TransfersOf(tokenName, events) = {}
    PROVE  Told(tokenName, u, events) = 0
<1> DEFINE a == <<"Transfer", tokenName, u, u, 0>>
           b == <<"Transfer", tokenName, u, u, 1>>
           c == <<"Transfer", tokenName, u, u, 2>>
           S == TransfersOf(tokenName, events)
<1>1. a # b /\ a # c /\ b # c
  OBVIOUS
<1>2. Gain(u, a) \in Int /\ Gain(u, b) \in Int /\ Gain(u, c) \in Int
  BY GainOf
<1> HIDE DEF a, b, c
<1>3. Told(tokenName, u, events)
        = (IF a \in S THEN Gain(u, a) ELSE 0) + (IF b \in S THEN Gain(u, b) ELSE 0)
            + (IF c \in S THEN Gain(u, c) ELSE 0)
  BY <1>1, <1>2, ToldOfThree
<1> QED
  BY <1>3

LEMMA ToldOne ==
    ASSUME NEW tokenName, NEW u, NEW events, NEW from, NEW to, NEW amount \in Int,
           TransfersOf(tokenName, events) = {<<"Transfer", tokenName, from, to, amount>>}
    PROVE  Told(tokenName, u, events)
             = (IF to = u THEN amount ELSE 0) - (IF from = u THEN amount ELSE 0)
<1> DEFINE a == <<"Transfer", tokenName, from, to, amount>>
           b == <<"Transfer", tokenName, from, to, amount + 1>>
           c == <<"Transfer", tokenName, from, to, amount + 2>>
           S == TransfersOf(tokenName, events)
<1>1. a # b /\ a # c /\ b # c
  OBVIOUS
<1>2. /\ Gain(u, a) = (IF to = u THEN amount ELSE 0) - (IF from = u THEN amount ELSE 0)
      /\ Gain(u, a) \in Int /\ Gain(u, b) \in Int /\ Gain(u, c) \in Int
  BY GainOf
<1>3. S = {a}
  OBVIOUS
<1> HIDE DEF a, b, c, S
<1>4. Told(tokenName, u, events)
        = (IF a \in S THEN Gain(u, a) ELSE 0) + (IF b \in S THEN Gain(u, b) ELSE 0)
            + (IF c \in S THEN Gain(u, c) ELSE 0)
  BY <1>1, <1>2, <1>3, ToldOfThree DEF S
<1> QED
  BY <1>1, <1>2, <1>3, <1>4

LEMMA ToldTwo ==
    ASSUME NEW tokenName, NEW u, NEW events, NEW a, NEW b, a # b,
           NEW from, NEW to, NEW amount \in Int, a = <<"Transfer", tokenName, from, to, amount>>,
           NEW from2, NEW to2, NEW amount2 \in Int,
           b = <<"Transfer", tokenName, from2, to2, amount2>>,
           TransfersOf(tokenName, events) = {a, b}
    PROVE  Told(tokenName, u, events) = Gain(u, a) + Gain(u, b)
<1>1. PICK z \in Int : z # amount /\ z # amount2
  <2>1. \E z \in {amount + 1, amount + 2} : z # amount /\ z # amount2
    OBVIOUS
  <2> QED
    BY <2>1
<1> DEFINE c == <<"Transfer", tokenName, from, to, z>>
<1>2. a # c /\ b # c
  BY <1>1
<1>3. Gain(u, a) \in Int /\ Gain(u, b) \in Int /\ Gain(u, c) \in Int
  BY GainOf
<1> HIDE DEF c
<1>4. Told(tokenName, u, events) = Gain(u, a) + Gain(u, b) + 0
  BY <1>2, <1>3, ToldOfThree
<1> QED
  BY <1>3, <1>4

LEMMA TransfersTogether ==
    ASSUME NEW tokenName, NEW E, NEW F
    PROVE  TransfersOf(tokenName, E \cup F)
             = TransfersOf(tokenName, E) \cup TransfersOf(tokenName, F)
  BY DEF TransfersOf

(* The tokens are told apart, and from the underlying.                     *)
LEMMA PaidAside ==
    ASSUME NEW tokenName \in {ATOKEN, "variableDebt", "stableDebt"}, NEW from, NEW to, NEW amount
    PROVE  TransfersOf(tokenName, Paid(from, to, amount)) = {}
  BY DEF TransfersOf, Paid, ATOKEN

LEMMA MintTransfers ==
    ASSUME NEW tokenName, NEW other, NEW caller, NEW u, NEW amount, NEW increase, NEW index
    PROVE  TransfersOf(other, MintEvents(tokenName, caller, u, amount, increase, index))
             = IF other = tokenName
               THEN {<<"Transfer", tokenName, ZERO_ADDRESS, u, amount + increase>>} ELSE {}
  BY DEF TransfersOf, MintEvents

LEMMA BurnTransfers ==
    ASSUME NEW tokenName, NEW other, NEW u, NEW target, NEW amount, NEW increase, NEW index
    PROVE  TransfersOf(other, BurnEvents(tokenName, u, target, amount, increase, index))
             = IF other = tokenName
               THEN IF increase > amount
                    THEN {<<"Transfer", tokenName, ZERO_ADDRESS, u, increase - amount>>}
                    ELSE {<<"Transfer", tokenName, u, ZERO_ADDRESS, amount - increase>>}
               ELSE {}
  BY DEF TransfersOf, BurnEvents

LEMMA StableMintTransfers ==
    ASSUME NEW other, NEW caller, NEW u, NEW amount, NEW t
    PROVE  TransfersOf(other, StableMinted(caller, u, amount, t))
             = IF other = "stableDebt"
               THEN {<<"Transfer", "stableDebt", ZERO_ADDRESS, u, amount + StableIncrease(u)>>}
               ELSE {}
  BY DEF TransfersOf, StableMinted

LEMMA StableBurnTransfers ==
    ASSUME NEW other, NEW u, NEW amount, NEW t
    PROVE  TransfersOf(other, StableBurned(u, amount, t))
             = IF other = "stableDebt"
               THEN IF StableIncrease(u) > amount
                    THEN {<<"Transfer", "stableDebt", ZERO_ADDRESS, u, StableIncrease(u) - amount>>}
                    ELSE {<<"Transfer", "stableDebt", u, ZERO_ADDRESS, amount - StableIncrease(u)>>}
               ELSE {}
  BY DEF TransfersOf, StableBurned

(* A receipt with one mint of a token, or with one burn.                   *)
LEMMA ToldOfMint ==
    ASSUME NEW tokenName, NEW u \in Users, NEW amount \in Int, NEW events,
           TransfersOf(tokenName, events) = {<<"Transfer", tokenName, ZERO_ADDRESS, u, amount>>}
    PROVE  \A v \in Users : Told(tokenName, v, events) = IF v = u THEN amount ELSE 0
<1> SUFFICES ASSUME NEW v \in Users
             PROVE  Told(tokenName, v, events) = IF v = u THEN amount ELSE 0
  OBVIOUS
<1>1. Told(tokenName, v, events)
        = (IF u = v THEN amount ELSE 0) - (IF ZERO_ADDRESS = v THEN amount ELSE 0)
  BY ToldOne
<1> QED
  BY <1>1, MarketAssumption

LEMMA ToldOfBurn ==
    ASSUME NEW tokenName, NEW u \in Users, NEW amount \in Int, NEW increase \in Int, NEW events,
           TransfersOf(tokenName, events)
             = IF increase > amount
               THEN {<<"Transfer", tokenName, ZERO_ADDRESS, u, increase - amount>>}
               ELSE {<<"Transfer", tokenName, u, ZERO_ADDRESS, amount - increase>>}
    PROVE  \A v \in Users : Told(tokenName, v, events) = IF v = u THEN increase - amount ELSE 0
<1>1. increase - amount \in Int /\ amount - increase \in Int
  OBVIOUS
<1>2. CASE increase > amount
  BY <1>1, <1>2, ToldOfMint
<1>3. CASE ~(increase > amount)
  <2>1. ASSUME NEW v \in Users
        PROVE  Told(tokenName, v, events)
                 = (IF ZERO_ADDRESS = v THEN amount - increase ELSE 0)
                     - (IF u = v THEN amount - increase ELSE 0)
    BY <1>1, <1>3, ToldOne
  <2> QED
    BY <2>1, MarketAssumption
<1> QED
  BY <1>2, <1>3

-----------------------------------------------------------------------------
(* The balances told.                                                      *)

Held(b) == rayMul(b.scaledBalance, b.balanceIndex)
Owes(b) == rayMul(b.scaledDebt, b.debtIndex)
Within(index) == (-Rounding(index))..Rounding(index)

LEMMA WithinWider ==
    ASSUME NEW index \in Nat, RAY <= index, NEW later \in Nat, index <= later
    PROVE  0 \in Within(index) /\ Within(index) \subseteq Within(later)
<1> DEFINE k == Rounding(index)
           m == Rounding(later)
<1>1. k \in Nat /\ m \in Nat
  <2>1. RAY <= later
    BY ScaleAssumption
  <2> QED
    BY <2>1, RoundingNat
<1>2. k <= m
  <2>1. /\ RAY \in Nat \ {0} /\ index - 1 \in Nat /\ later - 1 \in Nat
        /\ index - 1 <= later - 1
    BY ScaleAssumption
  <2> QED
    BY <2>1, QuotientMonotone DEF Rounding
<1> HIDE DEF k, m
<1> QED
  BY <1>1, <1>2 DEF Within, k, m

(* Interest is told exactly, and the amount up to the rounding of a write. *)
LEMMA MintNear ==
    ASSUME NEW s \in Nat, NEW x \in Nat, NEW index \in Nat, RAY <= index, NEW last \in Nat
    PROVE  /\ x + Increase(s, index, last) \in Int
           /\ rayMul(s + rayDiv(x, index), index) - rayMul(s, last)
                - (x + Increase(s, index, last)) \in Within(index)
<1> DEFINE q == rayDiv(x, index)
           b == rayMul(s + q, index)
           a == rayMul(s, index)
           c == rayMul(s, last)
           k == Rounding(index)
<1>1. b <= a + x + k /\ a + x <= b + k
  BY WriteRounds
<1>2. q \in Nat
  BY ScaleAssumption, RayDivNat
<1>3. a \in Nat /\ b \in Nat /\ c \in Nat /\ k \in Nat
  <2> HIDE DEF q, k
  <2>1. s + q \in Nat
    BY <1>2
  <2>2. a \in Nat /\ b \in Nat /\ c \in Nat
    BY <2>1, RayMulNat
  <2> QED
    BY <2>2, RoundingNat DEF k
<1>4. Increase(s, index, last) = a - c
  BY DEF Increase
<1>5. Within(index) = (-k)..k
  BY DEF Within
<1> HIDE DEF q, a, b, c, k
<1>6. x + (a - c) \in Int /\ b - c - (x + (a - c)) \in (-k)..k
  BY <1>1, <1>3
<1> QED
  BY <1>4, <1>5, <1>6 DEF b, c, q

LEMMA BurnNear ==
    ASSUME NEW s \in Nat, NEW x \in Nat, NEW index \in Nat, RAY <= index, NEW last \in Nat,
           rayDiv(x, index) <= s
    PROVE  /\ Increase(s, index, last) \in Int
           /\ rayMul(s - rayDiv(x, index), index) - rayMul(s, last)
                - (Increase(s, index, last) - x) \in Within(index)
<1> DEFINE q == rayDiv(x, index)
           left == s - q
           b == rayMul(left, index)
           a == rayMul(s, index)
           c == rayMul(s, last)
           k == Rounding(index)
<1>1. q \in Nat /\ left \in Nat /\ left + q = s
  <2>1. q \in Nat
    BY ScaleAssumption, RayDivNat
  <2> HIDE DEF q
  <2> QED
    BY <2>1 DEF q
<1>2. a <= b + x + k /\ b + x <= a + k
  <2> HIDE DEF left
  <2> QED
    BY <1>1, WriteRounds
<1>3. a \in Nat /\ b \in Nat /\ c \in Nat /\ k \in Nat
  <2> HIDE DEF left, k
  <2>1. a \in Nat /\ b \in Nat /\ c \in Nat
    BY <1>1, RayMulNat
  <2> QED
    BY <2>1, RoundingNat DEF k
<1>4. Increase(s, index, last) = a - c
  BY DEF Increase
<1>5. Within(index) = (-k)..k
  BY DEF Within
<1> HIDE DEF left, q, a, b, c, k
<1>6. a - c \in Int /\ b - c - ((a - c) - x) \in (-k)..k
  BY <1>2, <1>3
<1> QED
  BY <1>4, <1>5, <1>6 DEF b, c, left, q

(* What a call writes beside the scaled balances: the index it has seen.   *)
LEMMA IndexWritten ==
    ASSUME MarketInv, NEW b \in Account, NEW scaled, NEW everything
    PROVE  /\ Receiving(b, scaled).balanceIndex = Income
           /\ Receiving(b, scaled).debtIndex = b.debtIndex
           /\ Giving(b, scaled, everything).balanceIndex = Income
           /\ Giving(b, scaled, everything).debtIndex = b.debtIndex
           /\ Owing(b, scaled).balanceIndex = b.balanceIndex
           /\ Owing(b, scaled).debtIndex = DebtIndex
           /\ Owed(b, scaled).balanceIndex = b.balanceIndex
           /\ Owed(b, scaled).debtIndex = DebtIndex
  BY DEF Receiving, Giving, Owing, Owed, Account

(* Who adds up a call's transfers knows what it moves.                     *)
AccountsTold ==
    \A v \in Users :
        /\ Held(accounts'[v]) - Held(accounts[v]) - Told(ATOKEN, v, logs') \in Within(Income)
        /\ Owes(accounts'[v]) - Owes(accounts[v]) - Told("variableDebt", v, logs')
             \in Within(DebtIndex)
        /\ accounts'[v].balanceIndex \in {accounts[v].balanceIndex, Income}

DebtsTold ==
    \A v \in Users : token'.principal[v] - token.principal[v] = Told("stableDebt", v, logs')

BalancesTold ==
    AccountsTold /\ DebtsTold /\ Income <= Income' /\ DebtIndex <= DebtIndex'

LEMMA AlikeHold ==
    ASSUME MarketInv, NEW u \in Users
    PROVE  /\ Held(accounts[u]) \in Nat /\ Owes(accounts[u]) \in Nat
           /\ 0 \in Within(Income) /\ 0 \in Within(DebtIndex)
           /\ \A b : Alike(b, accounts[u]) =>
                        /\ Held(b) - Held(accounts[u]) - 0 \in Within(Income)
                        /\ Owes(b) - Owes(accounts[u]) - 0 \in Within(DebtIndex)
<1>1. /\ accounts[u].scaledBalance \in Nat /\ accounts[u].balanceIndex \in Nat
      /\ accounts[u].scaledDebt \in Nat /\ accounts[u].debtIndex \in Nat
  BY MarketFacts, LastSeen
<1>2. Held(accounts[u]) \in Nat /\ Owes(accounts[u]) \in Nat
  BY <1>1, RayMulNat DEF Held, Owes
<1>3. /\ Income \in Nat /\ RAY <= Income /\ Income <= Income
      /\ DebtIndex \in Nat /\ RAY <= DebtIndex /\ DebtIndex <= DebtIndex
  BY SameIndices DEF MarketInv
<1>4. 0 \in Within(Income) /\ 0 \in Within(DebtIndex)
  BY <1>3, WithinWider
<1>5. ASSUME NEW b, Alike(b, accounts[u])
      PROVE  /\ Held(b) - Held(accounts[u]) - 0 = 0
             /\ Owes(b) - Owes(accounts[u]) - 0 = 0
  <2>1. Held(b) = Held(accounts[u]) /\ Owes(b) = Owes(accounts[u])
    BY <1>5 DEF Alike, Held, Owes
  <2> QED
    BY <1>2, <2>1
<1> QED
  BY <1>2, <1>4, <1>5

LEMMA OnlyPayerPays ==
    ASSUME MarketInv, NEW u \in Users, NEW a \in Account, NEW payer \in Users, NEW wallet \in Int,
           \/ accounts' = [accounts EXCEPT ![u] = a]
           \/ accounts' = [accounts EXCEPT ![u] = a, ![payer].wallet = wallet]
    PROVE  /\ Alike(accounts'[u], a)
           /\ \A v \in Users \ {u} : Alike(accounts'[v], accounts[v])
<1> DEFINE d == [accounts EXCEPT ![u] = a]
           e == [d[payer] EXCEPT !.wallet = wallet]
<1>1. accounts' = d \/ accounts' = [d EXCEPT ![payer] = e]
  OBVIOUS
<1>2. d \in [Users -> Account] /\ d[u] = a /\ \A v \in Users \ {u} : d[v] = accounts[v]
  BY DEF MarketInv, AccountsInv
<1> HIDE DEF d
<1>3. d[payer] \in Account
  BY <1>2
<1>4. Alike(e, d[payer])
  BY <1>3 DEF Account, Alike
<1> HIDE DEF e
<1>5. \A v \in Users : Alike(accounts'[v], d[v])
  <2>1. \A b : Alike(b, b)
    BY DEF Alike
  <2> QED
    BY <1>1, <1>2, <1>4, <2>1
<1> QED
  BY <1>2, <1>5

(* A call that moves one account.                                          *)
LEMMA AccountTold ==
    ASSUME MarketInv, NEW u \in Users, NEW a \in Account, NEW payer \in Users, NEW wallet \in Int,
           \/ accounts' = [accounts EXCEPT ![u] = a]
           \/ accounts' = [accounts EXCEPT ![u] = a, ![payer].wallet = wallet],
           NEW x, \A v \in Users : Told(ATOKEN, v, logs') = IF v = u THEN x ELSE 0,
           NEW y, \A v \in Users : Told("variableDebt", v, logs') = IF v = u THEN y ELSE 0,
           Held(a) - Held(accounts[u]) - x \in Within(Income),
           Owes(a) - Owes(accounts[u]) - y \in Within(DebtIndex),
           a.balanceIndex \in {accounts[u].balanceIndex, Income}
    PROVE  AccountsTold
<1>1. /\ Alike(accounts'[u], a)
      /\ \A v \in Users \ {u} : Alike(accounts'[v], accounts[v])
  BY OnlyPayerPays
<1>2. /\ Held(accounts'[u]) = Held(a) /\ Owes(accounts'[u]) = Owes(a)
      /\ accounts'[u].balanceIndex = a.balanceIndex
  BY <1>1 DEF Alike, Held, Owes
<1> SUFFICES ASSUME NEW v \in Users
             PROVE  /\ Held(accounts'[v]) - Held(accounts[v]) - Told(ATOKEN, v, logs')
                         \in Within(Income)
                    /\ Owes(accounts'[v]) - Owes(accounts[v]) - Told("variableDebt", v, logs')
                         \in Within(DebtIndex)
                    /\ accounts'[v].balanceIndex \in {accounts[v].balanceIndex, Income}
  BY DEF AccountsTold
<1>3. CASE v = u
  BY <1>2, <1>3
<1>4. CASE v # u
  <2>1. Alike(accounts'[v], accounts[v])
    BY <1>1, <1>4
  <2>2. Told(ATOKEN, v, logs') = 0 /\ Told("variableDebt", v, logs') = 0
    BY <1>4
  <2>3. accounts'[v].balanceIndex = accounts[v].balanceIndex
    BY <2>1 DEF Alike
  <2> QED
    BY <2>1, <2>2, <2>3, AlikeHold
<1> QED
  BY <1>3, <1>4

(* One that moves none: it pays, or it uses or does not use collateral.    *)
LEMMA NobodyTold ==
    ASSUME MarketInv, NEW u \in Users, NEW a \in Account, Alike(a, accounts[u]),
           accounts' = [accounts EXCEPT ![u] = a],
           TransfersOf(ATOKEN, logs') = {}, TransfersOf("variableDebt", logs') = {}
    PROVE  AccountsTold
<1>1. /\ \A v \in Users : Told(ATOKEN, v, logs') = IF v = u THEN 0 ELSE 0
      /\ \A v \in Users : Told("variableDebt", v, logs') = IF v = u THEN 0 ELSE 0
  BY ToldNothing
<1>2. /\ Held(a) - Held(accounts[u]) - 0 \in Within(Income)
      /\ Owes(a) - Owes(accounts[u]) - 0 \in Within(DebtIndex)
      /\ a.balanceIndex = accounts[u].balanceIndex
  BY AlikeHold DEF Alike
<1>3. 0 \in Int
  OBVIOUS
<1> QED
  BY <1>1, <1>2, <1>3, AccountTold

(* The four ways an account is written.                                    *)
LEMMA ReceivingTold ==
    ASSUME MarketInv, NEW u \in Users, NEW amount \in Nat, NEW payer \in Users, NEW wallet \in Int,
           NEW a, a = Receiving(accounts[u], rayDiv(amount, Income)),
           \/ accounts' = [accounts EXCEPT ![u] = a]
           \/ accounts' = [accounts EXCEPT ![u] = a, ![payer].wallet = wallet],
           TransfersOf(ATOKEN, logs')
             = {<<"Transfer", ATOKEN, ZERO_ADDRESS, u, amount + ATokenIncrease(u)>>},
           TransfersOf("variableDebt", logs') = {}
    PROVE  AccountsTold
<1> DEFINE b == accounts[u]
           x == amount + ATokenIncrease(u)
<1>1. /\ b \in Account /\ b.scaledBalance \in Nat /\ b.balanceIndex \in Nat
      /\ Income \in Nat /\ RAY <= Income /\ rayDiv(amount, Income) \in Nat
  BY MarketFacts, LastSeen, SameIndices, RayDivNat DEF MarketInv
<1>2. /\ a \in Account /\ a.scaledBalance = b.scaledBalance + rayDiv(amount, Income)
      /\ a.scaledDebt = b.scaledDebt
  BY <1>1, AccountMoved
<1>3. a.balanceIndex = Income /\ a.debtIndex = b.debtIndex
  BY <1>1, IndexWritten
<1>4. x \in Int /\ Held(a) - Held(b) - x \in Within(Income)
  BY <1>1, <1>2, <1>3, MintNear DEF Held, ATokenIncrease
<1>5. \A v \in Users : Told(ATOKEN, v, logs') = IF v = u THEN x ELSE 0
  BY <1>4, ToldOfMint
<1>6. \A v \in Users : Told("variableDebt", v, logs') = IF v = u THEN 0 ELSE 0
  BY ToldNothing
<1>7. Owes(a) - Owes(b) - 0 \in Within(DebtIndex)
  <2>1. Owes(a) = Owes(b)
    BY <1>2, <1>3 DEF Owes
  <2>2. Owes(b) - Owes(b) - 0 = 0 /\ 0 \in Within(DebtIndex)
    BY AlikeHold
  <2> QED
    BY <2>1, <2>2
<1> HIDE DEF x, b
<1> QED
  BY <1>2, <1>3, <1>4, <1>5, <1>6, <1>7, AccountTold DEF b

LEMMA GivingTold ==
    ASSUME MarketInv, NEW u \in Users, NEW amount \in Nat, NEW payer \in Users, NEW wallet \in Int,
           rayDiv(amount, Income) <= accounts[u].scaledBalance, NEW everything \in BOOLEAN,
           NEW a, a = Giving(accounts[u], rayDiv(amount, Income), everything),
           \/ accounts' = [accounts EXCEPT ![u] = a]
           \/ accounts' = [accounts EXCEPT ![u] = a, ![payer].wallet = wallet],
           TransfersOf(ATOKEN, logs') = TransfersOf(ATOKEN, ATokensBurned(u, amount)),
           TransfersOf("variableDebt", logs') = {}
    PROVE  AccountsTold
<1> DEFINE b == accounts[u]
           scaled == rayDiv(amount, Income)
           increase == ATokenIncrease(u)
           x == increase - amount
<1>1. /\ b \in Account /\ b.scaledBalance \in Nat /\ b.balanceIndex \in Nat
      /\ Income \in Nat /\ RAY <= Income /\ scaled \in Nat /\ scaled <= b.scaledBalance
      /\ a = Giving(b, scaled, everything)
  BY MarketFacts, LastSeen, SameIndices, RayDivNat DEF MarketInv
<1> HIDE DEF scaled
<1>2. /\ a \in Account /\ a.scaledBalance = b.scaledBalance - scaled
      /\ a.scaledDebt = b.scaledDebt
  <2> HIDE DEF b
  <2>1. \A all \in BOOLEAN :
           /\ Giving(b, scaled, all) \in Account
           /\ Giving(b, scaled, all).scaledBalance = b.scaledBalance - scaled
           /\ Giving(b, scaled, all).scaledDebt = b.scaledDebt
    BY <1>1, AccountMoved
  <2> QED
    BY <1>1, <2>1, Zenon
<1>3. a.balanceIndex = Income /\ a.debtIndex = b.debtIndex
  BY <1>1, IndexWritten
<1>4. increase \in Int /\ Held(a) - Held(b) - x \in Within(Income)
  BY <1>1, <1>2, <1>3, BurnNear DEF Held, ATokenIncrease, scaled
<1>5. \A v \in Users : Told(ATOKEN, v, logs') = IF v = u THEN x ELSE 0
  <2> HIDE DEF increase
  <2>1. TransfersOf(ATOKEN, logs')
          = IF increase > amount
            THEN {<<"Transfer", ATOKEN, ZERO_ADDRESS, u, increase - amount>>}
            ELSE {<<"Transfer", ATOKEN, u, ZERO_ADDRESS, amount - increase>>}
    BY BurnTransfers DEF ATokensBurned, increase
  <2>2. amount \in Int
    OBVIOUS
  <2> QED
    BY <1>4, <2>1, <2>2, ToldOfBurn
<1>6. \A v \in Users : Told("variableDebt", v, logs') = IF v = u THEN 0 ELSE 0
  BY ToldNothing
<1>7. Owes(a) - Owes(b) - 0 \in Within(DebtIndex)
  <2>1. Owes(a) = Owes(b)
    BY <1>2, <1>3 DEF Owes
  <2>2. Owes(b) - Owes(b) - 0 = 0 /\ 0 \in Within(DebtIndex)
    BY AlikeHold
  <2> QED
    BY <2>1, <2>2
<1> HIDE DEF x, b
<1> QED
  BY <1>2, <1>3, <1>4, <1>5, <1>6, <1>7, AccountTold DEF b

LEMMA OwingTold ==
    ASSUME MarketInv, NEW u \in Users, NEW amount \in Nat, NEW payer \in Users, NEW wallet \in Int,
           NEW a, a = Owing(accounts[u], rayDiv(amount, DebtIndex)),
           \/ accounts' = [accounts EXCEPT ![u] = a]
           \/ accounts' = [accounts EXCEPT ![u] = a, ![payer].wallet = wallet],
           TransfersOf("variableDebt", logs')
             = {<<"Transfer", "variableDebt", ZERO_ADDRESS, u, amount + DebtIncrease(u)>>},
           TransfersOf(ATOKEN, logs') = {}
    PROVE  AccountsTold
<1> DEFINE b == accounts[u]
           y == amount + DebtIncrease(u)
<1>1. /\ b \in Account /\ b.scaledDebt \in Nat /\ b.debtIndex \in Nat
      /\ DebtIndex \in Nat /\ RAY <= DebtIndex /\ rayDiv(amount, DebtIndex) \in Nat
  BY MarketFacts, LastSeen, SameIndices, RayDivNat DEF MarketInv
<1>2. /\ a \in Account /\ a.scaledDebt = b.scaledDebt + rayDiv(amount, DebtIndex)
      /\ a.scaledBalance = b.scaledBalance
  BY <1>1, AccountMoved
<1>3. a.debtIndex = DebtIndex /\ a.balanceIndex = b.balanceIndex
  BY <1>1, IndexWritten
<1>4. y \in Int /\ Owes(a) - Owes(b) - y \in Within(DebtIndex)
  BY <1>1, <1>2, <1>3, MintNear DEF Owes, DebtIncrease
<1>5. \A v \in Users : Told("variableDebt", v, logs') = IF v = u THEN y ELSE 0
  BY <1>4, ToldOfMint
<1>6. \A v \in Users : Told(ATOKEN, v, logs') = IF v = u THEN 0 ELSE 0
  BY ToldNothing
<1>7. Held(a) - Held(b) - 0 \in Within(Income)
  <2>1. Held(a) = Held(b)
    BY <1>2, <1>3 DEF Held
  <2>2. Held(b) - Held(b) - 0 = 0 /\ 0 \in Within(Income)
    BY AlikeHold
  <2> QED
    BY <2>1, <2>2
<1> HIDE DEF y, b
<1> QED
  BY <1>2, <1>3, <1>4, <1>5, <1>6, <1>7, AccountTold DEF b

LEMMA OwedTold ==
    ASSUME MarketInv, NEW u \in Users, NEW amount \in Nat, NEW payer \in Users, NEW wallet \in Int,
           rayDiv(amount, DebtIndex) <= accounts[u].scaledDebt,
           NEW a, a = Owed(accounts[u], rayDiv(amount, DebtIndex)),
           \/ accounts' = [accounts EXCEPT ![u] = a]
           \/ accounts' = [accounts EXCEPT ![u] = a, ![payer].wallet = wallet],
           TransfersOf("variableDebt", logs') = TransfersOf("variableDebt", DebtBurned(u, amount)),
           TransfersOf(ATOKEN, logs') = {}
    PROVE  AccountsTold
<1> DEFINE b == accounts[u]
           increase == DebtIncrease(u)
           y == increase - amount
<1>1. /\ b \in Account /\ b.scaledDebt \in Nat /\ b.debtIndex \in Nat
      /\ DebtIndex \in Nat /\ RAY <= DebtIndex /\ rayDiv(amount, DebtIndex) \in Nat
  BY MarketFacts, LastSeen, SameIndices, RayDivNat DEF MarketInv
<1>2. /\ a \in Account /\ a.scaledDebt = b.scaledDebt - rayDiv(amount, DebtIndex)
      /\ a.scaledBalance = b.scaledBalance
  BY <1>1, AccountMoved
<1>3. a.debtIndex = DebtIndex /\ a.balanceIndex = b.balanceIndex
  BY <1>1, IndexWritten
<1>4. increase \in Int /\ Owes(a) - Owes(b) - y \in Within(DebtIndex)
  BY <1>1, <1>2, <1>3, BurnNear DEF Owes, DebtIncrease
<1>5. \A v \in Users : Told("variableDebt", v, logs') = IF v = u THEN y ELSE 0
  <2> HIDE DEF increase
  <2>1. TransfersOf("variableDebt", logs')
          = IF increase > amount
            THEN {<<"Transfer", "variableDebt", ZERO_ADDRESS, u, increase - amount>>}
            ELSE {<<"Transfer", "variableDebt", u, ZERO_ADDRESS, amount - increase>>}
    BY BurnTransfers DEF DebtBurned, increase
  <2>2. amount \in Int
    OBVIOUS
  <2> QED
    BY <1>4, <2>1, <2>2, ToldOfBurn
<1>6. \A v \in Users : Told(ATOKEN, v, logs') = IF v = u THEN 0 ELSE 0
  BY ToldNothing
<1>7. Held(a) - Held(b) - 0 \in Within(Income)
  <2>1. Held(a) = Held(b)
    BY <1>2, <1>3 DEF Held
  <2>2. Held(b) - Held(b) - 0 = 0 /\ 0 \in Within(Income)
    BY AlikeHold
  <2> QED
    BY <2>1, <2>2
<1> HIDE DEF y, b
<1> QED
  BY <1>2, <1>3, <1>4, <1>5, <1>6, <1>7, AccountTold DEF b

-----------------------------------------------------------------------------
(* What a mint and a burn make of the principals of the stable debts.      *)
LEMMA PrincipalRebuilt ==
    ASSUME NEW t \in Token, NEW u \in Users, NEW principal, NEW rate, NEW timestamp,
           NEW supply, NEW average, NEW next
    PROVE  Rebuilt(t, u, principal, rate, timestamp, supply, average, next).principal
             = [t.principal EXCEPT ![u] = principal]
  BY DEF Rebuilt, Token

LEMMA PrincipalMinted ==
    ASSUME NEW t \in Token, NEW u \in Users, NEW amount, NEW rate,
           NEW x, x = StableBalanceOf(t, u) + amount
    PROVE  Minted(t, u, amount, rate).principal = [t.principal EXCEPT ![u] = x]
<1> DEFINE userRate == MergedRate(StableBalanceOf(t, u), t.userRate[u], amount, rate)
           supply == StableTotalSupply(t) + amount
           average == MergedRate(StableTotalSupply(t), t.avgStableRate, amount, rate)
           s == Minted(t, u, amount, rate)
<1>1. s = Rebuilt(t, u, x, userRate, now, supply, average, supply)
  BY DEF Minted, Rebuilt
<1> HIDE DEF userRate, supply, average, s
<1>2. s.principal = [t.principal EXCEPT ![u] = x]
  BY <1>1, PrincipalRebuilt
<1> QED
  BY <1>2 DEF s

LEMMA PrincipalBurned ==
    ASSUME NEW t \in Token, NEW u \in Users, NEW amount,
           NEW x, x = StableBalanceOf(t, u) - amount
    PROVE  Burned(t, u, amount).principal = [t.principal EXCEPT ![u] = x]
<1> DEFINE balance == StableBalanceOf(t, u)
           previous == StableTotalSupply(t)
           carried == rayMul(t.avgStableRate, wadToRay(previous))
           paid == RateRepaid(t, u, amount)
           next == IF previous <= amount THEN 0 ELSE previous - amount
           average == IF previous <= amount \/ paid >= carried THEN 0
                      ELSE rayDiv(carried - paid, wadToRay(next))
           userRate == IF amount = balance THEN 0 ELSE t.userRate[u]
           timestamp == IF amount = balance THEN 0 ELSE now
           supply == SupplyLeft(previous, amount, paid, carried)
           s == Burned(t, u, amount)
<1>1. s = Rebuilt(t, u, x, userRate, timestamp, supply, average, next)
  BY DEF Burned, Rebuilt, PrincipalLeft
<1> HIDE DEF userRate, timestamp, supply, average, next, s
<1>2. s.principal = [t.principal EXCEPT ![u] = x]
  BY <1>1, PrincipalRebuilt
<1> QED
  BY <1>2 DEF s

LEMMA PrincipalFacts ==
    ASSUME MarketInv, NEW u \in Users
    PROVE  /\ token \in Token /\ token.principal \in [Users -> Nat]
           /\ token.principal[u] \in Nat /\ StableBalanceOf(token, u) \in Nat
           /\ StableIncrease(u) \in Int
           /\ StableIncrease(u) + token.principal[u] = StableBalanceOf(token, u)
<1>1. token \in Token /\ token.principal \in [Users -> Nat] /\ token.principal[u] \in Nat
  BY Present DEF MarketInv, TokenInv, Token
<1>2. StableBalanceOf(token, u) \in Nat
  BY MarketFacts
<1> QED
  BY <1>1, <1>2 DEF StableIncrease

(* The stable debts told: of one account, or of none.                      *)
LEMMA PrincipalTold ==
    ASSUME MarketInv, NEW u \in Users, NEW x,
           token'.principal = [token.principal EXCEPT ![u] = x],
           \A v \in Users :
              Told("stableDebt", v, logs') = IF v = u THEN x - token.principal[u] ELSE 0
    PROVE  DebtsTold
<1> SUFFICES ASSUME NEW v \in Users
             PROVE  token'.principal[v] - token.principal[v] = Told("stableDebt", v, logs')
  BY DEF DebtsTold
<1>1. token.principal \in [Users -> Nat] /\ token.principal[v] \in Nat
  BY PrincipalFacts
<1>2. CASE v = u
  BY <1>1, <1>2
<1>3. CASE v # u
  <2>1. token'.principal[v] = token.principal[v]
    BY <1>1, <1>3
  <2> QED
    BY <1>1, <1>3, <2>1
<1> QED
  BY <1>2, <1>3

LEMMA NoPrincipalTold ==
    ASSUME MarketInv, token' = token, TransfersOf("stableDebt", logs') = {}
    PROVE  DebtsTold
<1> SUFFICES ASSUME NEW v \in Users
             PROVE  token'.principal[v] - token.principal[v] = Told("stableDebt", v, logs')
  BY DEF DebtsTold
<1>1. Told("stableDebt", v, logs') = 0
  BY ToldNothing
<1>2. token.principal[v] \in Nat
  BY PrincipalFacts
<1> QED
  BY <1>1, <1>2

LEMMA StableMintTold ==
    ASSUME MarketInv, NEW caller, NEW u \in Users, NEW amount \in Nat, NEW rate,
           token' = Minted(token, u, amount, rate), NEW t,
           TransfersOf("stableDebt", logs')
             = TransfersOf("stableDebt", StableMinted(caller, u, amount, t))
    PROVE  DebtsTold
<1> DEFINE x == StableBalanceOf(token, u) + amount
           more == amount + StableIncrease(u)
<1>1. token'.principal = [token.principal EXCEPT ![u] = x]
  <2>1. token \in Token
    BY PrincipalFacts
  <2> QED
    BY <2>1, PrincipalMinted
<1>2. more \in Int /\ more = x - token.principal[u]
  BY PrincipalFacts
<1>3. TransfersOf("stableDebt", logs') = {<<"Transfer", "stableDebt", ZERO_ADDRESS, u, more>>}
  BY StableMintTransfers
<1> HIDE DEF x, more
<1>4. \A v \in Users : Told("stableDebt", v, logs') = IF v = u THEN more ELSE 0
  BY <1>2, <1>3, ToldOfMint
<1> QED
  BY <1>1, <1>2, <1>4, PrincipalTold

LEMMA StableBurnTold ==
    ASSUME MarketInv, NEW u \in Users, NEW amount \in Nat, token' = Burned(token, u, amount),
           NEW t,
           TransfersOf("stableDebt", logs')
             = TransfersOf("stableDebt", StableBurned(u, amount, t))
    PROVE  DebtsTold
<1> DEFINE x == StableBalanceOf(token, u) - amount
           increase == StableIncrease(u)
<1>1. token'.principal = [token.principal EXCEPT ![u] = x]
  <2>1. token \in Token
    BY PrincipalFacts
  <2> QED
    BY <2>1, PrincipalBurned
<1>2. increase \in Int /\ amount \in Int /\ increase - amount = x - token.principal[u]
  BY PrincipalFacts
<1>3. TransfersOf("stableDebt", logs')
        = IF increase > amount
          THEN {<<"Transfer", "stableDebt", ZERO_ADDRESS, u, increase - amount>>}
          ELSE {<<"Transfer", "stableDebt", u, ZERO_ADDRESS, amount - increase>>}
  BY StableBurnTransfers
<1> HIDE DEF x, increase
<1>4. \A v \in Users : Told("stableDebt", v, logs') = IF v = u THEN increase - amount ELSE 0
  <2>1. increase \in Int /\ amount \in Int
    BY <1>2
  <2> QED
    BY <1>3, <2>1, ToldOfBurn
<1> QED
  BY <1>1, <1>2, <1>4, PrincipalTold

-----------------------------------------------------------------------------
(* The calls tell what they move, one lemma each.                          *)
LEMMA PaidTold ==
    ASSUME NEW from, NEW to, NEW amount, NEW E
    PROVE  \A tokenName \in {ATOKEN, "variableDebt", "stableDebt"} :
              TransfersOf(tokenName, Paid(from, to, amount) \cup E) = TransfersOf(tokenName, E)
<1> SUFFICES ASSUME NEW tokenName \in {ATOKEN, "variableDebt", "stableDebt"}
             PROVE  TransfersOf(tokenName, Paid(from, to, amount) \cup E)
                      = TransfersOf(tokenName, E)
  OBVIOUS
<1>1. TransfersOf(tokenName, Paid(from, to, amount)) = {}
  BY PaidAside
<1> QED
  BY <1>1, TransfersTogether

LEMMA TokensApart == ATOKEN # "variableDebt" /\ ATOKEN # "stableDebt"
  BY DEF ATOKEN

LEMMA ATokensMintedTold ==
    ASSUME NEW caller, NEW u, NEW amount
    PROVE  /\ TransfersOf(ATOKEN, ATokensMinted(caller, u, amount))
                = {<<"Transfer", ATOKEN, ZERO_ADDRESS, u, amount + ATokenIncrease(u)>>}
           /\ TransfersOf("variableDebt", ATokensMinted(caller, u, amount)) = {}
           /\ TransfersOf("stableDebt", ATokensMinted(caller, u, amount)) = {}
  BY MintTransfers, TokensApart DEF ATokensMinted

LEMMA ATokensBurnedTold ==
    ASSUME NEW u, NEW amount
    PROVE  /\ TransfersOf("variableDebt", ATokensBurned(u, amount)) = {}
           /\ TransfersOf("stableDebt", ATokensBurned(u, amount)) = {}
  BY BurnTransfers, TokensApart DEF ATokensBurned

LEMMA DebtMintedTold ==
    ASSUME NEW caller, NEW u, NEW amount
    PROVE  /\ TransfersOf("variableDebt", DebtMinted(caller, u, amount))
                = {<<"Transfer", "variableDebt", ZERO_ADDRESS, u, amount + DebtIncrease(u)>>}
           /\ TransfersOf(ATOKEN, DebtMinted(caller, u, amount)) = {}
           /\ TransfersOf("stableDebt", DebtMinted(caller, u, amount)) = {}
  BY MintTransfers, TokensApart DEF DebtMinted

LEMMA DebtBurnedTold ==
    ASSUME NEW u, NEW amount
    PROVE  /\ TransfersOf(ATOKEN, DebtBurned(u, amount)) = {}
           /\ TransfersOf("stableDebt", DebtBurned(u, amount)) = {}
  BY BurnTransfers, TokensApart DEF DebtBurned

LEMMA StableToldApart ==
    ASSUME NEW caller, NEW u, NEW amount, NEW t
    PROVE  /\ TransfersOf(ATOKEN, StableMinted(caller, u, amount, t)) = {}
           /\ TransfersOf("variableDebt", StableMinted(caller, u, amount, t)) = {}
           /\ TransfersOf(ATOKEN, StableBurned(u, amount, t)) = {}
           /\ TransfersOf("variableDebt", StableBurned(u, amount, t)) = {}
  BY StableMintTransfers, StableBurnTransfers, TokensApart

LEMMA IndicesTold ==
    ASSUME MarketInv, MarketKept, CallKept(UpToDateReserve)
    PROVE  Income <= Income' /\ DebtIndex <= DebtIndex'
<1>1. Income' = Income /\ DebtIndex' = DebtIndex
  BY IndicesStay
<1>2. Income \in Nat /\ DebtIndex \in Nat
  BY SameIndices DEF MarketInv
<1> QED
  BY <1>1, <1>2

LEMMA DepositTells ==
    ASSUME MarketInv, NEW sender \in Users, NEW u \in Users, NEW amount \in Amounts,
           Deposit(sender, u, amount)
    PROVE  BalancesTold
<1> DEFINE a == Receiving(accounts[u], rayDiv(amount, Income))
           wallet == accounts[sender].wallet - amount
           minted == ATokensMinted(sender, u, amount)
<1>1. amount \in Nat /\ wallet \in Int
  BY AmountsNat, MarketFacts
<1>2. /\ accounts' = [accounts EXCEPT ![u] = a, ![sender].wallet = wallet]
      /\ Supply(amount) /\ logs' = Paid(sender, ATOKEN, amount) \cup minted
  BY DEF Deposit
<1>3. token' = token
  BY <1>2 DEF Supply, OtherCall, Call
<1>4. Income <= Income' /\ DebtIndex <= DebtIndex'
  BY <1>1, <1>2, DepositKeeps, SupplyKeeps, IndicesTold DEF MarketInv
<1>5. \A tokenName \in {ATOKEN, "variableDebt", "stableDebt"} :
         TransfersOf(tokenName, logs') = TransfersOf(tokenName, minted)
  BY <1>2, PaidTold
<1>6. /\ TransfersOf(ATOKEN, logs')
           = {<<"Transfer", ATOKEN, ZERO_ADDRESS, u, amount + ATokenIncrease(u)>>}
      /\ TransfersOf("variableDebt", logs') = {} /\ TransfersOf("stableDebt", logs') = {}
  BY <1>5, ATokensMintedTold
<1>7. a = Receiving(accounts[u], rayDiv(amount, Income))
  OBVIOUS
<1> HIDE DEF a, wallet
<1>8. AccountsTold
  BY <1>1, <1>2, <1>6, <1>7, ReceivingTold
<1>9. DebtsTold
  BY <1>3, <1>6, NoPrincipalTold
<1> QED
  BY <1>4, <1>8, <1>9 DEF BalancesTold

LEMMA MintUnbackedTells ==
    ASSUME MarketInv, NEW u \in Users, NEW amount \in Amounts, MintUnbackedTo(u, amount)
    PROVE  BalancesTold
<1> DEFINE a == Receiving(accounts[u], rayDiv(amount, Income))
           minted == ATokensMinted(Others, u, amount)
<1>1. amount \in Nat /\ accounts[u].wallet \in Int
  BY AmountsNat, MarketFacts
<1>2. accounts' = [accounts EXCEPT ![u] = a] /\ MintUnbacked(amount) /\ logs' = minted
  BY DEF MintUnbackedTo
<1>3. token' = token
  BY <1>2 DEF MintUnbacked, OtherCall, Call
<1>4. Income <= Income' /\ DebtIndex <= DebtIndex'
  BY <1>1, <1>2, MintUnbackedToKeeps, MintUnbackedKeeps, IndicesTold DEF MarketInv
<1> HIDE DEF a
<1>5. AccountsTold
  BY <1>1, <1>2, ATokensMintedTold, ReceivingTold DEF a
<1>6. DebtsTold
  BY <1>2, <1>3, ATokensMintedTold, NoPrincipalTold
<1> QED
  BY <1>4, <1>5, <1>6 DEF BalancesTold

LEMMA WithdrawTells ==
    ASSUME MarketInv, NEW u \in Users, NEW asked \in Nat, WithdrawTo(u, asked)
    PROVE  BalancesTold
<1> DEFINE amount == IF asked = MAX_UINT_AMOUNT THEN BalanceOf(u) ELSE asked
           everything == amount = BalanceOf(u)
           a == Giving(accounts[u], rayDiv(amount, Income), everything)
           wallet == accounts[u].wallet + amount
           burned == ATokensBurned(u, amount)
<1>1. /\ amount \in 1..BalanceOf(u) /\ Withdraw(amount)
      /\ accounts' = [accounts EXCEPT ![u] = Giving(@, rayDiv(amount, Income), everything),
                                      ![u].wallet = @ + amount]
      /\ logs' = Paid(ATOKEN, u, amount) \cup burned
  BY DEF WithdrawTo
<1> HIDE DEF amount
<1>2. amount \in Nat /\ amount <= BalanceOf(u) /\ wallet \in Int /\ everything \in BOOLEAN
  BY <1>1, MarketFacts
<1>3. accounts' = [accounts EXCEPT ![u] = a, ![u].wallet = wallet]
  BY <1>1
<1>4. rayDiv(amount, Income) <= accounts[u].scaledBalance
  BY <1>2, MarketFacts, SameIndices, BurnWithinBalance DEF MarketInv, BalanceOf
<1>5. token' = token
  BY <1>1 DEF Withdraw, OtherCall, Call
<1>6. Income <= Income' /\ DebtIndex <= DebtIndex'
  BY <1>1, <1>2, WithdrawToKeeps, WithdrawKeeps, IndicesTold DEF MarketInv
<1>7. \A tokenName \in {ATOKEN, "variableDebt", "stableDebt"} :
         TransfersOf(tokenName, logs') = TransfersOf(tokenName, burned)
  BY <1>1, PaidTold
<1>8. /\ TransfersOf(ATOKEN, logs') = TransfersOf(ATOKEN, burned)
      /\ TransfersOf("variableDebt", logs') = {} /\ TransfersOf("stableDebt", logs') = {}
  BY <1>7, ATokensBurnedTold
<1> HIDE DEF a, wallet, everything
<1>9. AccountsTold
  BY <1>2, <1>3, <1>4, <1>8, GivingTold DEF a
<1>10. DebtsTold
  BY <1>5, <1>8, NoPrincipalTold
<1> QED
  BY <1>6, <1>9, <1>10 DEF BalancesTold

LEMMA BorrowVariableTells ==
    ASSUME MarketInv, NEW sender \in Users, NEW u \in Users, NEW amount \in Amounts,
           BorrowAtVariable(sender, u, amount)
    PROVE  BalancesTold
<1> DEFINE a == Owing(accounts[u], rayDiv(amount, DebtIndex))
           wallet == accounts[sender].wallet + amount
           minted == DebtMinted(sender, u, amount)
<1>1. amount \in Nat /\ wallet \in Int
  BY AmountsNat, MarketFacts
<1>2. /\ accounts' = [accounts EXCEPT ![u] = a, ![sender].wallet = wallet]
      /\ BorrowVariable(amount) /\ logs' = Paid(ATOKEN, sender, amount) \cup minted
  BY DEF BorrowAtVariable
<1>3. token' = token
  BY <1>2 DEF BorrowVariable, OtherCall, Call
<1>4. Income <= Income' /\ DebtIndex <= DebtIndex'
  BY <1>1, <1>2, BorrowAtVariableKeeps, BorrowVariableKeeps, IndicesTold DEF MarketInv
<1>5. \A tokenName \in {ATOKEN, "variableDebt", "stableDebt"} :
         TransfersOf(tokenName, logs') = TransfersOf(tokenName, minted)
  BY <1>2, PaidTold
<1>6. /\ TransfersOf("variableDebt", logs')
           = {<<"Transfer", "variableDebt", ZERO_ADDRESS, u, amount + DebtIncrease(u)>>}
      /\ TransfersOf(ATOKEN, logs') = {} /\ TransfersOf("stableDebt", logs') = {}
  BY <1>5, DebtMintedTold
<1>7. a = Owing(accounts[u], rayDiv(amount, DebtIndex))
  OBVIOUS
<1> HIDE DEF a, wallet
<1>8. AccountsTold
  BY <1>1, <1>2, <1>6, <1>7, OwingTold
<1>9. DebtsTold
  BY <1>3, <1>6, NoPrincipalTold
<1> QED
  BY <1>4, <1>8, <1>9 DEF BalancesTold

LEMMA RepayVariableTells ==
    ASSUME MarketInv, NEW sender \in Users, NEW u \in Users, NEW asked \in Nat,
           RepayAtVariable(sender, u, asked)
    PROVE  BalancesTold
<1> DEFINE amount == Payback(asked, VariableDebtOf(u))
           a == Owed(accounts[u], rayDiv(amount, DebtIndex))
           wallet == accounts[sender].wallet - amount
           burned == DebtBurned(u, amount)
<1>1. amount \in Nat /\ wallet \in Int
  BY MarketFacts DEF Payback
<1>2. /\ accounts' = [accounts EXCEPT ![u] = a, ![sender].wallet = wallet]
      /\ RepayVariable(amount) /\ rayDiv(amount, DebtIndex) \in 1..accounts[u].scaledDebt
      /\ logs' = Paid(sender, ATOKEN, amount) \cup burned
  BY DEF RepayAtVariable
<1>3. Income <= Income' /\ DebtIndex <= DebtIndex'
  BY <1>1, <1>2, RepayAtVariableKeeps, RepayVariableKeeps, IndicesTold DEF MarketInv
<1> HIDE DEF amount
<1>4. rayDiv(amount, DebtIndex) <= accounts[u].scaledDebt
  BY <1>2, MarketFacts
<1>5. token' = token
  BY <1>2 DEF RepayVariable, OtherCall, Call
<1>6. \A tokenName \in {ATOKEN, "variableDebt", "stableDebt"} :
         TransfersOf(tokenName, logs') = TransfersOf(tokenName, burned)
  BY <1>2, PaidTold
<1>7. /\ TransfersOf("variableDebt", logs') = TransfersOf("variableDebt", burned)
      /\ TransfersOf(ATOKEN, logs') = {} /\ TransfersOf("stableDebt", logs') = {}
  BY <1>6, DebtBurnedTold
<1> HIDE DEF a, wallet
<1>8. AccountsTold
  BY <1>1, <1>2, <1>4, <1>7, OwedTold DEF a
<1>9. DebtsTold
  BY <1>5, <1>7, NoPrincipalTold
<1> QED
  BY <1>3, <1>8, <1>9 DEF BalancesTold

(* Nobody's scaled balances move.                                          *)
LEMMA AllAlikeTold ==
    ASSUME MarketInv, \A v \in Users : Alike(accounts'[v], accounts[v]),
           TransfersOf(ATOKEN, logs') = {}, TransfersOf("variableDebt", logs') = {}
    PROVE  AccountsTold
<1> SUFFICES ASSUME NEW v \in Users
             PROVE  /\ Held(accounts'[v]) - Held(accounts[v]) - Told(ATOKEN, v, logs')
                         \in Within(Income)
                    /\ Owes(accounts'[v]) - Owes(accounts[v]) - Told("variableDebt", v, logs')
                         \in Within(DebtIndex)
                    /\ accounts'[v].balanceIndex \in {accounts[v].balanceIndex, Income}
  BY DEF AccountsTold
<1>1. Told(ATOKEN, v, logs') = 0 /\ Told("variableDebt", v, logs') = 0
  BY ToldNothing
<1> QED
  BY <1>1, AlikeHold DEF Alike

LEMMA WalletTold ==
    ASSUME MarketInv, NEW sender \in Users, NEW wallet,
           accounts' = [accounts EXCEPT ![sender].wallet = wallet],
           TransfersOf(ATOKEN, logs') = {}, TransfersOf("variableDebt", logs') = {}
    PROVE  AccountsTold
<1> DEFINE a == [accounts[sender] EXCEPT !.wallet = wallet]
<1>1. accounts' = [accounts EXCEPT ![sender] = a]
  OBVIOUS
<1>2. Alike(a, accounts[sender]) /\ \A b : Alike(b, b)
  BY MarketFacts DEF Account, Alike
<1> HIDE DEF a
<1>3. \A v \in Users : Alike(accounts'[v], accounts[v])
  BY <1>1, <1>2 DEF MarketInv, AccountsInv
<1> QED
  BY <1>3, AllAlikeTold

LEMMA BorrowStableTells ==
    ASSUME MarketInv, NEW sender \in Users, NEW u \in Users, NEW amount \in Amounts,
           BorrowAtStable(sender, u, amount)
    PROVE  BalancesTold
<1> DEFINE wallet == accounts[sender].wallet + amount
           rate == UpToDateReserve.currentStableBorrowRate
           minted == StableMinted(sender, u, amount, token')
<1>1. amount \in Nat \ {0}
  BY AmountsNat
<1>2. /\ accounts' = [accounts EXCEPT ![sender].wallet = wallet]
      /\ BorrowStable(u, amount) /\ logs' = Paid(ATOKEN, sender, amount) \cup minted
  BY DEF BorrowAtStable
<1>3. token' = Minted(token, u, amount, rate)
  BY <1>2 DEF BorrowStable, StableCall, Call
<1>4. Income <= Income' /\ DebtIndex <= DebtIndex'
  BY <1>1, <1>2, BorrowAtStableKeeps, BorrowStableKeeps, IndicesTold DEF MarketInv
<1>5. \A tokenName \in {ATOKEN, "variableDebt", "stableDebt"} :
         TransfersOf(tokenName, logs') = TransfersOf(tokenName, minted)
  BY <1>2, PaidTold
<1>6. /\ TransfersOf("stableDebt", logs') = TransfersOf("stableDebt", minted)
      /\ TransfersOf(ATOKEN, logs') = {} /\ TransfersOf("variableDebt", logs') = {}
  BY <1>5, StableToldApart
<1> HIDE DEF wallet, rate
<1>7. AccountsTold
  BY <1>2, <1>6, WalletTold
<1>8. DebtsTold
  BY <1>1, <1>3, <1>6, StableMintTold
<1> QED
  BY <1>4, <1>7, <1>8 DEF BalancesTold

LEMMA RepayStableTells ==
    ASSUME MarketInv, NEW sender \in Users, NEW u \in Users, NEW asked \in Nat,
           RepayAtStable(sender, u, asked)
    PROVE  BalancesTold
<1> DEFINE amount == Payback(asked, StableBalanceOf(token, u))
           wallet == accounts[sender].wallet - amount
           burned == StableBurned(u, amount, token')
<1>1. amount \in Nat
  BY MarketFacts DEF Payback
<1>2. /\ accounts' = [accounts EXCEPT ![sender].wallet = wallet]
      /\ RepayStable(u, amount) /\ logs' = Paid(sender, ATOKEN, amount) \cup burned
  BY DEF RepayAtStable
<1>3. Income <= Income' /\ DebtIndex <= DebtIndex'
  BY <1>1, <1>2, RepayAtStableKeeps, RepayStableKeeps, IndicesTold DEF MarketInv
<1> HIDE DEF amount
<1>4. token' = Burned(token, u, amount)
  BY <1>2 DEF RepayStable, StableCall, Call
<1>5. \A tokenName \in {ATOKEN, "variableDebt", "stableDebt"} :
         TransfersOf(tokenName, logs') = TransfersOf(tokenName, burned)
  BY <1>2, PaidTold
<1>6. /\ TransfersOf("stableDebt", logs') = TransfersOf("stableDebt", burned)
      /\ TransfersOf(ATOKEN, logs') = {} /\ TransfersOf("variableDebt", logs') = {}
  BY <1>5, StableToldApart
<1> HIDE DEF wallet
<1>7. AccountsTold
  BY <1>2, <1>6, WalletTold
<1>8. DebtsTold
  BY <1>1, <1>4, <1>6, StableBurnTold
<1> QED
  BY <1>3, <1>7, <1>8 DEF BalancesTold

LEMMA SwapFromStableTells ==
    ASSUME MarketInv, NEW u \in Users, SwapFromStable(u)
    PROVE  BalancesTold
<1> DEFINE owed == StableBalanceOf(token, u)
           a == Owing(accounts[u], rayDiv(owed, DebtIndex))
           burned == StableBurned(u, owed, token')
           minted == DebtMinted(u, u, owed)
<1>1. owed \in Nat /\ accounts[u].wallet \in Int
  BY MarketFacts
<1>2. accounts' = [accounts EXCEPT ![u] = a] /\ SwapToVariable(u) /\ logs' = burned \cup minted
  BY DEF SwapFromStable
<1>3. Income <= Income' /\ DebtIndex <= DebtIndex'
  BY <1>2, SwapFromStableKeeps, SwapToVariableKeeps, IndicesTold DEF MarketInv
<1>4. token' = Burned(token, u, owed)
  BY <1>2 DEF SwapToVariable, StableCall, Call
<1> HIDE DEF owed
<1>5. \A tokenName : TransfersOf(tokenName, logs')
                       = TransfersOf(tokenName, burned) \cup TransfersOf(tokenName, minted)
  BY <1>2, TransfersTogether
<1>6. /\ TransfersOf("stableDebt", logs') = TransfersOf("stableDebt", burned)
      /\ TransfersOf("variableDebt", logs')
           = {<<"Transfer", "variableDebt", ZERO_ADDRESS, u, owed + DebtIncrease(u)>>}
      /\ TransfersOf(ATOKEN, logs') = {}
  BY <1>5, StableToldApart, DebtMintedTold
<1>7. a = Owing(accounts[u], rayDiv(owed, DebtIndex))
  OBVIOUS
<1> HIDE DEF a
<1>8. AccountsTold
  BY <1>1, <1>2, <1>6, <1>7, OwingTold
<1>9. DebtsTold
  BY <1>1, <1>4, <1>6, StableBurnTold
<1> QED
  BY <1>3, <1>8, <1>9 DEF BalancesTold

LEMMA SwapFromVariableTells ==
    ASSUME MarketInv, NEW u \in Users, SwapFromVariable(u)
    PROVE  BalancesTold
<1> DEFINE owed == VariableDebtOf(u)
           rate == UpToDateReserve.currentStableBorrowRate
           a == Owed(accounts[u], rayDiv(owed, DebtIndex))
           burned == DebtBurned(u, owed)
           minted == StableMinted(u, u, owed, token')
<1>1. owed \in Nat /\ accounts[u].wallet \in Int
  BY MarketFacts
<1>2. /\ accounts' = [accounts EXCEPT ![u] = a] /\ SwapToStable(u, owed)
      /\ rayDiv(owed, DebtIndex) \in 1..accounts[u].scaledDebt
      /\ logs' = burned \cup minted
  BY DEF SwapFromVariable
<1>3. Income <= Income' /\ DebtIndex <= DebtIndex'
  BY <1>1, <1>2, SwapFromVariableKeeps, SwapToStableKeeps, IndicesTold DEF MarketInv
<1> HIDE DEF owed
<1>4. token' = Minted(token, u, owed, rate)
  BY <1>2 DEF SwapToStable, StableCall, Call
<1>5. rayDiv(owed, DebtIndex) <= accounts[u].scaledDebt
  BY <1>2, MarketFacts
<1>6. \A tokenName : TransfersOf(tokenName, logs')
                       = TransfersOf(tokenName, burned) \cup TransfersOf(tokenName, minted)
  BY <1>2, TransfersTogether
<1>7. /\ TransfersOf("stableDebt", logs') = TransfersOf("stableDebt", minted)
      /\ TransfersOf("variableDebt", logs') = TransfersOf("variableDebt", burned)
      /\ TransfersOf(ATOKEN, logs') = {}
  BY <1>6, StableToldApart, DebtBurnedTold
<1>8. a = Owed(accounts[u], rayDiv(owed, DebtIndex))
  OBVIOUS
<1> HIDE DEF a, rate
<1>9. AccountsTold
  BY <1>1, <1>2, <1>5, <1>7, <1>8, OwedTold
<1>10. DebtsTold
  BY <1>1, <1>4, <1>7, StableMintTold
<1> QED
  BY <1>3, <1>9, <1>10 DEF BalancesTold

(* The whole debt is burned and minted again: what is told of both is the  *)
(* interest since.                                                         *)
LEMMA RebalanceTells ==
    ASSUME MarketInv, NEW u \in Users, RebalanceRate(u)
    PROVE  BalancesTold
<1> DEFINE debt == StableBalanceOf(token, u)
           rate == UpToDateReserve.currentStableBorrowRate
           t == Burned(token, u, debt)
           increase == StableIncrease(u)
           burned == StableBurned(u, debt, t)
           a == <<"Transfer", "stableDebt", u, ZERO_ADDRESS, debt - increase>>
           b == <<"Transfer", "stableDebt", ZERO_ADDRESS, u, debt>>
           mint == <<"Mint", "stableDebt", u, u, debt, 0, 0, token'.userRate[u],
                     token'.avgStableRate, token'.reported.supply>>
<1>1. /\ RebalanceStableBorrowRate(u) /\ accounts' = accounts
      /\ logs' = burned \cup {b, mint}
  BY DEF RebalanceRate
<1>2. /\ token \in Token /\ token.principal \in [Users -> Nat] /\ token.principal[u] \in Nat
      /\ debt \in Nat /\ increase \in Int /\ increase + token.principal[u] = debt
  BY PrincipalFacts
<1>3. Income <= Income' /\ DebtIndex <= DebtIndex'
  BY <1>1, RebalanceRateKeeps, RebalanceKeeps, IndicesTold DEF MarketInv
<1>4. token' = Minted(t, u, debt, rate)
  BY <1>1 DEF RebalanceStableBorrowRate, StableCall, Call
<1>5. t \in Token
  <2>1. debt \in 0..debt
    BY <1>2
  <2> QED
    BY <2>1, Present, BurnedType DEF MarketInv, TokenInv
<1> HIDE DEF debt, rate, increase
<1>6. t.principal = [token.principal EXCEPT ![u] = 0]
  <2>1. 0 = StableBalanceOf(token, u) - debt
    BY <1>2 DEF debt
  <2> QED
    BY <1>2, <2>1, PrincipalBurned
<1> HIDE DEF t
<1>7. token'.principal = [token.principal EXCEPT ![u] = debt]
  <2>1. StableBalanceOf(t, u) = 0
    BY <1>2, <1>6 DEF StableBalanceOf
  <2>2. debt = StableBalanceOf(t, u) + debt
    BY <1>2, <2>1
  <2>3. token'.principal = [t.principal EXCEPT ![u] = debt]
    BY <1>4, <1>5, <2>2, PrincipalMinted
  <2> QED
    BY <1>2, <1>6, <2>3
<1>8. ~(increase > debt) /\ debt - increase \in Int /\ debt - increase = token.principal[u]
  BY <1>2
<1>9. TransfersOf("stableDebt", burned) = {a}
  BY <1>8, StableBurnTransfers DEF increase
<1>10. /\ TransfersOf("stableDebt", {b, mint}) = {b}
       /\ TransfersOf(ATOKEN, {b, mint}) = {} /\ TransfersOf("variableDebt", {b, mint}) = {}
  BY TokensApart DEF TransfersOf
<1>11. /\ TransfersOf("stableDebt", logs') = {a, b}
       /\ TransfersOf(ATOKEN, logs') = {} /\ TransfersOf("variableDebt", logs') = {}
  <2> HIDE DEF a, b, mint, burned
  <2>1. \A tokenName :
           TransfersOf(tokenName, logs')
             = TransfersOf(tokenName, burned) \cup TransfersOf(tokenName, {b, mint})
    BY <1>1, TransfersTogether
  <2> QED
    BY <1>9, <1>10, <2>1, StableToldApart DEF burned
<1>12. \A v \in Users :
          Told("stableDebt", v, logs') = IF v = u THEN debt - token.principal[u] ELSE 0
  <2> SUFFICES ASSUME NEW v \in Users
               PROVE  Told("stableDebt", v, logs')
                        = IF v = u THEN debt - token.principal[u] ELSE 0
    OBVIOUS
  <2> DEFINE paid == debt - increase
  <2>1. u # ZERO_ADDRESS /\ v # ZERO_ADDRESS
    BY MarketAssumption
  <2>2. a # b
    BY <2>1
  <2>3. paid \in Int /\ debt \in Int
    BY <1>2, <1>8
  <2>4. a = <<"Transfer", "stableDebt", u, ZERO_ADDRESS, paid>>
    OBVIOUS
  <2> HIDE DEF paid
  <2>5. /\ Gain(v, a) = (IF ZERO_ADDRESS = v THEN paid ELSE 0) - (IF u = v THEN paid ELSE 0)
        /\ Gain(v, b) = (IF u = v THEN debt ELSE 0) - (IF ZERO_ADDRESS = v THEN debt ELSE 0)
    BY <2>3, <2>4, GainOf
  <2> HIDE DEF a
  <2>6. b = <<"Transfer", "stableDebt", ZERO_ADDRESS, u, debt>>
    OBVIOUS
  <2> HIDE DEF b
  <2>7. Told("stableDebt", v, logs') = Gain(v, a) + Gain(v, b)
    BY <1>11, <2>2, <2>3, <2>4, <2>6, ToldTwo
  <2>8. paid = token.principal[u]
    BY <1>8 DEF paid
  <2> QED
    BY <1>2, <2>1, <2>5, <2>7, <2>8
<1>13. DebtsTold
  BY <1>7, <1>12, PrincipalTold
<1>14. AccountsTold
  BY <1>1, <1>11, AllAlikeTold DEF Alike
<1> QED
  BY <1>3, <1>13, <1>14 DEF BalancesTold

LEMMA IndicesUntouched ==
    ASSUME MarketInv, now' = now, UNCHANGED reserve
    PROVE  /\ Income' = Income /\ DebtIndex' = DebtIndex
           /\ Income <= Income' /\ DebtIndex <= DebtIndex'
<1>1. Income' = Income /\ DebtIndex' = DebtIndex
  BY DEF Income, DebtIndex, NextLiquidityIndex, NextVariableBorrowIndex,
         getNormalizedIncome, getNormalizedDebt, Elapsed
<1>2. Income \in Nat /\ DebtIndex \in Nat
  BY SameIndices DEF MarketInv
<1> QED
  BY <1>1, <1>2

LEMMA SetUseTells ==
    ASSUME MarketInv, NEW u \in Users, NEW use \in BOOLEAN, SetUseAsCollateral(u, use)
    PROVE  BalancesTold
<1> DEFINE a == [accounts[u] EXCEPT !.usedAsCollateral = use]
<1>1. /\ accounts' = [accounts EXCEPT ![u] = a] /\ token' = token /\ now' = now
      /\ logs' = {} /\ UNCHANGED reserve
  BY DEF SetUseAsCollateral, Call
<1>2. Alike(a, accounts[u]) /\ \A b : Alike(b, b)
  BY MarketFacts DEF Account, Alike
<1> HIDE DEF a
<1>3. \A v \in Users : Alike(accounts'[v], accounts[v])
  BY <1>1, <1>2 DEF MarketInv, AccountsInv
<1>4. \A tokenName : TransfersOf(tokenName, logs') = {}
  BY <1>1 DEF TransfersOf
<1>5. AccountsTold
  BY <1>3, <1>4, AllAlikeTold
<1>6. DebtsTold
  BY <1>1, <1>4, NoPrincipalTold
<1> QED
  BY <1>1, <1>5, <1>6, IndicesUntouched DEF BalancesTold

(* The fee a bridge pays raises the index, and no transfer tells of it.    *)
LEMMA BackUnbackedTells ==
    ASSUME MarketInv, NEW amount \in Amounts, NEW fee \in Fees, BackUnbacked(amount, fee)
    PROVE  BalancesTold
<1>1. amount \in Nat /\ fee \in Nat
  BY AmountsNat, MarketAssumption
<1>2. PICK paid : logs' = Paid(Others, ATOKEN, paid) /\ accounts' = accounts /\ token' = token
  BY DEF BackUnbacked, OtherCall, Call
<1>3. /\ UpToDateReserve.liquidityIndex <= reserve'.liquidityIndex
      /\ reserve'.variableBorrowIndex = UpToDateReserve.variableBorrowIndex
      /\ reserve'.lastUpdateTimestamp = now
  BY <1>1, BackUnbackedLeaves DEF MarketInv
<1>4. ReserveInv' /\ now' = now
  BY BackUnbackedKeeps DEF MarketKept, MarketInv
<1>5. (reserve.lastUpdateTimestamp = now)'
  BY <1>3, <1>4
<1>6. IncomeIndex' = reserve'.liquidityIndex /\ VariableIndex' = reserve'.variableBorrowIndex
  BY <1>4, <1>5, SeenNext DEF Seen
<1>7. IncomeIndex' = Income' /\ VariableIndex' = DebtIndex'
  BY <1>4, IndicesSeen DEF SeenAlike
<1>8. Income <= Income' /\ DebtIndex <= DebtIndex'
  <2>1. /\ UpToDateReserve.liquidityIndex = Income
        /\ UpToDateReserve.variableBorrowIndex = DebtIndex /\ DebtIndex \in Nat
    BY SameIndices DEF MarketInv
  <2>2. Income' = reserve'.liquidityIndex /\ DebtIndex' = reserve'.variableBorrowIndex
    BY <1>6, <1>7
  <2>3. DebtIndex' = DebtIndex /\ Income <= Income'
    BY <1>3, <2>1, <2>2
  <2>4. DebtIndex <= DebtIndex
    BY <2>1
  <2> QED
    BY <2>3, <2>4
<1>9. \A tokenName \in {ATOKEN, "variableDebt", "stableDebt"} :
         TransfersOf(tokenName, logs') = {}
  BY <1>2, PaidAside
<1>10. AccountsTold
  BY <1>2, <1>9, AllAlikeTold DEF Alike
<1>11. DebtsTold
  BY <1>2, <1>9, NoPrincipalTold
<1> QED
  BY <1>8, <1>10, <1>11 DEF BalancesTold

(* No balance has seen an index the reserve has not reached.               *)
SeenInv == \A u \in Users : accounts[u].balanceIndex <= Income

LEMMA InterestTold ==
    ASSUME MarketInv, SeenInv, NEW u \in Users
    PROVE  ATokenIncrease(u) \in Nat
<1> DEFINE s == accounts[u].scaledBalance
           last == accounts[u].balanceIndex
<1>1. s \in Nat /\ last \in Nat /\ Income \in Nat /\ last <= Income
  BY MarketFacts, LastSeen DEF SeenInv
<1>2. ATokenIncrease(u) = rayMul(s, Income) - rayMul(s, last)
  BY DEF ATokenIncrease, Increase
<1> HIDE DEF s, last
<1>3. /\ rayMul(s, Income) \in Nat /\ rayMul(s, last) \in Nat
      /\ rayMul(s, last) <= rayMul(s, Income)
  BY <1>1, RayMulNat, RayMulMonotone
<1> QED
  BY <1>2, <1>3

(* What sender and receiver are told of a transfer: their interest, and    *)
(* the amount.                                                             *)
InterestOf(u, increase) ==
    IF increase > 0 THEN {<<"Transfer", ATOKEN, ZERO_ADDRESS, u, increase>>} ELSE {}

LEMMA TransferTransfers ==
    ASSUME NEW caller, NEW from, NEW to, NEW amount,
           ATokenIncrease(from) \in Int, ATokenIncrease(to) \in Int
    PROVE  /\ TransfersOf(ATOKEN, TransferEvents(caller, from, to, amount))
                = InterestOf(from, ATokenIncrease(from)) \cup InterestOf(to, ATokenIncrease(to))
                    \cup {<<"Transfer", ATOKEN, from, to, amount>>}
           /\ TransfersOf("variableDebt", TransferEvents(caller, from, to, amount)) = {}
           /\ TransfersOf("stableDebt", TransferEvents(caller, from, to, amount)) = {}
<1> DEFINE told(u) == IF ATokenIncrease(u) > 0 THEN ATokensMinted(caller, u, 0) ELSE {}
           moves == {<<"Transfer", ATOKEN, from, to, amount>>,
                     <<"BalanceTransfer", ATOKEN, from, to, rayDiv(amount, Income), Income>>}
<1>1. TransferEvents(caller, from, to, amount) = told(from) \cup told(to) \cup moves
  BY DEF TransferEvents
<1>2. /\ TransfersOf(ATOKEN, moves) = {<<"Transfer", ATOKEN, from, to, amount>>}
      /\ TransfersOf("variableDebt", moves) = {} /\ TransfersOf("stableDebt", moves) = {}
  BY TokensApart DEF TransfersOf
<1>3. \A tokenName : TransfersOf(tokenName, {}) = {}
  BY DEF TransfersOf
<1>4. ASSUME NEW u, ATokenIncrease(u) \in Int
      PROVE  /\ TransfersOf(ATOKEN, told(u)) = InterestOf(u, ATokenIncrease(u))
             /\ TransfersOf("variableDebt", told(u)) = {}
             /\ TransfersOf("stableDebt", told(u)) = {}
  <2>1. 0 + ATokenIncrease(u) = ATokenIncrease(u)
    BY <1>4
  <2>2. CASE ATokenIncrease(u) > 0
    <3>1. told(u) = ATokensMinted(caller, u, 0)
      BY <2>2
    <3> QED
      BY <2>1, <2>2, <3>1, ATokensMintedTold DEF InterestOf
  <2>3. CASE ~(ATokenIncrease(u) > 0)
    BY <1>3, <2>3 DEF InterestOf
  <2> QED
    BY <2>2, <2>3
<1> HIDE DEF told, moves
<1>5. \A tokenName :
         TransfersOf(tokenName, told(from) \cup told(to) \cup moves)
           = TransfersOf(tokenName, told(from)) \cup TransfersOf(tokenName, told(to))
               \cup TransfersOf(tokenName, moves)
  BY DEF TransfersOf
<1>6. /\ TransfersOf(ATOKEN, told(from)) = InterestOf(from, ATokenIncrease(from))
      /\ TransfersOf(ATOKEN, told(to)) = InterestOf(to, ATokenIncrease(to))
      /\ TransfersOf("variableDebt", told(from)) = {} /\ TransfersOf("variableDebt", told(to)) = {}
      /\ TransfersOf("stableDebt", told(from)) = {} /\ TransfersOf("stableDebt", told(to)) = {}
  BY <1>4
<1> QED
  BY <1>1, <1>2, <1>5, <1>6

(* A transfer with the interest of both sides, and what it adds up to.     *)
TellsTransfer(from, to, amount, x, y, events) ==
    TransfersOf(ATOKEN, events)
      = InterestOf(from, x) \cup InterestOf(to, y)
          \cup {<<"Transfer", ATOKEN, from, to, amount>>}

AddsUpTransfer(from, to, amount, x, y, events) ==
    \A v \in Users :
        Told(ATOKEN, v, events)
          = IF from = to THEN IF v = from THEN x ELSE 0
            ELSE IF v = from THEN x - amount ELSE IF v = to THEN y + amount ELSE 0

LEMMA TransferAddsUp ==
    ASSUME NEW from \in Users, NEW to \in Users, NEW amount \in Nat,
           NEW x \in Nat, NEW y \in Nat, from = to => x = y, NEW events,
           TellsTransfer(from, to, amount, x, y, events)
    PROVE  AddsUpTransfer(from, to, amount, x, y, events)
<1> SUFFICES ASSUME NEW v \in Users
             PROVE  Told(ATOKEN, v, events)
                      = IF from = to THEN IF v = from THEN x ELSE 0
                        ELSE IF v = from THEN x - amount ELSE IF v = to THEN y + amount ELSE 0
  BY DEF AddsUpTransfer
<1> DEFINE S == TransfersOf(ATOKEN, events)
           a == <<"Transfer", ATOKEN, ZERO_ADDRESS, from, x>>
           b == IF from = to THEN <<"Transfer", ATOKEN, from, ZERO_ADDRESS, 0>>
                ELSE <<"Transfer", ATOKEN, ZERO_ADDRESS, to, y>>
           c == <<"Transfer", ATOKEN, from, to, amount>>
<1>1. from # ZERO_ADDRESS /\ to # ZERO_ADDRESS /\ v # ZERO_ADDRESS
  BY MarketAssumption
<1>2. a # b /\ a # c /\ b # c
  BY <1>1
<1>3. /\ S \subseteq {a, b, c} /\ c \in S
      /\ a \in S <=> x > 0
      /\ b \in S <=> from # to /\ y > 0
  BY <1>1, <1>2 DEF InterestOf, TellsTransfer
<1>4. /\ Gain(v, a) = IF from = v THEN x ELSE 0
      /\ Gain(v, c) = (IF to = v THEN amount ELSE 0) - (IF from = v THEN amount ELSE 0)
      /\ from # to => Gain(v, b) = IF to = v THEN y ELSE 0
      /\ from = to => Gain(v, b) = 0
  BY <1>1 DEF Gain
<1>5. Gain(v, a) \in Int /\ Gain(v, b) \in Int /\ Gain(v, c) \in Int
  BY <1>4
<1> HIDE DEF a, b, c, S
<1>6. Told(ATOKEN, v, events)
        = (IF a \in S THEN Gain(v, a) ELSE 0) + (IF b \in S THEN Gain(v, b) ELSE 0)
            + (IF c \in S THEN Gain(v, c) ELSE 0)
  BY <1>2, <1>3, <1>5, ToldOfThree DEF S
<1> QED
  BY <1>3, <1>4, <1>6

LEMMA TransferTells ==
    ASSUME MarketInv, SeenInv, NEW caller, NEW from \in Users, NEW to \in Users,
           NEW amount \in Nat, TransferFrom(caller, from, to, amount)
    PROVE  BalancesTold
<1> DEFINE scaled == rayDiv(amount, Income)
           delta == IF from = to THEN 0 ELSE scaled
           x == ATokenIncrease(from)
           y == ATokenIncrease(to)
           events == TransferEvents(caller, from, to, amount)
<1>1. /\ logs' = events /\ token' = token /\ now' = now /\ UNCHANGED reserve
      /\ scaled <= accounts[from].scaledBalance
  BY DEF TransferFrom, Call
<1>2. /\ accounts'[from].scaledBalance = accounts[from].scaledBalance - delta
      /\ accounts'[to].scaledBalance = accounts[to].scaledBalance + delta
      /\ accounts'[from].balanceIndex = Income /\ accounts'[to].balanceIndex = Income
      /\ \A v \in Users : /\ accounts'[v].scaledDebt = accounts[v].scaledDebt
                          /\ accounts'[v].debtIndex = accounts[v].debtIndex
      /\ \A v \in Users \ {from, to} : Alike(accounts'[v], accounts[v])
  BY TransferLeaves
<1>3. /\ x \in Nat
      /\ y \in Nat
      /\ from = to => x = y
  BY InterestTold
<1>4. /\ TellsTransfer(from, to, amount, x, y, logs')
      /\ TransfersOf("variableDebt", logs') = {} /\ TransfersOf("stableDebt", logs') = {}
  <2>1. ATokenIncrease(from) \in Int /\ ATokenIncrease(to) \in Int
    BY <1>3
  <2>2. logs' = TransferEvents(caller, from, to, amount)
    BY <1>1
  <2> HIDE DEF events
  <2> QED
    BY <2>1, <2>2, TransferTransfers DEF TellsTransfer
<1>5. \A v \in Users :
         Told(ATOKEN, v, logs')
           = IF from = to THEN IF v = from THEN x ELSE 0
             ELSE IF v = from THEN x - amount ELSE IF v = to THEN y + amount ELSE 0
  <2> HIDE DEF x, y
  <2>1. AddsUpTransfer(from, to, amount, x, y, logs')
    BY <1>3, <1>4, TransferAddsUp
  <2> QED
    BY <2>1 DEF AddsUpTransfer
<1>6. ASSUME NEW v \in Users
      PROVE  /\ accounts[v].scaledBalance \in Nat /\ accounts[v].balanceIndex \in Nat
             /\ Income \in Nat /\ RAY <= Income
             /\ ATokenIncrease(v)
                  = Increase(accounts[v].scaledBalance, Income, accounts[v].balanceIndex)
  BY MarketFacts, LastSeen, SameIndices DEF MarketInv, ATokenIncrease
<1> HIDE DEF events
<1>7. ASSUME NEW v \in Users
      PROVE  Held(accounts'[v]) - Held(accounts[v]) - Told(ATOKEN, v, logs') \in Within(Income)
  <2> DEFINE s == accounts[v].scaledBalance
             last == accounts[v].balanceIndex
  <2>1. CASE v \notin {from, to}
    <3>1. Alike(accounts'[v], accounts[v]) /\ Told(ATOKEN, v, logs') = 0
      BY <1>2, <1>5, <2>1
    <3> QED
      BY <3>1, AlikeHold
  <2>2. CASE v \in {from, to} /\ from = to
    <3>1. accounts'[v].scaledBalance = s /\ accounts'[v].balanceIndex = Income
      BY <1>2, <1>6, <2>2
    <3>2. Told(ATOKEN, v, logs') = rayMul(s, Income) - rayMul(s, last)
      BY <1>5, <1>6, <2>2 DEF Increase
    <3>3. Held(accounts'[v]) = rayMul(s, Income) /\ Held(accounts[v]) = rayMul(s, last)
      BY <3>1 DEF Held
    <3>4. rayMul(s, Income) \in Nat /\ rayMul(s, last) \in Nat
      BY <1>6, RayMulNat
    <3>5. Held(accounts'[v]) - Held(accounts[v]) - Told(ATOKEN, v, logs') = 0
      BY <3>2, <3>3, <3>4
    <3> QED
      BY <3>5, AlikeHold
  <2>3. CASE v = from /\ from # to
    <3>1. accounts'[v].scaledBalance = s - scaled /\ accounts'[v].balanceIndex = Income
      BY <1>2, <2>3
    <3>2. Told(ATOKEN, v, logs') = Increase(s, Income, last) - amount
      BY <1>5, <1>6, <2>3
    <3>3. Held(accounts'[v]) = rayMul(s - scaled, Income) /\ Held(accounts[v]) = rayMul(s, last)
      BY <3>1 DEF Held
    <3>4. s \in Nat /\ last \in Nat /\ Income \in Nat /\ RAY <= Income /\ scaled <= s
      BY <1>1, <1>6, <2>3
    <3> HIDE DEF s, last
    <3> QED
      BY <3>2, <3>3, <3>4, BurnNear
  <2>4. CASE v = to /\ from # to
    <3>1. accounts'[v].scaledBalance = s + scaled /\ accounts'[v].balanceIndex = Income
      BY <1>2, <2>4
    <3>2. Told(ATOKEN, v, logs') = Increase(s, Income, last) + amount
      BY <1>5, <1>6, <2>4
    <3>3. Held(accounts'[v]) = rayMul(s + scaled, Income) /\ Held(accounts[v]) = rayMul(s, last)
      BY <3>1 DEF Held
    <3>4. s \in Nat /\ last \in Nat /\ Income \in Nat /\ RAY <= Income
      BY <1>6
    <3>5. Increase(s, Income, last) + amount = amount + Increase(s, Income, last)
      <4>1. Increase(s, Income, last) = ATokenIncrease(v) /\ ATokenIncrease(v) \in Nat
        BY <1>3, <1>6, <2>4
      <4> HIDE DEF s, last
      <4> QED
        BY <4>1
    <3> HIDE DEF s, last
    <3> QED
      BY <3>2, <3>3, <3>4, <3>5, MintNear
  <2> QED
    BY <2>1, <2>2, <2>3, <2>4
<1>8. ASSUME NEW v \in Users
      PROVE  Owes(accounts'[v]) - Owes(accounts[v]) - Told("variableDebt", v, logs')
               \in Within(DebtIndex)
  <2>1. Owes(accounts'[v]) = Owes(accounts[v])
    BY <1>2 DEF Owes
  <2>2. Told("variableDebt", v, logs') = 0
    BY <1>4, ToldNothing
  <2>3. Owes(accounts[v]) \in Nat /\ 0 \in Within(DebtIndex)
    BY AlikeHold
  <2>4. Owes(accounts[v]) - Owes(accounts[v]) - 0 = 0
    BY <2>3
  <2> QED
    BY <2>1, <2>2, <2>3, <2>4
<1>9. \A v \in Users : accounts'[v].balanceIndex \in {accounts[v].balanceIndex, Income}
  BY <1>2 DEF Alike
<1>10. AccountsTold
  BY <1>7, <1>8, <1>9 DEF AccountsTold
<1>11. DebtsTold
  BY <1>1, <1>4, NoPrincipalTold
<1> QED
  BY <1>1, <1>10, <1>11, IndicesUntouched DEF BalancesTold

-----------------------------------------------------------------------------
(* The scenarios: every transaction tells what it moves.                   *)
LEMMA CallsTell ==
    ASSUME MarketInv, SeenInv,
           \/ SendDeposit \/ SendWithdraw \/ SendBorrow \/ SendRepay
           \/ SendSwapBorrowRateMode \/ SendRebalance \/ SendSetUseAsCollateral
           \/ SendMintUnbacked \/ SendBackUnbacked \/ SendTransferFrom
    PROVE  /\ BalancesTold
           /\ step'.phase = "sent" /\ step'.accounts = accounts /\ step'.token = token
<1> DEFINE read == step'.phase = "sent" /\ step'.accounts = accounts /\ step'.token = token
<1>1. ASSUME NEW op, Mined(op) PROVE read
  BY <1>1 DEF Mined
<1> HIDE DEF read
<1>2. CASE SendDeposit
  <2>1. PICK op \in Deposits : Mined(op) /\ Deposit(op.user, op.u, op.amount)
    BY <1>2 DEF SendDeposit
  <2>2. op.user \in Users /\ op.u \in Users /\ op.amount \in Amounts
    BY DEF Deposits
  <2> QED
    BY <1>1, <2>1, <2>2, DepositTells DEF read
<1>3. CASE SendWithdraw
  <2>1. PICK op \in Withdrawals : Mined(op) /\ WithdrawTo(op.u, op.amount)
    BY <1>3 DEF SendWithdraw
  <2>2. op.u \in Users /\ op.amount \in Nat
    BY AskedNat DEF Withdrawals
  <2> QED
    BY <1>1, <2>1, <2>2, WithdrawTells DEF read
<1>4. CASE SendBorrow
  <2>1. PICK op \in Borrows :
           /\ Mined(op)
           /\ \/ BorrowAtStable(op.user, op.u, op.amount)
              \/ BorrowAtVariable(op.user, op.u, op.amount)
    BY <1>4 DEF SendBorrow
  <2>2. op.user \in Users /\ op.u \in Users /\ op.amount \in Amounts
    BY DEF Borrows
  <2> QED
    BY <1>1, <2>1, <2>2, BorrowStableTells, BorrowVariableTells DEF read
<1>5. CASE SendRepay
  <2>1. PICK op \in Repayments :
           /\ Mined(op)
           /\ \/ RepayAtStable(op.user, op.u, op.amount)
              \/ RepayAtVariable(op.user, op.u, op.amount)
    BY <1>5 DEF SendRepay
  <2>2. op.user \in Users /\ op.u \in Users /\ op.amount \in Nat
    BY AskedNat DEF Repayments
  <2> QED
    BY <1>1, <2>1, <2>2, RepayStableTells, RepayVariableTells DEF read
<1>6. CASE SendSwapBorrowRateMode
  <2>1. PICK op \in Swaps : Mined(op) /\ (SwapFromStable(op.u) \/ SwapFromVariable(op.u))
    BY <1>6 DEF SendSwapBorrowRateMode
  <2>2. op.u \in Users
    BY DEF Swaps
  <2> QED
    BY <1>1, <2>1, <2>2, SwapFromStableTells, SwapFromVariableTells DEF read
<1>7. CASE SendRebalance
  <2>1. PICK op \in Rebalances : Mined(op) /\ RebalanceRate(op.u)
    BY <1>7 DEF SendRebalance
  <2>2. op.u \in Users
    BY DEF Rebalances
  <2> QED
    BY <1>1, <2>1, <2>2, RebalanceTells DEF read
<1>8. CASE SendSetUseAsCollateral
  <2>1. PICK op \in CollateralSwitches : Mined(op) /\ SetUseAsCollateral(op.u, op.use)
    BY <1>8 DEF SendSetUseAsCollateral
  <2>2. op.u \in Users /\ op.use \in BOOLEAN
    BY DEF CollateralSwitches
  <2> QED
    BY <1>1, <2>1, <2>2, SetUseTells DEF read
<1>9. CASE SendMintUnbacked
  <2>1. PICK op \in UnbackedMints : Mined(op) /\ MintUnbackedTo(op.u, op.amount)
    BY <1>9 DEF SendMintUnbacked
  <2>2. op.u \in Users /\ op.amount \in Amounts
    BY DEF UnbackedMints
  <2> QED
    BY <1>1, <2>1, <2>2, MintUnbackedTells DEF read
<1>10. CASE SendBackUnbacked
  <2>1. PICK op \in Backings : Mined(op) /\ BackUnbacked(op.amount, op.fee)
    BY <1>10 DEF SendBackUnbacked
  <2>2. op.amount \in Amounts /\ op.fee \in Fees
    BY DEF Backings
  <2> QED
    BY <1>1, <2>1, <2>2, BackUnbackedTells DEF read
<1>11. CASE SendTransferFrom
  <2>1. PICK op \in Transfers : Mined(op) /\ TransferFrom(op.user, op.u, op.to, op.amount)
    BY <1>11 DEF SendTransferFrom
  <2>2. op.u \in Users /\ op.to \in Users /\ op.amount \in Nat
    BY ScenarioAssumption DEF Transfers
  <2> QED
    BY <1>1, <2>1, <2>2, TransferTells DEF read
<1> QED
  BY <1>2, <1>3, <1>4, <1>5, <1>6, <1>7, <1>8, <1>9, <1>10, <1>11

-----------------------------------------------------------------------------
(* Between two calls the indices only rise.                                *)
IndexFacts ==
    /\ Income \in Nat /\ RAY <= Income
    /\ DebtIndex \in Nat /\ RAY <= DebtIndex

LEMMA IndexTyped == MarketInv => IndexFacts
  BY SameIndices DEF MarketInv, IndexFacts

LEMMA IndexTypedNext == MarketInv' => IndexFacts'
  BY IndexTyped, PTL

LEMMA WaitRaises ==
    ASSUME MarketInv, TimePasses
    PROVE  Income <= Income' /\ DebtIndex <= DebtIndex'
<1>1. ReserveInv /\ ReserveInv' /\ Tick /\ reserve' = reserve
  BY MarketWaits DEF MarketInv, TimePasses
<1>2. IncomeIndex <= IncomeIndex' /\ VariableIndex <= VariableIndex'
  BY <1>1, TimeRaises
<1> QED
  BY <1>1, <1>2, SeenAlikeAtPresent, IndicesSeen DEF SeenAlike

(* What was told within a rounding stays within it as the index rises.     *)
LEMMA WithinLater ==
    ASSUME MarketInv, MarketInv', Income <= Income', DebtIndex <= DebtIndex'
    PROVE  /\ Within(Income) \subseteq Within(Income')
           /\ Within(DebtIndex) \subseteq Within(DebtIndex')
<1>1. IndexFacts /\ IndexFacts'
  BY IndexTyped, IndexTypedNext
<1> QED
  BY <1>1, WithinWider DEF IndexFacts

(* What a call has told of a user since the accounts "was" and the token   *)
(* "before".                                                               *)
ToldSince(was, before, u) ==
    /\ Held(accounts[u]) - Held(was[u]) - Told(ATOKEN, u, logs) \in Within(Income)
    /\ Owes(accounts[u]) - Owes(was[u]) - Told("variableDebt", u, logs) \in Within(DebtIndex)
    /\ token.principal[u] - before.principal[u] = Told("stableDebt", u, logs)

TellsSent ==
    step.phase = "sent" => \A u \in Users : ToldSince(step.accounts, step.token, u)

LEMMA TellsSince == EventsTellBalances <=> TellsSent
  BY DEF EventsTellBalances, TellsSent, ToldSince, Held, Owes, Within

LEMMA TellsSinceNext == EventsTellBalances' <=> TellsSent'
  BY TellsSince, PTL

LEMMA CallsKeepTelling ==
    ASSUME MarketInv, SeenInv,
           \/ SendDeposit \/ SendWithdraw \/ SendBorrow \/ SendRepay
           \/ SendSwapBorrowRateMode \/ SendRebalance \/ SendSetUseAsCollateral
           \/ SendMintUnbacked \/ SendBackUnbacked \/ SendTransferFrom
    PROVE  SeenInv' /\ EventsTellBalances'
<1>1. /\ BalancesTold
      /\ step'.phase = "sent" /\ step'.accounts = accounts /\ step'.token = token
  BY CallsTell
<1>2. MarketInv'
  BY MarketSteps DEF ScenarioNext
<1>3. Income <= Income' /\ DebtIndex <= DebtIndex'
  BY <1>1 DEF BalancesTold
<1>4. /\ Within(Income) \subseteq Within(Income')
      /\ Within(DebtIndex) \subseteq Within(DebtIndex')
  BY <1>2, <1>3, WithinLater
<1>5. SeenInv'
  <2> SUFFICES ASSUME NEW u \in Users PROVE accounts'[u].balanceIndex <= Income'
    BY DEF SeenInv
  <2>1. accounts'[u].balanceIndex \in {accounts[u].balanceIndex, Income}
    BY <1>1 DEF BalancesTold, AccountsTold
  <2>2. accounts[u].balanceIndex <= Income /\ accounts[u].balanceIndex \in Nat
    BY MarketFacts DEF SeenInv, Account
  <2>3. Income \in Nat /\ Income' \in Nat
    BY <1>2, IndexTyped, IndexTypedNext DEF IndexFacts
  <2> QED
    BY <1>3, <2>1, <2>2, <2>3
<1>6. \A u \in Users : ToldSince(step.accounts, step.token, u)'
  <2> SUFFICES ASSUME NEW u \in Users
               PROVE  /\ Held(accounts'[u]) - Held(accounts[u]) - Told(ATOKEN, u, logs')
                           \in Within(Income')
                      /\ Owes(accounts'[u]) - Owes(accounts[u]) - Told("variableDebt", u, logs')
                           \in Within(DebtIndex')
                      /\ token'.principal[u] - token.principal[u] = Told("stableDebt", u, logs')
    BY <1>1 DEF ToldSince
  <2> QED
    BY <1>1, <1>4 DEF BalancesTold, AccountsTold, DebtsTold
<1> QED
  BY <1>5, <1>6, TellsSinceNext DEF TellsSent

LEMMA WaitKeepsTelling ==
    ASSUME MarketInv, SeenInv, EventsTellBalances, Wait
    PROVE  SeenInv' /\ EventsTellBalances'
<1>1. /\ accounts' = accounts /\ logs' = logs /\ token' = token /\ step' = step
      /\ TimePasses
  BY DEF Wait, TimePasses, Tick
<1>2. MarketInv'
  BY <1>1, MarketWaits
<1>3. Income <= Income' /\ DebtIndex <= DebtIndex'
  BY <1>1, WaitRaises
<1>4. /\ Within(Income) \subseteq Within(Income')
      /\ Within(DebtIndex) \subseteq Within(DebtIndex')
  BY <1>2, <1>3, WithinLater
<1>5. SeenInv'
  <2> SUFFICES ASSUME NEW u \in Users PROVE accounts[u].balanceIndex <= Income'
    BY <1>1 DEF SeenInv
  <2>1. accounts[u].balanceIndex <= Income /\ accounts[u].balanceIndex \in Nat
    BY MarketFacts DEF SeenInv, Account
  <2>2. Income \in Nat /\ Income' \in Nat
    BY <1>2, IndexTyped, IndexTypedNext DEF IndexFacts
  <2> QED
    BY <1>3, <2>1, <2>2
<1>6. ASSUME step.phase = "sent", NEW u \in Users
      PROVE  ToldSince(step.accounts, step.token, u)'
  <2>1. ToldSince(step.accounts, step.token, u)
    BY <1>6, TellsSince DEF TellsSent
  <2> QED
    BY <1>1, <1>4, <2>1 DEF ToldSince
<1> QED
  BY <1>1, <1>5, <1>6, TellsSinceNext DEF TellsSent

LEMMA ReadKeepsTelling ==
    ASSUME MarketInv, SeenInv, Read
    PROVE  SeenInv' /\ EventsTellBalances'
<1>1. step'.phase # "sent" /\ UNCHANGED <<now, reserve, accounts>>
  BY DEF Read, marketVars, reserveVars, tokenVars
<1> QED
  BY <1>1, IndicesUntouched DEF EventsTellBalances, SeenInv

LEMMA StutterKeepsTelling ==
    ASSUME MarketInv, SeenInv, EventsTellBalances, UNCHANGED scenarioVars
    PROVE  SeenInv' /\ EventsTellBalances'
<1>1. UNCHANGED <<now, token, reserve, accounts, logs, step>>
  BY DEF scenarioVars, marketVars, reserveVars, tokenVars
<1>2. Income' = Income /\ DebtIndex' = DebtIndex
  BY <1>1, IndicesUntouched
<1>3. SeenInv'
  BY <1>1, <1>2 DEF SeenInv
<1>4. EventsTellBalances'
  BY <1>1, <1>2 DEF EventsTellBalances
<1> QED
  BY <1>3, <1>4

LEMMA InitialTelling ==
    ASSUME ScenarioInit
    PROVE  MarketInv /\ SeenInv /\ EventsTellBalances
<1>1. MarketInv /\ step.phase = "idle"
  BY InitialMarket DEF ScenarioInit
<1>2. Income \in Nat
  BY <1>1, IndexTyped DEF IndexFacts
<1>3. \A u \in Users : accounts[u].balanceIndex = 0
  BY DEF ScenarioInit, MarketInit, EmptyAccount
<1> QED
  BY <1>1, <1>2, <1>3 DEF SeenInv, EventsTellBalances

(* Whoever adds up the transfers of a receipt knows what it did to every   *)
(* user's balance and variable debt, each as of when it was last touched,  *)
(* up to the rounding of one write, and to every stable debt exactly: the  *)
(* mints and burns a token announces carry the interest since the balance  *)
(* was last touched, whoever touched it and in whose name                  *)
(* (ScaledBalanceTokenBase.sol and StableDebtToken.sol, as                 *)
(* atoken-event-accounting.spec.ts adds them up).                          *)
THEOREM EventsTell == ScenarioSpec => []EventsTellBalances
<1> DEFINE Inv == MarketInv /\ SeenInv /\ EventsTellBalances
<1>1. ScenarioInit => Inv
  BY InitialTelling
<1>2. Inv /\ [ScenarioNext]_scenarioVars => Inv'
  <2> SUFFICES ASSUME Inv, [ScenarioNext]_scenarioVars PROVE Inv'
    OBVIOUS
  <2>1. CASE ScenarioNext
    <3>1. MarketInv'
      BY <2>1, MarketSteps
    <3>2. SeenInv' /\ EventsTellBalances'
      BY <2>1, CallsKeepTelling, WaitKeepsTelling, ReadKeepsTelling DEF ScenarioNext
    <3> QED
      BY <3>1, <3>2
  <2>2. CASE UNCHANGED scenarioVars
    BY <2>2, MarketStutters, StutterKeepsTelling DEF scenarioVars
  <2> QED
    BY <2>1, <2>2
<1> QED
  BY <1>1, <1>2, PTL DEF ScenarioSpec

-----------------------------------------------------------------------------
(* The books of the reserve, against the test oracle.                      *)

(* What is read of a reserve, and what the reading says of it as stored.   *)
ReadData ==
    {"unbacked", "accruedToTreasuryScaled", "availableLiquidity", "totalLiquidity",
     "borrowUsageRatio", "supplyUsageRatio", "totalStableDebt", "totalVariableDebt",
     "liquidityRate", "variableBorrowRate", "stableBorrowRate", "averageStableBorrowRate",
     "liquidityIndex", "variableBorrowIndex", "lastUpdateTimestamp",
     "totalStableDebtLastUpdated", "principalStableDebt", "scaledVariableDebt"}

(* A record of the test shows a record of the reserve.                     *)
Shows(d, r) ==
    /\ DOMAIN d = ReadData
    /\ d.unbacked = r.unbacked /\ d.accruedToTreasuryScaled = r.accruedToTreasury
    /\ d.availableLiquidity = r.liquidity
    /\ d.liquidityIndex = r.liquidityIndex /\ d.variableBorrowIndex = r.variableBorrowIndex
    /\ d.scaledVariableDebt = r.scaledVariableDebt

Says(d) ==
    /\ Shows(d, reserve)
    /\ d.totalVariableDebt = 0 <=> reserve.scaledVariableDebt = 0
    /\ d.liquidityRate = reserve.currentLiquidityRate
    /\ d.variableBorrowRate = reserve.currentVariableBorrowRate
    /\ d.lastUpdateTimestamp = reserve.lastUpdateTimestamp
    /\ d.principalStableDebt = token.supply
    /\ d.averageStableBorrowRate = token.avgStableRate
    /\ d.totalStableDebtLastUpdated = token.supplyTimestamp

LEMMA ReadingSays ==
    ASSUME ReserveInv
    PROVE  Says(getReserveData)
<1>1. /\ DebtIndex \in Nat /\ RAY <= DebtIndex /\ reserve.scaledVariableDebt \in Nat
  BY SameIndices, PresentFacts
<1>2. rayMul(reserve.scaledVariableDebt, DebtIndex) = 0 <=> reserve.scaledVariableDebt = 0
  <2> DEFINE scaled == reserve.scaledVariableDebt
             index == DebtIndex
  <2>1. scaled \in Nat /\ index \in Nat /\ RAY <= index
    BY <1>1
  <2> HIDE DEF scaled, index
  <2>2. rayMul(scaled, index) = 0 <=> scaled = 0
    BY <2>1, RayMulZero
  <2> QED
    BY <2>2 DEF scaled, index
<1>3. getReserveData.totalVariableDebt = rayMul(reserve.scaledVariableDebt, DebtIndex)
  BY DEF getReserveData
<1>4. Shows(getReserveData, reserve)
  BY DEF Shows, getReserveData, ReadData
<1>5. /\ getReserveData.liquidityRate = reserve.currentLiquidityRate
      /\ getReserveData.variableBorrowRate = reserve.currentVariableBorrowRate
      /\ getReserveData.lastUpdateTimestamp = reserve.lastUpdateTimestamp
      /\ getReserveData.principalStableDebt = token.supply
      /\ getReserveData.averageStableBorrowRate = token.avgStableRate
      /\ getReserveData.totalStableDebtLastUpdated = token.supplyTimestamp
  BY DEF getReserveData
<1> QED
  BY <1>2, <1>3, <1>4, <1>5 DEF Says

(* The books as read are those of the record.                              *)
BooksOf(r) ==
    <<r.unbacked, r.accruedToTreasury, r.liquidity, r.liquidity + r.unbacked,
      r.liquidityIndex, r.variableBorrowIndex, r.scaledVariableDebt>>

LEMMA BooksRecorded == Books(getReserveData) = BooksOf(reserve)
  BY DEF Books, BooksOf, getReserveData

LEMMA BooksRecordedNext == Books(getReserveData)' = BooksOf(reserve)'
  BY DEF Books, BooksOf, getReserveData

(* New rates leave the books as they are.                                  *)
LEMMA RatedBooks ==
    ASSUME NEW r \in ReserveData, NEW s, DOMAIN s = DOMAIN r, NEW stable, NEW average
    PROVE  BooksOf(Rated(s, stable, average)) = BooksOf(s)
<1> DEFINE rates == calculateInterestRates(Borrowed(s, stable, average))
           x == rates.liquidityRate
           y == rates.stableRate
           z == rates.variableRate
<1>1. Rated(s, stable, average)
        = [s EXCEPT !.currentLiquidityRate = x, !.currentStableBorrowRate = y,
                    !.currentVariableBorrowRate = z]
  BY DEF Rated
<1> HIDE DEF x, y, z
<1> DEFINE q == Rated(s, stable, average)
<1>2. /\ q.unbacked = s.unbacked /\ q.accruedToTreasury = s.accruedToTreasury
      /\ q.liquidity = s.liquidity /\ q.liquidityIndex = s.liquidityIndex
      /\ q.variableBorrowIndex = s.variableBorrowIndex
      /\ q.scaledVariableDebt = s.scaledVariableDebt
  BY <1>1 DEF ReserveData
<1> HIDE DEF q
<1> QED
  BY <1>2 DEF BooksOf, q

(* The test's records, through the steps most transactions share.          *)
LEMMA LiquidityAdded ==
    ASSUME NEW d, DOMAIN d = ReadData, NEW added, NEW taken, NEW r, Shows(d, r)
    PROVE  LET e == Oracle!updateLiquidityAndUsageRatios(d, added, taken)
           IN  /\ Shows(e, [unbacked |-> r.unbacked, accruedToTreasury |-> r.accruedToTreasury,
                            liquidity |-> r.liquidity + added - taken,
                            liquidityIndex |-> r.liquidityIndex,
                            variableBorrowIndex |-> r.variableBorrowIndex,
                            scaledVariableDebt |-> r.scaledVariableDebt])
               /\ e.principalStableDebt = d.principalStableDebt
               /\ e.totalStableDebt = d.totalStableDebt
               /\ e.averageStableBorrowRate = d.averageStableBorrowRate
<1> DEFINE m == [d EXCEPT !.availableLiquidity = @ + added - taken]
           liquidity == m.availableLiquidity + m.unbacked
           usage == Oracle!calcExpectedUsageRatios(m.totalStableDebt, m.totalVariableDebt,
                                                   m.availableLiquidity, liquidity)
           x == usage.borrow
           y == usage.supply
           e == Oracle!updateLiquidityAndUsageRatios(d, added, taken)
<1>1. e = [m EXCEPT !.totalLiquidity = liquidity, !.borrowUsageRatio = x, !.supplyUsageRatio = y]
  BY DEF Oracle!updateLiquidityAndUsageRatios, Oracle!updateTotalLiquidityAndUsageRatio
<1> HIDE DEF x, y, liquidity, e
<1>2. /\ DOMAIN m = ReadData /\ m.unbacked = d.unbacked
      /\ m.accruedToTreasuryScaled = d.accruedToTreasuryScaled
      /\ m.availableLiquidity = d.availableLiquidity + added - taken
      /\ m.liquidityIndex = d.liquidityIndex /\ m.variableBorrowIndex = d.variableBorrowIndex
      /\ m.scaledVariableDebt = d.scaledVariableDebt
      /\ m.principalStableDebt = d.principalStableDebt
      /\ m.totalStableDebt = d.totalStableDebt
      /\ m.averageStableBorrowRate = d.averageStableBorrowRate
  BY DEF ReadData
<1> HIDE DEF m
<1>3. /\ DOMAIN e = ReadData /\ e.unbacked = m.unbacked
      /\ e.accruedToTreasuryScaled = m.accruedToTreasuryScaled
      /\ e.availableLiquidity = m.availableLiquidity
      /\ e.liquidityIndex = m.liquidityIndex /\ e.variableBorrowIndex = m.variableBorrowIndex
      /\ e.scaledVariableDebt = m.scaledVariableDebt
      /\ e.principalStableDebt = m.principalStableDebt
      /\ e.totalStableDebt = m.totalStableDebt
      /\ e.averageStableBorrowRate = m.averageStableBorrowRate
  BY <1>1, <1>2 DEF ReadData
<1> QED
  BY <1>2, <1>3 DEF Shows, e

LEMMA OraclePercent ==
    ASSUME NEW a \in Nat, NEW b \in Nat
    PROVE  Oracle!percentMul(a, b) = percentMul(a, b)
<1> DEFINE p == a * b
           half == PERCENTAGE_FACTOR \div 2
<1>1. p \in Nat /\ PERCENTAGE_FACTOR \in Nat \ {0} /\ half \in Nat
  BY ProductNat, ScaleAssumption, DivBounds
<1>2. Oracle!div(PERCENTAGE_FACTOR, 2) = half
  BY <1>1, OracleArithmetic
<1>3. Oracle!percentMul(a, b) = Oracle!div(half + p, PERCENTAGE_FACTOR)
  BY <1>2 DEF Oracle!percentMul
<1>4. percentMul(a, b) = (p + half) \div PERCENTAGE_FACTOR
  BY DEF percentMul, HALF_PERCENTAGE_FACTOR
<1> HIDE DEF p, half
<1>5. half + p \in Nat /\ half + p = p + half
  BY <1>1
<1>6. Oracle!div(half + p, PERCENTAGE_FACTOR) = (half + p) \div PERCENTAGE_FACTOR
  BY <1>1, <1>5, OracleArithmetic
<1> QED
  BY <1>3, <1>4, <1>5, <1>6

LEMMA OracleAccrues ==
    ASSUME NEW rate \in Nat, NEW last \in Nat, NEW current \in Nat, last <= current
    PROVE  Oracle!calcLinearInterest(rate, current, last)
             = calculateLinearInterest(rate, current - last)
<1> DEFINE earned == rate * (current - last)
<1>1. earned \in Nat /\ SECONDS_PER_YEAR \in Nat \ {0} /\ RAY \in Nat
  <2>1. current - last \in Nat
    OBVIOUS
  <2> QED
    BY <2>1, ProductNat, YearAssumption, ScaleAssumption
<1>2. /\ Oracle!calcLinearInterest(rate, current, last) = Oracle!div(earned, SECONDS_PER_YEAR) + RAY
      /\ calculateLinearInterest(rate, current - last) = RAY + earned \div SECONDS_PER_YEAR
  BY DEF Oracle!calcLinearInterest, calculateLinearInterest
<1> HIDE DEF earned
<1>3. Oracle!div(earned, SECONDS_PER_YEAR) = earned \div SECONDS_PER_YEAR
  BY <1>1, OracleArithmetic
<1>4. earned \div SECONDS_PER_YEAR \in Nat
  BY <1>1, DivBounds
<1> QED
  BY <1>1, <1>2, <1>3, <1>4

LEMMA NothingAccrues ==
    ASSUME NEW elapsed \in Nat
    PROVE  calculateLinearInterest(0, elapsed) = RAY
<1>1. SECONDS_PER_YEAR \in Nat \ {0} /\ RAY \in Nat
  BY YearAssumption, ScaleAssumption
<1>2. (0 * elapsed) \div SECONDS_PER_YEAR = 0
  BY <1>1
<1> QED
  BY <1>1, <1>2 DEF calculateLinearInterest

LEMMA RayMulByOne ==
    ASSUME NEW a \in Nat
    PROVE  rayMul(RAY, a) = a
<1>1. rayMul(RAY, a) = rayMul(a, RAY)
  BY ScaleAssumption DEF rayMul
<1> QED
  BY <1>1, RayMulOne

LEMMA RayMulTurned ==
    ASSUME NEW a \in Nat, NEW b \in Nat
    PROVE  rayMul(a, b) = rayMul(b, a)
  BY DEF rayMul

(* The indices the test expects to be stored.                              *)
LEMMA IndicesForeseen ==
    ASSUME ReserveInv, NEW d, Says(d), d.supplyUsageRatio = 0 => d.liquidityRate = 0
    PROVE  /\ Oracle!calcExpectedLiquidityIndex(d, now) = Income
           /\ Oracle!calcExpectedVariableBorrowIndex(d, now) = DebtIndex
           /\ Oracle!calcExpectedReserveNormalizedIncome(d, now) = Income
           /\ reserve.scaledVariableDebt # 0
              => Oracle!calcExpectedReserveNormalizedDebt(
                     d.variableBorrowRate, d.variableBorrowIndex, d.lastUpdateTimestamp, now)
                   = DebtIndex
           /\ Oracle!calcExpectedReserveNormalizedDebt(
                  d.variableBorrowRate, d.variableBorrowIndex, d.lastUpdateTimestamp, now) \in Nat
<1> DEFINE rate == reserve.currentLiquidityRate
           index == reserve.liquidityIndex
           variableRate == reserve.currentVariableBorrowRate
           variableIndex == reserve.variableBorrowIndex
           last == reserve.lastUpdateTimestamp
           linear == calculateLinearInterest(rate, now - last)
           compound == calculateCompoundedInterest(variableRate, now - last)
<1>1. /\ rate \in Nat /\ index \in Nat /\ variableRate \in Nat /\ variableIndex \in Nat
      /\ last \in Nat /\ last <= now /\ now \in Nat /\ now - last \in Nat
  <2>1. RecordInv(reserve) /\ now \in Nat
    BY Present DEF ReserveInv, BooksInv
  <2> QED
    BY <2>1, RecordFacts
<1>2. /\ d.liquidityRate = rate /\ d.liquidityIndex = index
      /\ d.variableBorrowRate = variableRate /\ d.variableBorrowIndex = variableIndex
      /\ d.lastUpdateTimestamp = last
      /\ d.totalVariableDebt = 0 <=> reserve.scaledVariableDebt = 0
  BY DEF Says, Shows
<1>3. /\ Income = IF rate = 0 THEN index ELSE rayMul(linear, index)
      /\ DebtIndex = IF reserve.scaledVariableDebt = 0 THEN variableIndex
                     ELSE rayMul(compound, variableIndex)
  BY DEF Income, DebtIndex, NextLiquidityIndex, NextVariableBorrowIndex, getNormalizedIncome,
         getNormalizedDebt, Elapsed
<1> HIDE DEF rate, index, variableRate, variableIndex, last
<1>4. linear \in Nat /\ compound \in Nat
  <2>1. \E x \in Nat : linear = x + RAY
    BY <1>1, LinearInterest
  <2>2. compound \in Nat
    BY <1>1, CompoundedNat
  <2> HIDE DEF linear, compound
  <2> QED
    BY <2>1, <2>2, ScaleAssumption
<1>5. /\ Oracle!calcLinearInterest(rate, now, last) = linear
      /\ Oracle!calcCompoundedInterest(variableRate, now, last) = compound
  BY <1>1, OracleAccrues, OracleCompounds
<1>6. rate = 0 => linear = RAY
  BY <1>1, NothingAccrues
<1>7. variableRate = 0 => compound = RAY
  BY <1>1, NothingCompounds
<1> HIDE DEF linear, compound
<1>8. /\ Oracle!rayMul(linear, index) = rayMul(linear, index)
      /\ Oracle!rayMul(compound, variableIndex) = rayMul(compound, variableIndex)
      /\ rayMul(RAY, index) = index /\ rayMul(RAY, variableIndex) = variableIndex
  BY <1>1, <1>4, OracleArithmetic, RayMulByOne
<1>9. Oracle!calcExpectedLiquidityIndex(d, now)
        = IF d.supplyUsageRatio = 0 THEN index ELSE rayMul(linear, index)
  BY <1>2, <1>5, <1>8 DEF Oracle!calcExpectedLiquidityIndex
<1>10. Oracle!calcExpectedVariableBorrowIndex(d, now)
         = IF d.totalVariableDebt = 0 THEN variableIndex ELSE rayMul(compound, variableIndex)
  BY <1>2, <1>5, <1>8 DEF Oracle!calcExpectedVariableBorrowIndex
<1>11. Oracle!calcExpectedReserveNormalizedIncome(d, now)
         = IF rate = 0 THEN index ELSE rayMul(linear, index)
  BY <1>2, <1>5, <1>8 DEF Oracle!calcExpectedReserveNormalizedIncome
<1>12. Oracle!calcExpectedReserveNormalizedDebt(variableRate, variableIndex, last, now)
         = IF variableRate = 0 THEN variableIndex ELSE rayMul(compound, variableIndex)
  BY <1>5, <1>8 DEF Oracle!calcExpectedReserveNormalizedDebt
<1>13. rayMul(compound, variableIndex) \in Nat
  BY <1>1, <1>4, RayMulNat
<1> QED
  BY <1>1, <1>2, <1>3, <1>6, <1>7, <1>8, <1>9, <1>10, <1>11, <1>12, <1>13

(* And so the total of the stable debts, and the treasury's share.         *)
LEMMA TotalForeseen ==
    ASSUME ReserveInv, NEW d, Says(d)
    PROVE  Oracle!TotalStableDebtAt(d, now) = StableTotalSupply(token)
<1> DEFINE supply == token.supply
           rate == token.avgStableRate
           last == token.supplyTimestamp
           compound == calculateCompoundedInterest(rate, now - last)
<1>1. /\ supply \in Nat /\ rate \in Nat /\ last \in Nat /\ last <= now /\ now \in Nat
      /\ now - last \in Nat
  BY Present, TokenFacts DEF TokenInv
<1>2. /\ d.principalStableDebt = supply /\ d.averageStableBorrowRate = rate
      /\ d.totalStableDebtLastUpdated = last
  BY DEF Says
<1>3. StableTotalSupply(token) = IF supply = 0 THEN 0 ELSE rayMul(supply, compound)
  BY DEF StableTotalSupply
<1> HIDE DEF supply, rate, last
<1>4. compound \in Nat /\ Oracle!calcCompoundedInterest(rate, now, last) = compound
  BY <1>1, CompoundedNat, OracleCompounds
<1> HIDE DEF compound
<1>5. Oracle!TotalStableDebtAt(d, now) = Oracle!rayMul(compound, supply)
  BY <1>2, <1>4 DEF Oracle!TotalStableDebtAt, Oracle!calcExpectedTotalStableDebt
<1>6. Oracle!rayMul(compound, supply) = rayMul(supply, compound)
  BY <1>1, <1>4, OracleArithmetic, RayMulTurned
<1>7. rayMul(0, compound) = 0
  BY <1>4, RayMulOfNothing
<1> QED
  BY <1>3, <1>5, <1>6, <1>7

LEMMA TreasuryForeseen ==
    ASSUME ReserveInv, NEW d, Says(d), NEW next,
           next.liquidityIndex = Income, next.variableBorrowIndex = DebtIndex,
           next.totalStableDebt = StableTotalSupply(token)
    PROVE  Oracle!calcExpectedAccrueToTreasury(d, next)
             = reserve.accruedToTreasury + TreasuryShare(reserve, token)
<1> DEFINE scaled == reserve.scaledVariableDebt
           index == reserve.variableBorrowIndex
           supply == token.supply
           rate == token.avgStableRate
           from == token.supplyTimestamp
           last == reserve.lastUpdateTimestamp
           compound == calculateCompoundedInterest(rate, last - from)
           debt == DebtAccrued(reserve, token)
           share == percentMul(debt, reserveFactor)
           total == StableTotalSupply(token)
           treasury == reserve.accruedToTreasury
<1>1. BooksInv(reserve, token) /\ RecordInv(reserve) /\ TokenInv(token) /\ now \in Nat
  BY Present DEF ReserveInv, BooksInv
<1>2. /\ scaled \in Nat /\ index \in Nat /\ last \in Nat /\ treasury \in Nat
  BY <1>1, RecordFacts
<1>3. /\ supply \in Nat /\ rate \in Nat /\ from \in Nat /\ from <= last
      /\ last - from \in Nat
  <2>1. supply \in Nat /\ rate \in Nat /\ from \in Nat /\ from <= last
    BY <1>1, TokenFacts DEF BooksInv
  <2> QED
    BY <1>2, <2>1
<1>4. /\ d.scaledVariableDebt = scaled /\ d.variableBorrowIndex = index
      /\ d.principalStableDebt = supply /\ d.averageStableBorrowRate = rate
      /\ d.totalStableDebtLastUpdated = from /\ d.lastUpdateTimestamp = last
      /\ d.accruedToTreasuryScaled = treasury
  BY DEF Says, Shows
<1>5. Income \in Nat \ {0} /\ DebtIndex \in Nat
  BY SameIndices
<1>6. /\ debt = rayMul(scaled, DebtIndex) + total - rayMul(scaled, index)
                  - rayMul(supply, compound)
      /\ debt \in Nat
  BY <1>1, TreasuryShareNat DEF DebtAccrued, StableDebtAtLastUpdate, DebtIndex
<1>7. TreasuryShare(reserve, token)
        = IF reserveFactor = 0 THEN 0 ELSE rayDiv(share, Income)
  BY DEF TreasuryShare, Income
<1> HIDE DEF scaled, index, supply, rate, from, last, total, treasury, debt
<1>8. compound \in Nat /\ Oracle!calcCompoundedInterest(rate, last, from) = compound
  BY <1>2, <1>3, CompoundedNat, OracleCompounds
<1> HIDE DEF compound
<1>9. Oracle!DebtAccrued(d, next) = debt
  <2>1. /\ Oracle!rayMul(scaled, DebtIndex) = rayMul(scaled, DebtIndex)
        /\ Oracle!rayMul(scaled, index) = rayMul(scaled, index)
        /\ Oracle!rayMul(supply, compound) = rayMul(supply, compound)
    BY <1>2, <1>3, <1>5, <1>8, OracleArithmetic
  <2> QED
    BY <1>4, <1>6, <1>8, <2>1 DEF Oracle!DebtAccrued, total
<1>10. reserveFactor \in Nat
  BY ReserveAssumption, ScaleAssumption
<1>11. Oracle!percentMul(debt, reserveFactor) = share /\ share \in Nat
  BY <1>6, <1>10, OraclePercent, PercentMulNat
<1> HIDE DEF share
<1>12. Oracle!calcExpectedAccrueToTreasury(d, next)
         = IF reserveFactor # 0 /\ share > 0 THEN treasury + Oracle!rayDiv(share, Income)
           ELSE treasury
  BY <1>4, <1>9, <1>11 DEF Oracle!calcExpectedAccrueToTreasury
<1>13. Oracle!rayDiv(share, Income) = rayDiv(share, Income)
  BY <1>5, <1>11, OracleArithmetic
<1>14. rayDiv(0, Income) = 0
  BY <1>5, RayDivOfNothing
<1> QED
  BY <1>2, <1>7, <1>11, <1>12, <1>13, <1>14 DEF treasury

(* What the test makes of the state of the reserve at the transaction.     *)
LEMMA StateForeseen ==
    ASSUME ReserveInv, NEW d, Says(d), d.supplyUsageRatio = 0 => d.liquidityRate = 0,
           reserve.lastUpdateTimestamp < now
    PROVE  LET e == Oracle!updateState(d, now)
           IN  /\ Shows(e, UpToDateReserve)
               /\ e.totalStableDebt = StableTotalSupply(token)
               /\ e.principalStableDebt = token.supply
               /\ e.averageStableBorrowRate = token.avgStableRate
<1> DEFINE r == UpToDateReserve
           total == StableTotalSupply(token)
           variable == Oracle!rayMul(d.scaledVariableDebt, DebtIndex)
           next == [d EXCEPT !.liquidityIndex = Income, !.variableBorrowIndex = DebtIndex,
                             !.totalStableDebt = total, !.totalVariableDebt = variable]
           accrued == Oracle!calcExpectedAccrueToTreasury(d, next)
           e == Oracle!updateState(d, now)
<1>1. /\ Oracle!calcExpectedLiquidityIndex(d, now) = Income
      /\ Oracle!calcExpectedVariableBorrowIndex(d, now) = DebtIndex
      /\ Oracle!TotalStableDebtAt(d, now) = total
  BY IndicesForeseen, TotalForeseen
<1>2. DOMAIN d = ReadData
  BY DEF Says, Shows
<1>3. e = [next EXCEPT !.accruedToTreasuryScaled = accrued]
  BY <1>1 DEF Oracle!updateState, Oracle!Accrued
<1> HIDE DEF variable, total, e
<1>4. /\ DOMAIN next = ReadData /\ next.unbacked = d.unbacked
      /\ next.availableLiquidity = d.availableLiquidity
      /\ next.liquidityIndex = Income /\ next.variableBorrowIndex = DebtIndex
      /\ next.scaledVariableDebt = d.scaledVariableDebt
      /\ next.totalStableDebt = total
      /\ next.principalStableDebt = d.principalStableDebt
      /\ next.averageStableBorrowRate = d.averageStableBorrowRate
  BY <1>2 DEF ReadData
<1> HIDE DEF next
<1>5. accrued = reserve.accruedToTreasury + TreasuryShare(reserve, token)
  BY <1>4, TreasuryForeseen DEF total
<1> HIDE DEF accrued
<1>6. /\ DOMAIN e = ReadData /\ e.unbacked = next.unbacked
      /\ e.accruedToTreasuryScaled = accrued
      /\ e.availableLiquidity = next.availableLiquidity
      /\ e.liquidityIndex = next.liquidityIndex
      /\ e.variableBorrowIndex = next.variableBorrowIndex
      /\ e.scaledVariableDebt = next.scaledVariableDebt
      /\ e.totalStableDebt = next.totalStableDebt
      /\ e.principalStableDebt = next.principalStableDebt
      /\ e.averageStableBorrowRate = next.averageStableBorrowRate
  BY <1>3, <1>4 DEF ReadData
<1>7. /\ r.unbacked = reserve.unbacked /\ r.liquidity = reserve.liquidity
      /\ r.accruedToTreasury = reserve.accruedToTreasury + TreasuryShare(reserve, token)
      /\ r.liquidityIndex = Income /\ r.variableBorrowIndex = DebtIndex
      /\ r.scaledVariableDebt = reserve.scaledVariableDebt
  <2>1. reserve \in ReserveData /\ reserve.lastUpdateTimestamp \in Nat /\ now \in Nat
    BY Present, RecordFacts DEF ReserveInv, BooksInv, RecordInv
  <2>2. reserve.lastUpdateTimestamp # now
    BY <2>1
  <2> DEFINE share == TreasuryShare(reserve, token)
             income == NextLiquidityIndex(reserve)
             index == NextVariableBorrowIndex(reserve)
  <2>3. r = [reserve EXCEPT !.liquidityIndex = income, !.variableBorrowIndex = index,
                            !.accruedToTreasury = @ + share, !.lastUpdateTimestamp = now]
    BY <2>2 DEF UpToDateReserve, UpToDate
  <2> HIDE DEF share, income, index, r
  <2>4. /\ r.unbacked = reserve.unbacked /\ r.liquidity = reserve.liquidity
        /\ r.accruedToTreasury = reserve.accruedToTreasury + share
        /\ r.liquidityIndex = income /\ r.variableBorrowIndex = index
        /\ r.scaledVariableDebt = reserve.scaledVariableDebt
    BY <2>1, <2>3 DEF ReserveData
  <2> QED
    BY <2>4 DEF share, income, index, Income, DebtIndex
<1> HIDE DEF r
<1>8. Shows(e, r)
  BY <1>4, <1>5, <1>6, <1>7 DEF Shows, Says
<1> QED
  BY <1>4, <1>6, <1>8 DEF Says, e, total, r

(* The reserve as the test has it before the call moves anything but the   *)
(* liquidity.                                                              *)
Ready(e, liquidity) ==
    /\ DOMAIN e = ReadData
    /\ e.unbacked = UpToDateReserve.unbacked
    /\ e.accruedToTreasuryScaled = UpToDateReserve.accruedToTreasury
    /\ e.availableLiquidity = liquidity
    /\ e.liquidityIndex = UpToDateReserve.liquidityIndex
    /\ e.variableBorrowIndex = UpToDateReserve.variableBorrowIndex
    /\ e.scaledVariableDebt = UpToDateReserve.scaledVariableDebt
    /\ e.totalStableDebt = StableTotalSupply(token)
    /\ e.principalStableDebt = token.supply
    /\ e.averageStableBorrowRate = token.avgStableRate

(* A reading that a transaction in a later block may be foreseen from.     *)
Foresees(d) ==
    /\ ReserveInv /\ Says(d)
    /\ d.supplyUsageRatio = 0 => d.liquidityRate = 0
    /\ reserve.lastUpdateTimestamp < now

LEMMA LiquidityReady ==
    ASSUME NEW d, Foresees(d), NEW added, NEW taken
    PROVE  Ready(Oracle!updateLiquidityAndUsageRatios(Oracle!updateState(d, now), added, taken),
                 UpToDateReserve.liquidity + added - taken)
<1> DEFINE e == Oracle!updateState(d, now)
           f == Oracle!updateLiquidityAndUsageRatios(e, added, taken)
           r == UpToDateReserve
<1>1. /\ Shows(e, r) /\ e.totalStableDebt = StableTotalSupply(token)
      /\ e.principalStableDebt = token.supply /\ e.averageStableBorrowRate = token.avgStableRate
  BY StateForeseen DEF Foresees
<1> HIDE DEF e
<1>2. /\ Shows(f, [unbacked |-> r.unbacked, accruedToTreasury |-> r.accruedToTreasury,
                   liquidity |-> r.liquidity + added - taken,
                   liquidityIndex |-> r.liquidityIndex,
                   variableBorrowIndex |-> r.variableBorrowIndex,
                   scaledVariableDebt |-> r.scaledVariableDebt])
      /\ f.principalStableDebt = e.principalStableDebt
      /\ f.totalStableDebt = e.totalStableDebt
      /\ f.averageStableBorrowRate = e.averageStableBorrowRate
  BY <1>1, LiquidityAdded DEF Shows
<1> HIDE DEF f, r
<1>3. Ready(f, r.liquidity + added - taken)
  BY <1>1, <1>2 DEF Shows, Ready, r
<1> QED
  BY <1>3 DEF e, f, r

LEMMA ConcludedBooks ==
    ASSUME NEW m, NEW s, Shows(m, s)
    PROVE  /\ Books(Oracle!Concluded(m)) = BooksOf(s)
           /\ Oracle!Concluded(m).principalStableDebt = m.principalStableDebt
<1> DEFINE rates == Oracle!calcExpectedInterestRates(
                        m.totalStableDebt, m.totalVariableDebt, m.averageStableBorrowRate,
                        m.availableLiquidity, m.totalLiquidity)
           x == rates.liquidityRate
           y == rates.stableRate
           z == rates.variableRate
           n == [m EXCEPT !.liquidityRate = x, !.stableBorrowRate = y, !.variableBorrowRate = z]
           liquidity == n.availableLiquidity + n.unbacked
           usage == Oracle!calcExpectedUsageRatios(n.totalStableDebt, n.totalVariableDebt,
                                                   n.availableLiquidity, liquidity)
           b == usage.borrow
           c == usage.supply
           e == Oracle!Concluded(m)
<1>1. e = [n EXCEPT !.totalLiquidity = liquidity, !.borrowUsageRatio = b, !.supplyUsageRatio = c]
  BY DEF Oracle!Concluded, Oracle!RatesOn, Oracle!Rated, Oracle!updateTotalLiquidityAndUsageRatio
<1> HIDE DEF x, y, z, b, c, e
<1>2. DOMAIN m = ReadData
  BY DEF Shows
<1>3. /\ DOMAIN n = ReadData /\ n.unbacked = m.unbacked
      /\ n.accruedToTreasuryScaled = m.accruedToTreasuryScaled
      /\ n.availableLiquidity = m.availableLiquidity
      /\ n.liquidityIndex = m.liquidityIndex /\ n.variableBorrowIndex = m.variableBorrowIndex
      /\ n.scaledVariableDebt = m.scaledVariableDebt
      /\ n.principalStableDebt = m.principalStableDebt
  BY <1>2 DEF ReadData
<1> HIDE DEF n
<1>4. /\ e.unbacked = n.unbacked /\ e.accruedToTreasuryScaled = n.accruedToTreasuryScaled
      /\ e.availableLiquidity = n.availableLiquidity /\ e.totalLiquidity = liquidity
      /\ e.liquidityIndex = n.liquidityIndex /\ e.variableBorrowIndex = n.variableBorrowIndex
      /\ e.scaledVariableDebt = n.scaledVariableDebt
      /\ e.principalStableDebt = n.principalStableDebt
  BY <1>1, <1>3 DEF ReadData
<1> QED
  BY <1>3, <1>4 DEF Shows, Books, BooksOf, e

Foreseen ==
    /\ Books(getReserveData) = Books(ExpectedReserveData)
    /\ TotalKept => token.supply = ExpectedReserveData.principalStableDebt

LEMMA ForeseenWhenBooked ==
    ASSUME ReserveInv, NEW s, DOMAIN s = DOMAIN UpToDateReserve,
           NEW stable, NEW average, reserve' = Rated(s, stable, average),
           NEW e, ExpectedReserveData' = e, Books(e) = BooksOf(s),
           TotalKept' => token'.supply = e.principalStableDebt
    PROVE  Foreseen'
<1>1. UpToDateReserve \in ReserveData
  BY Present DEF RecordInv
<1>2. BooksOf(reserve') = BooksOf(s)
  BY <1>1, RatedBooks
<1>3. Books(getReserveData)' = BooksOf(reserve')
  BY BooksRecordedNext DEF BooksOf
<1>4. Books(ExpectedReserveData)' = Books(e)
  BY DEF Books
<1> QED
  BY <1>2, <1>3, <1>4 DEF Foreseen

LEMMA ForeseenWhenShown ==
    ASSUME ReserveInv, NEW m, NEW s, Shows(m, s), DOMAIN s = DOMAIN UpToDateReserve,
           NEW stable, NEW average, reserve' = Rated(s, stable, average),
           ExpectedReserveData' = Oracle!Concluded(m),
           TotalKept' => token'.supply = m.principalStableDebt
    PROVE  Foreseen'
<1> DEFINE e == Oracle!Concluded(m)
<1>1. Books(e) = BooksOf(s) /\ e.principalStableDebt = m.principalStableDebt
  BY ConcludedBooks
<1>2. ExpectedReserveData' = e
  OBVIOUS
<1> HIDE DEF e
<1> QED
  BY <1>1, <1>2, ForeseenWhenBooked

-----------------------------------------------------------------------------
(* What the reading was of.                                                *)
ReadUserData ==
    {"scaledATokenBalance", "currentATokenBalance", "currentStableDebt", "currentVariableDebt",
     "principalStableDebt", "scaledVariableDebt", "stableBorrowRate", "liquidityRate",
     "usageAsCollateralEnabled", "stableRateLastUpdated", "walletBalance"}

BooksRead ==
    /\ step.phase \in {"read", "sent"} => DOMAIN step.reserveData = ReadData
    /\ step.phase = "read" =>
          /\ Says(step.reserveData)
          /\ reserve.lastUpdateTimestamp <= step.at /\ step.at \in Nat
          /\ \A u \in Users :
                /\ DOMAIN step.userData[u] = ReadUserData
                /\ step.userData[u].scaledATokenBalance = accounts[u].scaledBalance
                /\ step.userData[u].scaledVariableDebt = accounts[u].scaledDebt

LEMMA MinedForesees ==
    ASSUME MarketInv, BooksRead, NEW op, Mined(op), EarnsOnUse'
    PROVE  /\ Foresees(step.reserveData)
           /\ step'.op = op /\ step'.reserveData = step.reserveData /\ step'.at = now
           /\ step'.token = token /\ step'.accounts = accounts
<1>1. /\ step.phase = "read" /\ now > step.at
      /\ step'.op = op /\ step'.reserveData = step.reserveData /\ step'.at = now
      /\ step'.token = token /\ step'.accounts = accounts
  BY DEF Mined
<1>2. Says(step.reserveData) /\ reserve.lastUpdateTimestamp <= step.at /\ step.at \in Nat
  BY <1>1 DEF BooksRead
<1>3. step.reserveData.supplyUsageRatio = 0 => step.reserveData.liquidityRate = 0
  BY <1>1 DEF EarnsOnUse
<1>4. ReserveInv /\ reserve.lastUpdateTimestamp \in Nat /\ now \in Nat
  BY Present, RecordFacts DEF MarketInv, ReserveInv, BooksInv
<1>5. reserve.lastUpdateTimestamp < now
  BY <1>1, <1>2, <1>4
<1> QED
  BY <1>1, <1>2, <1>3, <1>4, <1>5 DEF Foresees

LEMMA UserForesees ==
    ASSUME MarketInv, ReadInv, BooksRead, NEW op, Mined(op), op.u \in Users
    PROVE  /\ UserDataBefore'.scaledATokenBalance = accounts[op.u].scaledBalance
           /\ UserDataBefore'.scaledVariableDebt = accounts[op.u].scaledDebt
           /\ UserDataBefore'.stableBorrowRate = token.userRate[op.u]
           /\ Oracle!StableDebtOf(UserDataBefore', now) = StableBalanceOf(token, op.u)
<1> DEFINE u == op.u
           wallet == step'.userData[WalletOwner'].walletBalance
           before == step.userData[u]
           w == UserDataBefore'
<1>1. step.phase = "read" /\ step'.op = op /\ step'.userData = step.userData
  BY DEF Mined
<1>2. w = [before EXCEPT !.walletBalance = wallet]
  BY <1>1 DEF UserDataBefore
<1> HIDE DEF wallet, w
<1>3. /\ DOMAIN before = ReadUserData
      /\ before.scaledATokenBalance = accounts[u].scaledBalance
      /\ before.scaledVariableDebt = accounts[u].scaledDebt
  BY <1>1 DEF BooksRead
<1>4. /\ before.principalStableDebt = token.principal[u]
      /\ before.stableBorrowRate = token.userRate[u]
      /\ before.stableRateLastUpdated = token.userTimestamp[u]
  BY <1>1 DEF ReadInv, StableBefore
<1> HIDE DEF before
<1>5. /\ w.scaledATokenBalance = before.scaledATokenBalance
      /\ w.scaledVariableDebt = before.scaledVariableDebt
      /\ w.principalStableDebt = before.principalStableDebt
      /\ w.stableBorrowRate = before.stableBorrowRate
      /\ w.stableRateLastUpdated = before.stableRateLastUpdated
  BY <1>2, <1>3 DEF ReadUserData
<1>6. TokenInv(token) /\ Stamped
  BY Present DEF MarketInv, ReadInv
<1>7. Oracle!StableDebtOf(w, now) = StableBalanceOf(token, u)
  BY <1>4, <1>5, <1>6, OracleBalance DEF Oracle!StableDebtOf
<1> QED
  BY <1>3, <1>4, <1>5, <1>7 DEF w

-----------------------------------------------------------------------------
(* The calls, one lemma each.                                              *)

LEMMA DepositForeseen ==
    ASSUME MarketInv, BooksRead, EarnsOnUse', NEW op \in Deposits, Mined(op),
           Deposit(op.user, op.u, op.amount)
    PROVE  Foreseen'
<1> DEFINE amount == op.amount
           d == step.reserveData
           r == UpToDateReserve
           supply == r.scaledSupply + rayDiv(amount, r.liquidityIndex)
           liquidity == r.liquidity + amount
           s == [r EXCEPT !.liquidity = liquidity, !.scaledSupply = supply]
           e == Oracle!updateLiquidityAndUsageRatios(Oracle!updateState(d, now), amount, 0)
           stable == StableTotalSupply(token)
           average == token.avgStableRate
<1>1. /\ Foresees(d) /\ step'.op = op /\ step'.reserveData = d /\ step'.at = now
      /\ op.name = "deposit" /\ amount \in Nat /\ r.liquidity \in Nat /\ r \in ReserveData
  BY MinedForesees, AmountsNat, Present, PresentFacts DEF Deposits, MarketInv, RecordInv
<1>2. reserve' = Rated(s, stable, average) /\ token' = token
  BY DEF Deposit, Supply, OtherCall, Call
<1>3. ExpectedReserveData' = Oracle!Concluded(e)
  BY <1>1 DEF ExpectedReserveData, Oracle!calcExpectedReserveDataAfterDeposit
<1>4. Ready(e, liquidity)
  <2>1. liquidity = r.liquidity + amount - 0
    BY <1>1
  <2> HIDE DEF liquidity, e
  <2> QED
    BY <1>1, <2>1, LiquidityReady DEF e
<1> HIDE DEF supply, liquidity, e, stable, average
<1>5. Shows(e, s) /\ DOMAIN s = DOMAIN r
  BY <1>1, <1>4 DEF Shows, Ready, ReserveData
<1>6. e.principalStableDebt = token.supply
  BY <1>4 DEF Ready
<1> HIDE DEF s
<1> QED
  BY <1>2, <1>3, <1>5, <1>6, ForeseenWhenShown DEF MarketInv

LEMMA WithdrawForeseen ==
    ASSUME MarketInv, ReadInv, BooksRead, EarnsOnUse', NEW op \in Withdrawals, Mined(op),
           WithdrawTo(op.u, op.amount)
    PROVE  Foreseen'
<1> DEFINE u == op.u
           asked == op.amount
           amount == IF asked = MAX_UINT_AMOUNT THEN BalanceOf(u) ELSE asked
           d == step.reserveData
           r == UpToDateReserve
           supply == r.scaledSupply - rayDiv(amount, r.liquidityIndex)
           liquidity == r.liquidity - amount
           s == [r EXCEPT !.liquidity = liquidity, !.scaledSupply = supply]
           e == Oracle!updateLiquidityAndUsageRatios(Oracle!updateState(d, now), 0, amount)
           stable == StableTotalSupply(token)
           average == token.avgStableRate
<1>1. /\ Foresees(d) /\ step'.op = op /\ step'.reserveData = d /\ step'.at = now
      /\ op.name = "withdraw" /\ u \in Users /\ r.liquidity \in Nat /\ r \in ReserveData
  BY MinedForesees, Present, PresentFacts DEF Withdrawals, MarketInv, RecordInv
<1>2. reserve' = Rated(s, stable, average) /\ token' = token
  BY DEF WithdrawTo, Withdraw, OtherCall, Call
<1>3. accounts[u].scaledBalance \in Nat /\ Income \in Nat \ {0}
  BY <1>1, AccountFacts, SameIndices DEF MarketInv, AccountsInv
<1>4. Oracle!calcExpectedATokenBalance(d, UserDataBefore', now) = BalanceOf(u)
  <2>1. UserDataBefore'.scaledATokenBalance = accounts[u].scaledBalance
    BY <1>1, UserForesees
  <2>2. Oracle!calcExpectedReserveNormalizedIncome(d, now) = Income
    BY <1>1, IndicesForeseen DEF Foresees
  <2> QED
    BY <1>3, <2>1, <2>2, OracleArithmetic DEF Oracle!calcExpectedATokenBalance, BalanceOf
<1>5. amount \in Nat
  <2>1. BalanceOf(u) \in Nat
    BY <1>3, RayMulNat DEF BalanceOf
  <2>2. asked \in Nat
    BY AskedNat DEF Withdrawals
  <2> QED
    BY <2>1, <2>2
<1>6. ExpectedReserveData' = Oracle!Concluded(e)
  <2>1. ExpectedReserveData'
          = Oracle!calcExpectedReserveDataAfterWithdraw(asked, d, UserDataBefore', now)
    BY <1>1 DEF ExpectedReserveData
  <2> QED
    BY <1>4, <2>1 DEF Oracle!calcExpectedReserveDataAfterWithdraw
<1> HIDE DEF amount
<1>7. Ready(e, liquidity)
  <2>1. liquidity = r.liquidity + 0 - amount
    BY <1>1, <1>5
  <2> HIDE DEF liquidity, e
  <2> QED
    BY <1>1, <2>1, LiquidityReady DEF e
<1> HIDE DEF supply, liquidity, e, stable, average
<1>8. Shows(e, s) /\ DOMAIN s = DOMAIN r
  BY <1>1, <1>7 DEF Shows, Ready, ReserveData
<1>9. e.principalStableDebt = token.supply
  BY <1>7 DEF Ready
<1> HIDE DEF s
<1> QED
  BY <1>2, <1>6, <1>8, <1>9, ForeseenWhenShown DEF MarketInv

LEMMA MintUnbackedForeseen ==
    ASSUME MarketInv, BooksRead, EarnsOnUse', NEW op \in UnbackedMints, Mined(op),
           MintUnbackedTo(op.u, op.amount)
    PROVE  Foreseen'
<1> DEFINE amount == op.amount
           d == step.reserveData
           r == UpToDateReserve
           supply == r.scaledSupply + rayDiv(amount, r.liquidityIndex)
           unbacked == r.unbacked + amount
           s == [r EXCEPT !.unbacked = unbacked, !.scaledSupply = supply]
           c == Oracle!updateState(d, now)
           b == [c EXCEPT !.unbacked = @ + amount]
           f == Oracle!updateLiquidityAndUsageRatios(b, 0, 0)
           x == Oracle!AverageOverOldTotal(d)
           e == [f EXCEPT !.averageStableBorrowRate = x]
           stable == StableTotalSupply(token)
           average == token.avgStableRate
<1>1. /\ Foresees(d) /\ step'.op = op /\ step'.reserveData = d /\ step'.at = now
      /\ op.name = "mintUnbacked" /\ amount \in Nat /\ r.liquidity \in Nat /\ r \in ReserveData
  BY MinedForesees, AmountsNat, Present, PresentFacts DEF UnbackedMints, MarketInv, RecordInv
<1>2. reserve' = Rated(s, stable, average) /\ token' = token
  BY DEF MintUnbackedTo, MintUnbacked, OtherCall, Call
<1>3. ExpectedReserveData' = Oracle!Concluded(e)
  BY <1>1 DEF ExpectedReserveData, Oracle!calcExpectedReserveDataAfterMintUnbacked
<1>4. Shows(c, r) /\ c.principalStableDebt = token.supply
  BY <1>1, StateForeseen DEF Foresees
<1> HIDE DEF c, supply, stable, average, x
<1>5. Shows(b, s) /\ DOMAIN s = DOMAIN r /\ b.principalStableDebt = token.supply
      /\ s.liquidity = r.liquidity
  BY <1>1, <1>4 DEF Shows, ReserveData, ReadData
<1> HIDE DEF b, s
<1>6. Shows(f, s) /\ f.principalStableDebt = token.supply
  <2>1. s.liquidity + 0 - 0 = s.liquidity
    BY <1>1, <1>5
  <2> QED
    BY <1>5, <2>1, LiquidityAdded DEF Shows
<1> HIDE DEF f
<1>7. Shows(e, s) /\ e.principalStableDebt = token.supply
  BY <1>6 DEF Shows, ReadData
<1> HIDE DEF e
<1> QED
  BY <1>2, <1>3, <1>5, <1>7, ForeseenWhenShown DEF MarketInv

(* The debt in variable mode of the user asked about; nothing is expected  *)
(* of it where nobody owes any.                                            *)
LEMMA DebtForeseen ==
    ASSUME MarketInv, ReadInv, BooksRead, EarnsOnUse', NEW op, Mined(op), op.u \in Users,
           reserve.scaledVariableDebt # 0
    PROVE  /\ VariableDebtOf(op.u) \in Nat
           /\ Oracle!calcExpectedVariableDebtTokenBalance(step.reserveData, UserDataBefore', now)
                = VariableDebtOf(op.u)
<1> DEFINE d == step.reserveData
           w == UserDataBefore'
           index == Oracle!calcExpectedReserveNormalizedDebt(
                        d.variableBorrowRate, d.variableBorrowIndex, d.lastUpdateTimestamp, now)
<1>1. accounts[op.u].scaledDebt \in Nat /\ DebtIndex \in Nat
  BY AccountFacts, SameIndices DEF MarketInv, AccountsInv
<1>2. w.scaledVariableDebt = accounts[op.u].scaledDebt
  BY UserForesees
<1>3. index = DebtIndex
  BY MinedForesees, IndicesForeseen DEF Foresees
<1>4. Oracle!calcExpectedVariableDebtTokenBalance(d, w, now)
        = Oracle!rayMul(w.scaledVariableDebt, index)
  BY DEF Oracle!calcExpectedVariableDebtTokenBalance
<1> QED
  BY <1>1, <1>2, <1>3, <1>4, OracleArithmetic, RayMulNat DEF VariableDebtOf

LEMMA PaybackForeseen ==
    ASSUME NEW asked \in Nat, NEW debt \in Nat, asked = MAX_UINT_AMOUNT \/ asked <= debt
    PROVE  Payback(asked, debt) = IF asked # MAX_UINT_AMOUNT THEN asked ELSE debt
  BY DEF Payback

LEMMA AskedInVariable ==
    ASSUME MarketInv, ReadInv, BooksRead, EarnsOnUse', NEW op \in Repayments,
           op.mode # Oracle!Stable, Mined(op), AskedWithinDebt',
           RepayAtVariable(op.user, op.u, op.amount),
           NEW amount, amount = Payback(op.amount, VariableDebtOf(op.u))
    PROVE  LET debt == Oracle!calcExpectedVariableDebtTokenBalance(step.reserveData,
                                                                   UserDataBefore', now)
           IN  /\ reserve.scaledVariableDebt # 0
               /\ amount \in Nat /\ VariableDebtOf(op.u) \in Nat
               /\ debt = VariableDebtOf(op.u)
               /\ amount = Oracle!Repaid(op.amount, op.mode,
                                         Oracle!StableDebtOf(UserDataBefore', now), debt)
               /\ CallKept(UpToDateReserve)
<1> DEFINE u == op.u
           asked == op.amount
           debt == VariableDebtOf(u)
           d == step.reserveData
           w == UserDataBefore'
           r == UpToDateReserve
<1>1. /\ step'.op = op /\ step'.accounts = accounts /\ op.name = "repay" /\ u \in Users
      /\ asked \in Nat /\ op.user \in Users /\ r.scaledVariableDebt \in Nat
  BY MinedForesees, AskedNat, PresentFacts DEF Repayments, MarketInv
<1>2. RepayVariable(amount) /\ rayDiv(amount, r.variableBorrowIndex) \in 1..r.scaledVariableDebt
  BY DEF RepayAtVariable, RepayVariable
<1>3. reserve.scaledVariableDebt # 0
  <2>1. reserve.scaledVariableDebt = r.scaledVariableDebt
    BY SameIndices DEF MarketInv
  <2> HIDE DEF r
  <2> QED
    BY <1>1, <1>2, <2>1
<1>4. debt \in Nat /\ Oracle!calcExpectedVariableDebtTokenBalance(d, w, now) = debt
  BY <1>1, <1>3, DebtForeseen
<1>5. amount \in Nat
  BY <1>1, <1>4 DEF Payback
<1>6. CallKept(r)
  BY <1>2, <1>5, RepayVariableKeeps DEF MarketInv
<1>7. DebtOf(op)' = debt
  <2>1. DebtIndex' = DebtIndex
    <3>1. MarketKept
      BY <1>1, RepayAtVariableKeeps
    <3> QED
      BY <1>6, <3>1, IndicesStay
  <2> QED
    BY <1>1, <2>1 DEF DebtOf, VariableDebtOf
<1>8. asked = MAX_UINT_AMOUNT \/ asked <= debt
  BY <1>1, <1>7 DEF AskedWithinDebt
<1>9. amount = IF asked # MAX_UINT_AMOUNT THEN asked ELSE debt
  BY <1>1, <1>4, <1>8, PaybackForeseen
<1> HIDE DEF debt
<1>10. amount = Oracle!Repaid(asked, op.mode, Oracle!StableDebtOf(w, now), debt)
  BY <1>9 DEF Oracle!Repaid
<1> QED
  BY <1>3, <1>4, <1>5, <1>6, <1>10 DEF debt

LEMMA RepayVariableForeseen ==
    ASSUME MarketInv, ReadInv, BooksRead, EarnsOnUse', NEW op \in Repayments,
           op.mode # Oracle!Stable, Mined(op), AskedWithinDebt',
           RepayAtVariable(op.user, op.u, op.amount)
    PROVE  Foreseen'
<1> DEFINE u == op.u
           asked == op.amount
           debt == VariableDebtOf(u)
           amount == Payback(asked, debt)
           d == step.reserveData
           w == UserDataBefore'
           r == UpToDateReserve
           owed == r.scaledVariableDebt - rayDiv(amount, r.variableBorrowIndex)
           liquidity == r.liquidity + amount
           s == [r EXCEPT !.liquidity = liquidity, !.scaledVariableDebt = owed]
           f == Oracle!updateLiquidityAndUsageRatios(Oracle!updateState(d, now), amount, 0)
           scaled == d.scaledVariableDebt - Oracle!rayDiv(amount, f.variableBorrowIndex)
           x == Oracle!rayMul(scaled, f.variableBorrowIndex)
           e == [f EXCEPT !.scaledVariableDebt = scaled, !.totalVariableDebt = x]
           stable == StableTotalSupply(token)
           average == token.avgStableRate
<1>1. /\ Foresees(d) /\ step'.op = op /\ step'.reserveData = d /\ step'.at = now
      /\ step'.accounts = accounts /\ op.name = "repay" /\ u \in Users /\ asked \in Nat
      /\ op.user \in Users
      /\ r.liquidity \in Nat /\ r \in ReserveData
      /\ r.variableBorrowIndex \in Nat \ {0} /\ r.scaledVariableDebt \in Nat
  BY MinedForesees, AskedNat, Present, PresentFacts DEF Repayments, MarketInv, RecordInv
<1>2. /\ reserve' = Rated(s, stable, average) /\ token' = token
      /\ rayDiv(amount, r.variableBorrowIndex) \in 1..r.scaledVariableDebt
  BY DEF RepayAtVariable, RepayVariable, OtherCall, Call
<1>3. reserve.scaledVariableDebt # 0 /\ reserve.scaledVariableDebt = r.scaledVariableDebt
  BY AskedInVariable, SameIndices DEF MarketInv
<1>4. /\ debt \in Nat /\ Oracle!calcExpectedVariableDebtTokenBalance(d, w, now) = debt
  BY AskedInVariable
<1>5. amount = Oracle!Repaid(asked, op.mode, Oracle!StableDebtOf(w, now), debt)
      /\ amount \in Nat
  BY <1>4, AskedInVariable
<1>6. ExpectedReserveData' = Oracle!Concluded(e)
  <2>1. ExpectedReserveData' = Oracle!calcExpectedReserveDataAfterRepay(asked, op.mode, d, w, now)
    BY <1>1 DEF ExpectedReserveData
  <2> HIDE DEF amount
  <2> QED
    BY <1>4, <1>5, <2>1
       DEF Oracle!calcExpectedReserveDataAfterRepay, Oracle!RepaidTo, Oracle!WithScaledVariableDebt
<1> HIDE DEF amount, debt
<1>7. Ready(f, liquidity)
  <2>1. liquidity = r.liquidity + amount - 0
    BY <1>1, <1>5
  <2> HIDE DEF liquidity, f
  <2> QED
    BY <1>1, <2>1, LiquidityReady DEF f
<1>8. scaled = owed
  <2>1. f.variableBorrowIndex = r.variableBorrowIndex /\ d.scaledVariableDebt = r.scaledVariableDebt
    BY <1>1, <1>3, <1>7 DEF Ready, Foresees, Says, Shows
  <2>2. Oracle!rayDiv(amount, r.variableBorrowIndex) = rayDiv(amount, r.variableBorrowIndex)
    BY <1>1, <1>5, OracleArithmetic
  <2> QED
    BY <2>1, <2>2
<1> HIDE DEF scaled, owed, x, liquidity, f, stable, average
<1>9. Shows(e, s) /\ DOMAIN s = DOMAIN r /\ e.principalStableDebt = token.supply
  BY <1>1, <1>7, <1>8 DEF Shows, Ready, ReserveData, ReadData
<1> HIDE DEF s, e
<1> QED
  BY <1>2, <1>6, <1>9, ForeseenWhenShown DEF MarketInv

-----------------------------------------------------------------------------
(* Unless a burn resets the total, what it takes off is less than the      *)
(* total, at rates that weigh less than those carried: the test, which     *)
(* erases a total or an average that is negative, has nothing to erase.    *)
LEMMA RatesWeighed ==
    ASSUME NEW rate \in Nat, NEW amount \in Nat, NEW average \in Nat, NEW total \in Nat,
           rayMul(rate, wadToRay(amount)) < rayMul(average, wadToRay(total))
    PROVE  rate * amount < average * total
<1> DEFINE k == WAD_RAY_RATIO
           p == rate * amount
           q == average * total
<1>1. /\ k \in Nat /\ RAY \in Nat \ {0} /\ HALF_RAY \in Nat
  BY WadInRays, ScaleAssumption, DivBounds DEF HALF_RAY
<1>2. p \in Nat /\ q \in Nat
  BY ProductNat
<1>3. rate * wadToRay(amount) = p * k /\ average * wadToRay(total) = q * k
  <2>1. \A a, b, c \in Nat : a * (b * c) = (a * b) * c
    OBVIOUS
  <2> HIDE DEF k
  <2>2. wadToRay(amount) = amount * k /\ wadToRay(total) = total * k
    BY DEF wadToRay, k
  <2> QED
    BY <1>1, <2>1, <2>2
<1> SUFFICES ASSUME q <= p PROVE FALSE
  BY <1>2
<1> HIDE DEF k, p, q
<1>4. q * k <= p * k /\ q * k \in Nat /\ p * k \in Nat
  BY <1>1, <1>2, ProductMonotone, ProductNat
<1> DEFINE m == q * k
           n == p * k
<1>5. m \in Nat /\ n \in Nat /\ m <= n
  BY <1>4
<1>6. rayMul(rate, wadToRay(amount)) = (n + HALF_RAY) \div RAY
      /\ rayMul(average, wadToRay(total)) = (m + HALF_RAY) \div RAY
  BY <1>3 DEF rayMul
<1> HIDE DEF m, n
<1>7. (m + HALF_RAY) \div RAY <= (n + HALF_RAY) \div RAY
  BY <1>1, <1>5, QuotientMonotone
<1>8. (m + HALF_RAY) \div RAY \in Nat /\ (n + HALF_RAY) \div RAY \in Nat
  BY <1>1, <1>5, DivBounds
<1> QED
  BY <1>6, <1>7, <1>8

LEMMA TotalLeft ==
    ASSUME NEW t, TokenInv(t), NEW u \in Users, NEW amount \in Nat,
           Burned(t, u, amount).supply # 0
    PROVE  /\ amount < StableTotalSupply(t)
           /\ Burned(t, u, amount).supply = StableTotalSupply(t) - amount
           /\ t.userRate[u] * amount < t.avgStableRate * StableTotalSupply(t)
<1> DEFINE previous == StableTotalSupply(t)
           carried == rayMul(t.avgStableRate, wadToRay(previous))
           paid == RateRepaid(t, u, amount)
<1>1. Burned(t, u, amount).supply = SupplyLeft(previous, amount, paid, carried)
  BY DEF Burned, TokenInv, Token
<1>2. previous \in Nat /\ t.userRate[u] \in Nat /\ t.avgStableRate \in Nat
  BY StableTotalNat, TokenFacts
<1>3. paid = rayMul(t.userRate[u], wadToRay(amount))
  BY DEF RateRepaid
<1>4. paid \in Nat /\ carried \in Nat
  <2>1. wadToRay(amount) \in Nat /\ wadToRay(previous) \in Nat
    BY <1>2, WadToRay
  <2> QED
    BY <1>2, <1>3, <2>1, RayMulNat
<1> HIDE DEF previous, carried, paid
<1>5. ~(previous <= amount \/ paid >= carried)
      /\ SupplyLeft(previous, amount, paid, carried) = previous - amount
  BY <1>1 DEF SupplyLeft
<1>6. paid < carried /\ amount < previous
  BY <1>2, <1>4, <1>5
<1> QED
  BY <1>1, <1>2, <1>3, <1>5, <1>6, RatesWeighed DEF previous, carried

LEMMA AverageKept ==
    ASSUME NEW t, TokenInv(t), NEW u \in Users, NEW amount \in Nat,
           Burned(t, u, amount).supply # 0
    PROVE  Oracle!calcExpectedAverageStableBorrowRate(
               t.avgStableRate, StableTotalSupply(t), -amount, t.userRate[u]) \in Nat
<1> DEFINE total == StableTotalSupply(t)
           p == t.userRate[u] * amount
           q == t.avgStableRate * total
           average == Oracle!calcExpectedAverageStableBorrowRate(
                          t.avgStableRate, total, -amount, t.userRate[u])
           left == total - amount
<1>1. /\ total \in Nat /\ t.userRate[u] \in Nat /\ t.avgStableRate \in Nat
  BY StableTotalNat, TokenFacts
<1>2. p < q /\ amount < total
  BY TotalLeft
<1>3. p \in Nat /\ q \in Nat
  BY <1>1, ProductNat
<1>4. t.userRate[u] * (-amount) = -p
  BY <1>1
<1>5. average = IF total + (-amount) = 0 THEN 0 ELSE Oracle!div(q + (-p), total + (-amount))
  BY <1>4 DEF Oracle!calcExpectedAverageStableBorrowRate
<1> HIDE DEF total, p, q, average
<1>6. left \in Nat \ {0} /\ total + (-amount) = left /\ q + (-p) \in Nat
  BY <1>1, <1>2, <1>3
<1> HIDE DEF left
<1>7. average = (q + (-p)) \div left
  BY <1>5, <1>6, OracleArithmetic
<1>8. average \in Nat
  BY <1>6, <1>7, DivBounds
<1> QED
  BY <1>8 DEF total, average

LEMMA AskedInStable ==
    ASSUME MarketInv, ReadInv, BooksRead, EarnsOnUse', NEW op \in Repayments,
           op.mode = Oracle!Stable, Mined(op), AskedWithinDebt',
           RepayAtStable(op.user, op.u, op.amount),
           NEW amount, amount = Payback(op.amount, StableBalanceOf(token, op.u)),
           NEW variableDebt
    PROVE  /\ amount \in Nat /\ StableBalanceOf(token, op.u) \in Nat
           /\ amount = Oracle!Repaid(op.amount, op.mode, StableBalanceOf(token, op.u),
                                     variableDebt)
<1> DEFINE u == op.u
           asked == op.amount
           debt == StableBalanceOf(token, u)
<1>1. /\ step'.op = op /\ step'.token = token /\ op.name = "repay" /\ u \in Users
      /\ asked \in Nat /\ op.user \in Users
  BY MinedForesees, AskedNat DEF Repayments
<1>2. debt \in Nat
  BY <1>1, MarketFacts
<1>3. DebtOf(op)' = debt
  <2>1. now' = now
    BY <1>1, RepayAtStableKeeps DEF MarketKept
  <2> QED
    BY <1>1, <2>1 DEF DebtOf, StableBalanceOf
<1>4. asked = MAX_UINT_AMOUNT \/ asked <= debt
  BY <1>1, <1>3 DEF AskedWithinDebt
<1>5. amount = IF asked # MAX_UINT_AMOUNT THEN asked ELSE debt
  BY <1>1, <1>2, <1>4, PaybackForeseen
<1> HIDE DEF debt
<1>6. amount \in Nat /\ amount = Oracle!Repaid(asked, op.mode, debt, variableDebt)
  BY <1>1, <1>2, <1>5 DEF Oracle!Repaid
<1> QED
  BY <1>2, <1>6 DEF debt

LEMMA RepayStableForeseen ==
    ASSUME MarketInv, ReadInv, BooksRead, EarnsOnUse', NEW op \in Repayments,
           op.mode = Oracle!Stable, Mined(op), AskedWithinDebt',
           RepayAtStable(op.user, op.u, op.amount)
    PROVE  Foreseen'
<1> DEFINE u == op.u
           asked == op.amount
           debt == StableBalanceOf(token, u)
           amount == Payback(asked, debt)
           t == Burned(token, u, amount)
           d == step.reserveData
           w == UserDataBefore'
           variableDebt == Oracle!calcExpectedVariableDebtTokenBalance(d, w, now)
           r == UpToDateReserve
           liquidity == r.liquidity + amount
           s == [r EXCEPT !.liquidity = liquidity]
           f == Oracle!updateLiquidityAndUsageRatios(Oracle!updateState(d, now), amount, 0)
           total == StableTotalSupply(token)
           mean == Oracle!calcExpectedAverageStableBorrowRate(token.avgStableRate, total, -amount,
                                                              token.userRate[u])
           e == Oracle!StableDebtLeft(f, total - amount, mean)
           stable == t.reported.supply
           average == t.reported.avgStableRate
<1>1. /\ Foresees(d) /\ step'.op = op /\ step'.reserveData = d /\ step'.at = now
      /\ step'.token = token /\ op.name = "repay" /\ u \in Users /\ asked \in Nat
      /\ op.user \in Users /\ TokenInv(token)
      /\ r.liquidity \in Nat /\ r \in ReserveData
  BY MinedForesees, AskedNat, Present, PresentFacts DEF Repayments, MarketInv, RecordInv
<1>2. reserve' = Rated(s, stable, average) /\ token' = t
  BY DEF RepayAtStable, RepayStable, StableCall, Call
<1>3. /\ w.stableBorrowRate = token.userRate[u] /\ Oracle!StableDebtOf(w, now) = debt
      /\ debt \in Nat
  BY <1>1, UserForesees, StableBalanceNat
<1>4. amount = Oracle!Repaid(asked, op.mode, debt, variableDebt) /\ amount \in Nat
  BY AskedInStable
<1> HIDE DEF amount, debt, variableDebt
<1>5. Ready(f, liquidity)
  <2>1. liquidity = r.liquidity + amount - 0
    BY <1>1, <1>4
  <2> HIDE DEF liquidity, f
  <2> QED
    BY <1>1, <2>1, LiquidityReady DEF f
<1>6. ExpectedReserveData' = Oracle!Concluded(e)
  <2>1. ExpectedReserveData' = Oracle!calcExpectedReserveDataAfterRepay(asked, op.mode, d, w, now)
    BY <1>1 DEF ExpectedReserveData
  <2>2. Oracle!TotalStableDebtAt(d, now) = total
    BY <1>1, TotalForeseen DEF Foresees
  <2>3. Oracle!calcExpectedReserveDataAfterRepay(asked, op.mode, d, w, now)
          = Oracle!Concluded(Oracle!WithoutStableDebt(f, total, amount, token.userRate[u]))
    <3> HIDE DEF total
    <3> QED
      BY <1>3, <1>4, <2>2
         DEF Oracle!calcExpectedReserveDataAfterRepay, Oracle!RepaidTo, variableDebt
  <2>4. f.averageStableBorrowRate = token.avgStableRate
    BY <1>5 DEF Ready
  <2> QED
    BY <2>1, <2>3, <2>4 DEF Oracle!WithoutStableDebt
<1> HIDE DEF liquidity, f, mean, stable, average
<1>7. Shows(e, s) /\ DOMAIN s = DOMAIN r
  <2> DEFINE erased == total - amount < 0 \/ mean < 0
             x == IF erased THEN 0 ELSE total - amount
             y == IF erased THEN 0 ELSE mean
  <2>1. e = [f EXCEPT !.principalStableDebt = x, !.totalStableDebt = x,
                      !.averageStableBorrowRate = y]
    BY DEF Oracle!StableDebtLeft
  <2> HIDE DEF x, y, e
  <2> QED
    BY <1>1, <1>5, <2>1 DEF Shows, Ready, ReserveData, ReadData
<1>8. ASSUME TotalKept' PROVE token'.supply = e.principalStableDebt
  <2>1. t.supply # 0
    BY <1>2, <1>8 DEF TotalKept
  <2>2. t.supply = total - amount
    BY <1>1, <1>4, <2>1, TotalLeft
  <2>3. mean \in Nat
    BY <1>1, <1>4, <2>1, AverageKept DEF mean
  <2>4. total - amount \in Nat
    BY <1>1, <1>4, <2>1, TotalLeft, StableTotalNat
  <2> HIDE DEF t, total
  <2>5. ~(total - amount < 0 \/ mean < 0)
    BY <2>3, <2>4
  <2>6. e = [f EXCEPT !.principalStableDebt = total - amount, !.totalStableDebt = total - amount,
                      !.averageStableBorrowRate = mean]
    BY <2>5 DEF Oracle!StableDebtLeft
  <2> HIDE DEF e
  <2>7. e.principalStableDebt = total - amount
    BY <1>5, <2>6 DEF Ready, ReadData
  <2> QED
    BY <1>2, <2>2, <2>7
<1> HIDE DEF s, e
<1> QED
  BY <1>2, <1>6, <1>7, <1>8, ForeseenWhenShown DEF MarketInv

LEMMA SwapFromStableForeseen ==
    ASSUME MarketInv, ReadInv, BooksRead, EarnsOnUse', NEW op \in Swaps,
           op.mode = Oracle!Stable, Mined(op), SwapFromStable(op.u)
    PROVE  Foreseen'
<1> DEFINE u == op.u
           debt == StableBalanceOf(token, u)
           t == Burned(token, u, debt)
           d == step.reserveData
           w == UserDataBefore'
           r == UpToDateReserve
           owed == r.scaledVariableDebt + rayDiv(debt, r.variableBorrowIndex)
           s == [r EXCEPT !.scaledVariableDebt = owed]
           f == Oracle!updateLiquidityAndUsageRatios(Oracle!updateState(d, now), 0, 0)
           total == StableTotalSupply(token)
           mean == Oracle!calcExpectedAverageStableBorrowRate(f.averageStableBorrowRate, total,
                                                              -debt, token.userRate[u])
           g == [f EXCEPT !.principalStableDebt = total - debt, !.totalStableDebt = total - debt,
                          !.averageStableBorrowRate = mean]
           scaled == f.scaledVariableDebt + Oracle!rayDiv(debt, f.variableBorrowIndex)
           x == Oracle!rayMul(scaled, g.variableBorrowIndex)
           e == [g EXCEPT !.scaledVariableDebt = scaled, !.totalVariableDebt = x]
           stable == t.reported.supply
           average == t.reported.avgStableRate
<1>1. /\ Foresees(d) /\ step'.op = op /\ step'.reserveData = d /\ step'.at = now
      /\ op.name = "swapBorrowRateMode" /\ u \in Users /\ TokenInv(token)
      /\ r.liquidity \in Nat /\ r \in ReserveData
      /\ r.variableBorrowIndex \in Nat \ {0} /\ r.scaledVariableDebt \in Nat
  BY MinedForesees, Present, PresentFacts DEF Swaps, MarketInv, RecordInv
<1>2. reserve' = Rated(s, stable, average) /\ token' = t
  BY DEF SwapFromStable, SwapToVariable, StableCall, Call
<1>3. /\ w.stableBorrowRate = token.userRate[u] /\ Oracle!StableDebtOf(w, now) = debt
      /\ debt \in Nat
  BY <1>1, UserForesees, StableBalanceNat
<1> HIDE DEF debt
<1>4. Ready(f, r.liquidity)
  <2>1. r.liquidity = r.liquidity + 0 - 0
    BY <1>1
  <2> HIDE DEF f
  <2> QED
    BY <1>1, <2>1, LiquidityReady DEF f
<1>5. ExpectedReserveData' = Oracle!Concluded(e)
  <2>1. ExpectedReserveData' = Oracle!calcExpectedReserveDataAfterSwapRateMode(d, w, op.mode, now)
    BY <1>1 DEF ExpectedReserveData
  <2>2. f.totalStableDebt = total
    BY <1>4 DEF Ready
  <2>3. Oracle!calcExpectedReserveDataAfterSwapRateMode(d, w, op.mode, now)
          = Oracle!Concluded(Oracle!SwappedToVariable(f, debt, token.userRate[u]))
    BY <1>3 DEF Oracle!calcExpectedReserveDataAfterSwapRateMode
  <2> HIDE DEF f, total
  <2> QED
    BY <2>1, <2>2, <2>3 DEF Oracle!SwappedToVariable, Oracle!WithScaledVariableDebt
<1>6. scaled = owed
  <2>1. f.variableBorrowIndex = r.variableBorrowIndex /\ f.scaledVariableDebt = r.scaledVariableDebt
    BY <1>4 DEF Ready
  <2>2. Oracle!rayDiv(debt, r.variableBorrowIndex) = rayDiv(debt, r.variableBorrowIndex)
    BY <1>1, <1>3, OracleArithmetic
  <2> QED
    BY <2>1, <2>2
<1> HIDE DEF scaled, owed, x, f, mean, stable, average, total
<1>7. Shows(g, r) /\ g.principalStableDebt = total - debt
  BY <1>4 DEF Shows, Ready, ReadData
<1> HIDE DEF g
<1>8. Shows(e, s) /\ DOMAIN s = DOMAIN r /\ e.principalStableDebt = total - debt
  BY <1>1, <1>6, <1>7 DEF Shows, ReserveData, ReadData
<1>9. ASSUME TotalKept' PROVE token'.supply = e.principalStableDebt
  <2>1. t.supply # 0
    BY <1>2, <1>9 DEF TotalKept
  <2>2. t.supply = total - debt
    BY <1>1, <1>3, <2>1, TotalLeft DEF total
  <2> QED
    BY <1>2, <1>8, <2>2
<1> HIDE DEF s, e
<1> QED
  BY <1>2, <1>5, <1>8, <1>9, ForeseenWhenShown DEF MarketInv

LEMMA MintedTotal ==
    ASSUME NEW t, TokenInv(t), NEW u, NEW amount, NEW rate
    PROVE  Minted(t, u, amount, rate).supply = StableTotalSupply(t) + amount
  BY DEF Minted, TokenInv, Token

LEMMA SwapFromVariableForeseen ==
    ASSUME MarketInv, ReadInv, BooksRead, EarnsOnUse', NEW op \in Swaps,
           op.mode # Oracle!Stable, Mined(op), SwapFromVariable(op.u)
    PROVE  Foreseen'
<1> DEFINE u == op.u
           debt == VariableDebtOf(u)
           d == step.reserveData
           w == UserDataBefore'
           r == UpToDateReserve
           t == Minted(token, u, debt, r.currentStableBorrowRate)
           owed == r.scaledVariableDebt - rayDiv(debt, r.variableBorrowIndex)
           s == [r EXCEPT !.scaledVariableDebt = owed]
           f == Oracle!updateLiquidityAndUsageRatios(Oracle!updateState(d, now), 0, 0)
           total == StableTotalSupply(token)
           mean == Oracle!calcExpectedAverageStableBorrowRate(
                       f.averageStableBorrowRate, d.totalStableDebt, debt, d.stableBorrowRate)
           g == [f EXCEPT !.principalStableDebt = total + debt, !.totalStableDebt = total + debt,
                          !.averageStableBorrowRate = mean]
           scaled == f.scaledVariableDebt - Oracle!rayDiv(debt, f.variableBorrowIndex)
           x == Oracle!rayMul(scaled, g.variableBorrowIndex)
           e == [g EXCEPT !.scaledVariableDebt = scaled, !.totalVariableDebt = x]
           stable == t.reported.supply
           average == t.reported.avgStableRate
<1>1. /\ Foresees(d) /\ step'.op = op /\ step'.reserveData = d /\ step'.at = now
      /\ op.name = "swapBorrowRateMode" /\ u \in Users /\ TokenInv(token)
      /\ r.liquidity \in Nat /\ r \in ReserveData
      /\ r.variableBorrowIndex \in Nat \ {0} /\ r.scaledVariableDebt \in Nat
  BY MinedForesees, Present, PresentFacts DEF Swaps, MarketInv, RecordInv
<1>2. /\ reserve' = Rated(s, stable, average) /\ token' = t
      /\ rayDiv(debt, r.variableBorrowIndex) \in 1..r.scaledVariableDebt
  BY DEF SwapFromVariable, SwapToStable, StableCall, Call
<1>3. reserve.scaledVariableDebt # 0
  <2>1. reserve.scaledVariableDebt = r.scaledVariableDebt
    BY SameIndices DEF MarketInv
  <2> HIDE DEF debt, r
  <2> QED
    BY <1>1, <1>2, <2>1
<1>4. debt \in Nat /\ Oracle!calcExpectedVariableDebtTokenBalance(d, w, now) = debt
  BY <1>1, <1>3, DebtForeseen
<1> HIDE DEF debt
<1>5. Ready(f, r.liquidity)
  <2>1. r.liquidity = r.liquidity + 0 - 0
    BY <1>1
  <2> HIDE DEF f
  <2> QED
    BY <1>1, <2>1, LiquidityReady DEF f
<1>6. ExpectedReserveData' = Oracle!Concluded(e)
  <2>1. ExpectedReserveData' = Oracle!calcExpectedReserveDataAfterSwapRateMode(d, w, op.mode, now)
    BY <1>1 DEF ExpectedReserveData
  <2>2. f.totalStableDebt = total
    BY <1>5 DEF Ready
  <2>3. Oracle!calcExpectedReserveDataAfterSwapRateMode(d, w, op.mode, now)
          = Oracle!Concluded(Oracle!SwappedToStable(f, debt, d))
    BY <1>4 DEF Oracle!calcExpectedReserveDataAfterSwapRateMode
  <2> HIDE DEF f, total
  <2> QED
    BY <2>1, <2>2, <2>3 DEF Oracle!SwappedToStable, Oracle!WithScaledVariableDebt
<1>7. scaled = owed
  <2>1. f.variableBorrowIndex = r.variableBorrowIndex /\ f.scaledVariableDebt = r.scaledVariableDebt
    BY <1>5 DEF Ready
  <2>2. Oracle!rayDiv(debt, r.variableBorrowIndex) = rayDiv(debt, r.variableBorrowIndex)
    BY <1>1, <1>4, OracleArithmetic
  <2> QED
    BY <2>1, <2>2
<1> HIDE DEF scaled, owed, x, f, mean, stable, average, total
<1>8. Shows(g, r) /\ g.principalStableDebt = total + debt
  BY <1>5 DEF Shows, Ready, ReadData
<1> HIDE DEF g
<1>9. Shows(e, s) /\ DOMAIN s = DOMAIN r /\ e.principalStableDebt = total + debt
  BY <1>1, <1>7, <1>8 DEF Shows, ReserveData, ReadData
<1>10. t.supply = total + debt
  BY <1>1, MintedTotal DEF total
<1> HIDE DEF s, e, t
<1> QED
  BY <1>2, <1>6, <1>9, <1>10, ForeseenWhenShown DEF MarketInv

LEMMA BurnedAfter ==
    ASSUME now' = now, NEW t, step'.token = t, NEW u, step'.op.u = u,
           step'.op.name = "rebalanceStableBorrowRate", TotalKept'
    PROVE  Burned(t, u, StableBalanceOf(t, u)).supply # 0
<1>1. StableBalanceOf(step.token, step.op.u)' = StableBalanceOf(t, u)
  BY DEF StableBalanceOf
<1>2. Burned(step.token, step.op.u, StableBalanceOf(step.token, step.op.u))'
        = Burned(t, u, StableBalanceOf(t, u))
  BY <1>1 DEF Burned, StableTotalSupply, StableBalanceOf, RateRepaid, PrincipalLeft
<1>3. Burned(step.token, step.op.u, StableBalanceOf(step.token, step.op.u))'.supply # 0
  BY DEF TotalKept
<1> QED
  BY <1>2, <1>3

LEMMA RebalanceForeseen ==
    ASSUME MarketInv, ReadInv, BooksRead, EarnsOnUse', NEW op \in Rebalances, Mined(op),
           RebalanceRate(op.u)
    PROVE  Foreseen'
<1> DEFINE u == op.u
           debt == StableBalanceOf(token, u)
           d == step.reserveData
           w == UserDataBefore'
           s == UpToDateReserve
           b == Burned(token, u, debt)
           t == Minted(b, u, debt, s.currentStableBorrowRate)
           f == Oracle!updateLiquidityAndUsageRatios(Oracle!updateState(d, now), 0, 0)
           total == StableTotalSupply(token)
           mean == Oracle!RebalancedAverage(d, total, Oracle!StableDebtOf(w, now),
                                            w.stableBorrowRate)
           e == [f EXCEPT !.principalStableDebt = total, !.totalStableDebt = total,
                          !.averageStableBorrowRate = mean]
           stable == t.reported.supply
           average == t.reported.avgStableRate
<1>1. /\ Foresees(d) /\ step'.op = op /\ step'.reserveData = d /\ step'.at = now
      /\ step'.token = token /\ op.name = "rebalanceStableBorrowRate" /\ u \in Users
      /\ TokenInv(token) /\ s.liquidity \in Nat /\ s \in ReserveData
  BY MinedForesees, Present, PresentFacts DEF Rebalances, MarketInv, RecordInv
<1>2. reserve' = Rated(s, stable, average) /\ token' = t
  BY DEF RebalanceRate, RebalanceStableBorrowRate, StableCall, Call
<1>3. debt \in Nat /\ debt \in 0..debt
  BY <1>1, StableBalanceNat
<1>4. ExpectedReserveData' = Oracle!Concluded(e)
  <2>1. ExpectedReserveData' = Oracle!calcExpectedReserveDataAfterStableRateRebalance(d, w, now)
    BY <1>1 DEF ExpectedReserveData
  <2>2. Oracle!TotalStableDebtAt(d, now) = total
    BY <1>1, TotalForeseen DEF Foresees
  <2> HIDE DEF total
  <2> QED
    BY <2>1, <2>2 DEF Oracle!calcExpectedReserveDataAfterStableRateRebalance
<1>5. Ready(f, s.liquidity)
  <2>1. s.liquidity = s.liquidity + 0 - 0
    BY <1>1
  <2> HIDE DEF f
  <2> QED
    BY <1>1, <2>1, LiquidityReady DEF f
<1> HIDE DEF f, mean, stable, average
<1>6. Shows(e, s) /\ e.principalStableDebt = total
  BY <1>5 DEF Shows, Ready, ReadData
<1>7. ASSUME TotalKept' PROVE token'.supply = e.principalStableDebt
  <2>1. now' = now
    BY <1>1, RebalanceRateKeeps DEF MarketKept
  <2>2. b.supply # 0
    BY <1>1, <1>7, <2>1, BurnedAfter
  <2>3. b.supply = total - debt
    BY <1>1, <1>3, <2>2, TotalLeft
  <2>4. TokenInv(b)
    BY <1>1, <1>3, BurnedType
  <2>5. StableTotalSupply(b) = b.supply
    BY <1>1, <1>3, BurnedTouches DEF Touched
  <2>6. t.supply = StableTotalSupply(b) + debt
    BY <2>4, MintedTotal
  <2>7. total \in Nat
    BY <1>1, StableTotalNat
  <2> HIDE DEF t, b, total, debt
  <2>8. t.supply = total
    BY <1>3, <2>3, <2>5, <2>6, <2>7
  <2> QED
    BY <1>2, <1>6, <2>8
<1> HIDE DEF e, t
<1> QED
  BY <1>2, <1>4, <1>6, <1>7, ForeseenWhenShown DEF MarketInv

LEMMA OracleWadToRay ==
    ASSUME NEW a \in Nat
    PROVE  Oracle!wadToRay(a) = wadToRay(a)
<1>1. RAY \in Nat /\ WAD \in Nat \ {0}
  BY ScaleAssumption
<1>2. Oracle!div(RAY, WAD) = WAD_RAY_RATIO
  BY <1>1, OracleArithmetic DEF WAD_RAY_RATIO
<1> QED
  BY <1>2 DEF Oracle!wadToRay, wadToRay

(* The suppliers' part of a bridge's fee raises the test's index as it     *)
(* raises theirs.                                                          *)
LEMMA FeeForeseen ==
    ASSUME NEW r, RecordInv(r), now \in Nat, r.scaledSupply # 0, NEW fee \in Nat,
           NEW c, Shows(c, r)
    PROVE  Oracle!IndexWithFee(fee, r.scaledSupply, c) = CumulatedIndex(r, fee)
<1> DEFINE index == r.liquidityIndex
           scaled == r.scaledSupply
           accrued == r.accruedToTreasury
           supplied == rayMul(scaled, index)
           owed == rayMul(accrued, index)
           claims == supplied + owed
           share == rayDiv(wadToRay(fee), wadToRay(claims))
<1>1. /\ index \in Nat /\ RAY <= index /\ scaled \in Nat /\ accrued \in Nat
      /\ RAY \in Nat /\ scaled # 0
  BY RecordFacts, ScaleAssumption
<1>2. c.liquidityIndex = index /\ c.accruedToTreasuryScaled = accrued
  BY DEF Shows
<1>3. CumulatedIndex(r, fee) = rayMul(share + RAY, index)
  BY DEF CumulatedIndex
<1> HIDE DEF index, scaled, accrued
<1>4. /\ Oracle!rayMul(scaled, index) = supplied /\ Oracle!rayMul(accrued, index) = owed
      /\ supplied \in Nat /\ supplied # 0 /\ owed \in Nat
  BY <1>1, OracleArithmetic, RayMulNat, RayMulZero
<1> HIDE DEF supplied, owed
<1>5. claims \in Nat /\ claims # 0
  BY <1>4
<1>6. Oracle!IndexWithFee(fee, scaled, c)
        = Oracle!rayMul(Oracle!rayDiv(Oracle!wadToRay(fee), Oracle!wadToRay(claims)) + RAY, index)
  BY <1>2, <1>4 DEF Oracle!IndexWithFee
<1> HIDE DEF claims
<1>7. /\ Oracle!wadToRay(fee) = wadToRay(fee) /\ Oracle!wadToRay(claims) = wadToRay(claims)
      /\ wadToRay(fee) \in Nat /\ wadToRay(claims) \in Nat \ {0}
  BY <1>5, OracleWadToRay, WadToRay
<1>8. Oracle!rayDiv(wadToRay(fee), wadToRay(claims)) = share /\ share \in Nat
  BY <1>7, OracleArithmetic, RayDivNat
<1> HIDE DEF share
<1>9. share + RAY \in Nat
  BY <1>1, <1>8
<1>10. Oracle!rayMul(share + RAY, index) = rayMul(share + RAY, index)
  BY <1>1, <1>9, OracleArithmetic
<1> QED
  BY <1>3, <1>6, <1>7, <1>8, <1>10 DEF scaled

LEMMA BackUnbackedForeseen ==
    ASSUME MarketInv, BooksRead, EarnsOnUse', NEW op \in Backings, Mined(op),
           BackUnbacked(op.amount, op.fee)
    PROVE  Foreseen'
<1> DEFINE amount == op.amount
           fee == op.fee
           d == step.reserveData
           r == UpToDateReserve
           backing == IF amount < r.unbacked THEN amount ELSE r.unbacked
           toProtocol == percentMul(fee, bridgeProtocolFee)
           index == CumulatedIndex(r, fee - toProtocol)
           treasury == r.accruedToTreasury + rayDiv(toProtocol, index)
           unbacked == r.unbacked - backing
           liquidity == r.liquidity + backing + fee
           s == [r EXCEPT !.liquidityIndex = index, !.accruedToTreasury = treasury,
                          !.unbacked = unbacked, !.liquidity = liquidity]
           c == Oracle!updateState(d, now)
           accrued == c.accruedToTreasuryScaled + Oracle!rayDiv(toProtocol, index)
           left == c.unbacked - backing
           b == [c EXCEPT !.liquidityIndex = index, !.accruedToTreasuryScaled = accrued,
                          !.unbacked = left]
           f == Oracle!updateLiquidityAndUsageRatios(b, backing + fee, 0)
           x == Oracle!AverageOverOldTotal(d)
           e == [f EXCEPT !.averageStableBorrowRate = x]
           stable == StableTotalSupply(token)
           average == token.avgStableRate
<1>1. /\ Foresees(d) /\ step'.op = op /\ step'.reserveData = d /\ step'.at = now
      /\ op.name = "backUnbacked" /\ amount \in Nat /\ fee \in Nat
      /\ r.liquidity \in Nat /\ r.unbacked \in Nat /\ r \in ReserveData /\ RecordInv(r)
      /\ now \in Nat /\ RAY \in Nat \ {0}
  BY MinedForesees, AmountsNat, Present, PresentFacts, MarketAssumption, ScaleAssumption
     DEF Backings, MarketInv, RecordInv
<1>2. reserve' = Rated(s, stable, average) /\ token' = token /\ r.scaledSupply # 0
  BY DEF BackUnbacked, OtherCall, Call
<1>3. reserve'.scaledSupply = r.scaledSupply
  BY <1>1, BackUnbackedLeaves, SameIndices DEF Leaves, MarketInv
<1>4. Shows(c, r) /\ c.principalStableDebt = token.supply
  BY <1>1, StateForeseen DEF Foresees
<1>5. /\ Oracle!percentMul(fee, bridgeProtocolFee) = toProtocol
      /\ toProtocol \in Nat /\ fee - toProtocol \in Nat
  <2>1. bridgeProtocolFee \in Nat
    BY MarketAssumption, ScaleAssumption
  <2>2. toProtocol \in Nat /\ toProtocol <= fee
    BY <1>1, PercentMulBounded, MarketAssumption
  <2> HIDE DEF toProtocol
  <2>3. fee - toProtocol \in Nat
    BY <1>1, <2>2
  <2> QED
    BY <1>1, <2>1, <2>2, <2>3, OraclePercent DEF toProtocol
<1> HIDE DEF toProtocol
<1>6. /\ Oracle!IndexWithFee(fee - toProtocol, r.scaledSupply, c) = index
      /\ index \in Nat \ {0}
  <2>1. index \in Nat /\ r.liquidityIndex <= index
    BY <1>1, <1>2, <1>5, CumulatedGrows
  <2>2. r.liquidityIndex \in Nat \ {0}
    BY <1>1, RecordFacts
  <2> HIDE DEF c, index
  <2>3. index \in Nat \ {0}
    BY <2>1, <2>2
  <2> QED
    BY <1>1, <1>2, <1>4, <1>5, <2>3, FeeForeseen DEF index
<1>7. ExpectedReserveData' = Oracle!Concluded(e)
  <2>1. ExpectedReserveData'
          = Oracle!calcExpectedReserveDataAfterBackUnbacked(r.scaledSupply, amount, fee,
                                                            bridgeProtocolFee, d, now)
    BY <1>1, <1>3 DEF ExpectedReserveData
  <2>2. d.unbacked = r.unbacked
    <3>1. c.unbacked = d.unbacked
      <4>1. reserve \in ReserveData
        BY <1>1 DEF Foresees, ReserveInv, BooksInv, RecordInv
      <4>2. r.unbacked = reserve.unbacked
        BY <4>1 DEF UpToDateReserve, UpToDate, ReserveData
      <4> QED
        BY <1>1, <1>4, <4>2 DEF Foresees, Says, Shows
    <3> QED
      BY <1>4, <3>1 DEF Shows
  <2> HIDE DEF c, index, r
  <2> QED
    BY <1>5, <1>6, <2>1, <2>2
       DEF Oracle!calcExpectedReserveDataAfterBackUnbacked, Oracle!BackedTo, c
<1> HIDE DEF c, index, x, stable, average
<1>8. accrued = treasury /\ left = unbacked
  BY <1>4, <1>5, <1>6, OracleArithmetic DEF Shows
<1>9. backing \in Nat
  BY <1>1
<1> HIDE DEF accrued, treasury, left, unbacked, backing
<1> DEFINE q == [r EXCEPT !.liquidityIndex = index, !.accruedToTreasury = treasury,
                          !.unbacked = unbacked]
<1>10. Shows(b, q) /\ b.principalStableDebt = token.supply /\ q.liquidity = r.liquidity
       /\ q.unbacked = s.unbacked /\ q.accruedToTreasury = s.accruedToTreasury
       /\ q.liquidityIndex = s.liquidityIndex /\ q.variableBorrowIndex = s.variableBorrowIndex
       /\ q.scaledVariableDebt = s.scaledVariableDebt /\ s.liquidity = liquidity
       /\ DOMAIN s = DOMAIN r
  BY <1>1, <1>4, <1>8 DEF Shows, ReserveData, ReadData
<1> HIDE DEF b, q, s
<1>11. Shows(f, s) /\ f.principalStableDebt = token.supply
  <2>1. r.liquidity + (backing + fee) - 0 = liquidity
    BY <1>1, <1>9
  <2> HIDE DEF liquidity
  <2> QED
    BY <1>10, <2>1, LiquidityAdded DEF Shows
<1> HIDE DEF f
<1>12. Shows(e, s) /\ e.principalStableDebt = token.supply
  BY <1>11 DEF Shows, ReadData
<1> HIDE DEF e
<1> QED
  BY <1>2, <1>7, <1>10, <1>12, ForeseenWhenShown DEF MarketInv

(* After a borrow the debts are read again, however much later; the books  *)
(* are those of the transaction.                                           *)
LEMMA ReadAgainBooks ==
    ASSUME NEW m, NEW s, Shows(m, s), NEW since, NEW at, NEW current,
           NEW e, e = Oracle!updateTotalLiquidityAndUsageRatio(
                          Oracle!DebtsReadAt(m, since, at, current))
    PROVE  Books(e) = BooksOf(s) /\ e.principalStableDebt = m.principalStableDebt
<1> DEFINE x == Oracle!calcExpectedTotalStableDebt(
                    m.principalStableDebt, m.averageStableBorrowRate, since, current)
           y == Oracle!rayMul(m.scaledVariableDebt,
                              Oracle!calcExpectedReserveNormalizedDebt(
                                  m.variableBorrowRate, m.variableBorrowIndex, at, current))
           n == [m EXCEPT !.totalStableDebt = x, !.totalVariableDebt = y]
           liquidity == n.availableLiquidity + n.unbacked
           usage == Oracle!calcExpectedUsageRatios(n.totalStableDebt, n.totalVariableDebt,
                                                   n.availableLiquidity, liquidity)
           b == usage.borrow
           c == usage.supply
<1>1. e = [n EXCEPT !.totalLiquidity = liquidity, !.borrowUsageRatio = b, !.supplyUsageRatio = c]
  BY DEF Oracle!updateTotalLiquidityAndUsageRatio, Oracle!DebtsReadAt
<1> HIDE DEF x, y, b, c
<1>2. DOMAIN m = ReadData
  BY DEF Shows
<1>3. /\ DOMAIN n = ReadData /\ n.unbacked = m.unbacked
      /\ n.accruedToTreasuryScaled = m.accruedToTreasuryScaled
      /\ n.availableLiquidity = m.availableLiquidity
      /\ n.liquidityIndex = m.liquidityIndex /\ n.variableBorrowIndex = m.variableBorrowIndex
      /\ n.scaledVariableDebt = m.scaledVariableDebt
      /\ n.principalStableDebt = m.principalStableDebt
  BY <1>2 DEF ReadData
<1> HIDE DEF n
<1>4. /\ e.unbacked = n.unbacked /\ e.accruedToTreasuryScaled = n.accruedToTreasuryScaled
      /\ e.availableLiquidity = n.availableLiquidity /\ e.totalLiquidity = liquidity
      /\ e.liquidityIndex = n.liquidityIndex /\ e.variableBorrowIndex = n.variableBorrowIndex
      /\ e.scaledVariableDebt = n.scaledVariableDebt
      /\ e.principalStableDebt = n.principalStableDebt
  BY <1>1, <1>3 DEF ReadData
<1> QED
  BY <1>3, <1>4 DEF Shows, Books, BooksOf

LEMMA RatesShow ==
    ASSUME NEW m, NEW s, Shows(m, s), NEW stable, NEW variable
    PROVE  /\ Shows(Oracle!RatesOn(m, stable, variable), s)
           /\ Oracle!RatesOn(m, stable, variable).principalStableDebt = m.principalStableDebt
<1> DEFINE rates == Oracle!calcExpectedInterestRates(
                        stable, variable, m.averageStableBorrowRate, m.availableLiquidity,
                        m.totalLiquidity)
           x == rates.liquidityRate
           y == rates.stableRate
           z == rates.variableRate
           n == Oracle!RatesOn(m, stable, variable)
<1>1. n = [m EXCEPT !.liquidityRate = x, !.stableBorrowRate = y, !.variableBorrowRate = z]
  BY DEF Oracle!RatesOn, Oracle!Rated
<1> HIDE DEF x, y, z, n
<1>2. Shows(n, s) /\ n.principalStableDebt = m.principalStableDebt
  BY <1>1 DEF Shows, ReadData
<1> QED
  BY <1>2 DEF n

(* What is expected of a borrow before the debts are read again.           *)
BorrowUpdated(amount, d, at) ==
    [Oracle!updateLiquidityAndUsageRatios(Oracle!updateState(d, at), 0, amount)
     EXCEPT !.lastUpdateTimestamp = at]
BorrowRated(amount, mode, d, at) ==
    LET updated == BorrowUpdated(amount, d, at)
        ofTotal == [principalStableDebt |-> d.principalStableDebt,
                    stableBorrowRate |-> d.averageStableBorrowRate,
                    stableRateLastUpdated |-> d.totalStableDebtLastUpdated]
    IN  IF mode = Oracle!Stable
        THEN Oracle!BorrowedAtStable(updated, Oracle!TotalStableDebtAt(d, at), amount,
                                     d.stableBorrowRate)
        ELSE Oracle!BorrowedAtVariable(
                 updated, Oracle!StableDebtOf(ofTotal, at),
                 d.scaledVariableDebt + Oracle!rayDiv(amount, updated.variableBorrowIndex))
StableSince(mode, d, at) == IF mode = Oracle!Stable THEN at ELSE d.totalStableDebtLastUpdated

LEMMA BorrowReadAgain ==
    ASSUME NEW amount, NEW mode, NEW d, NEW at, NEW current
    PROVE  Oracle!calcExpectedReserveDataAfterBorrow(amount, mode, d, at, current)
             = Oracle!updateTotalLiquidityAndUsageRatio(
                   Oracle!DebtsReadAt(BorrowRated(amount, mode, d, at), StableSince(mode, d, at),
                                      at, current))
  BY DEF Oracle!calcExpectedReserveDataAfterBorrow, BorrowRated, BorrowUpdated, StableSince

LEMMA BorrowVariableForeseen ==
    ASSUME MarketInv, BooksRead, EarnsOnUse', NEW op \in Borrows,
           op.mode # Oracle!Stable, Mined(op), BorrowAtVariable(op.user, op.u, op.amount)
    PROVE  Foreseen'
<1> DEFINE amount == op.amount
           d == step.reserveData
           r == UpToDateReserve
           owed == r.scaledVariableDebt + rayDiv(amount, r.variableBorrowIndex)
           liquidity == r.liquidity - amount
           s == [r EXCEPT !.liquidity = liquidity, !.scaledVariableDebt = owed]
           f == Oracle!updateLiquidityAndUsageRatios(Oracle!updateState(d, now), 0, amount)
           g == BorrowUpdated(amount, d, now)
           scaled == d.scaledVariableDebt + Oracle!rayDiv(amount, g.variableBorrowIndex)
           h == [g EXCEPT !.scaledVariableDebt = scaled]
           m == BorrowRated(amount, op.mode, d, now)
           e == ExpectedReserveData'
           stable == StableTotalSupply(token)
           average == token.avgStableRate
<1>1. /\ Foresees(d) /\ step'.op = op /\ step'.reserveData = d /\ step'.at = now
      /\ op.name = "borrow" /\ amount \in Nat /\ r.liquidity \in Nat /\ r \in ReserveData
      /\ r.variableBorrowIndex \in Nat \ {0}
  BY MinedForesees, AmountsNat, Present, PresentFacts DEF Borrows, MarketInv, RecordInv
<1>2. reserve' = Rated(s, stable, average) /\ token' = token
  BY DEF BorrowAtVariable, BorrowVariable, OtherCall, Call
<1>3. Ready(f, liquidity)
  <2>1. liquidity = r.liquidity + 0 - amount
    BY <1>1
  <2> HIDE DEF liquidity, f
  <2> QED
    BY <1>1, <2>1, LiquidityReady DEF f
<1>4. g = [f EXCEPT !.lastUpdateTimestamp = now]
  BY DEF BorrowUpdated
<1>5. \E a, b : m = Oracle!RatesOn(h, a, b)
  <2> DEFINE until == Oracle!StableDebtOf([principalStableDebt |-> d.principalStableDebt,
                                           stableBorrowRate |-> d.averageStableBorrowRate,
                                           stableRateLastUpdated |-> d.totalStableDebtLastUpdated],
                                          now)
  <2>1. m = Oracle!BorrowedAtVariable(g, until, scaled)
    BY DEF BorrowRated
  <2> HIDE DEF until, g, scaled
  <2>2. m = Oracle!RatesOn(h, until, Oracle!rayMul(scaled, g.variableBorrowIndex))
    BY <2>1 DEF Oracle!BorrowedAtVariable
  <2> QED
    BY <2>2
<1>6. e = Oracle!updateTotalLiquidityAndUsageRatio(
              Oracle!DebtsReadAt(m, StableSince(op.mode, d, now), now, now'))
  <2>1. e = Oracle!calcExpectedReserveDataAfterBorrow(amount, op.mode, d, now, now')
    BY <1>1 DEF ExpectedReserveData
  <2> QED
    BY <2>1, BorrowReadAgain
<1> HIDE DEF f, g, h, m, e, liquidity, owed, stable, average
<1>7. /\ DOMAIN g = ReadData /\ g.unbacked = f.unbacked
      /\ g.accruedToTreasuryScaled = f.accruedToTreasuryScaled
      /\ g.availableLiquidity = f.availableLiquidity
      /\ g.liquidityIndex = f.liquidityIndex /\ g.variableBorrowIndex = f.variableBorrowIndex
      /\ g.scaledVariableDebt = f.scaledVariableDebt
      /\ g.principalStableDebt = f.principalStableDebt
  BY <1>3, <1>4 DEF Ready, ReadData
<1>8. scaled = owed
  <2>1. g.variableBorrowIndex = r.variableBorrowIndex /\ d.scaledVariableDebt = r.scaledVariableDebt
    BY <1>1, <1>3, <1>7, SameIndices DEF Ready, Foresees, Says, Shows
  <2>2. Oracle!rayDiv(amount, r.variableBorrowIndex) = rayDiv(amount, r.variableBorrowIndex)
    BY <1>1, OracleArithmetic
  <2> QED
    BY <2>1, <2>2 DEF owed
<1> HIDE DEF scaled
<1>9. Shows(h, s) /\ DOMAIN s = DOMAIN r /\ h.principalStableDebt = token.supply
  BY <1>1, <1>3, <1>7, <1>8 DEF Shows, Ready, ReserveData, ReadData, h
<1> HIDE DEF s
<1>10. Shows(m, s) /\ m.principalStableDebt = token.supply
  BY <1>5, <1>9, RatesShow
<1>11. Books(e) = BooksOf(s) /\ e.principalStableDebt = token.supply
  BY <1>6, <1>10, ReadAgainBooks
<1>12. ExpectedReserveData' = e
  BY DEF e
<1> QED
  BY <1>2, <1>9, <1>11, <1>12, ForeseenWhenBooked DEF MarketInv

LEMMA BorrowStableForeseen ==
    ASSUME MarketInv, BooksRead, EarnsOnUse', NEW op \in Borrows,
           op.mode = Oracle!Stable, Mined(op), BorrowAtStable(op.user, op.u, op.amount)
    PROVE  Foreseen'
<1> DEFINE u == op.u
           amount == op.amount
           d == step.reserveData
           r == UpToDateReserve
           t == Minted(token, u, amount, r.currentStableBorrowRate)
           liquidity == r.liquidity - amount
           s == [r EXCEPT !.liquidity = liquidity]
           f == Oracle!updateLiquidityAndUsageRatios(Oracle!updateState(d, now), 0, amount)
           g == BorrowUpdated(amount, d, now)
           total == StableTotalSupply(token)
           m == BorrowRated(amount, op.mode, d, now)
           e == ExpectedReserveData'
           stable == t.reported.supply
           average == t.reported.avgStableRate
<1>1. /\ Foresees(d) /\ step'.op = op /\ step'.reserveData = d /\ step'.at = now
      /\ op.name = "borrow" /\ amount \in Nat /\ r.liquidity \in Nat /\ r \in ReserveData
      /\ TokenInv(token)
  BY MinedForesees, AmountsNat, Present, PresentFacts DEF Borrows, MarketInv, RecordInv
<1>2. reserve' = Rated(s, stable, average) /\ token' = t
  BY DEF BorrowAtStable, BorrowStable, StableCall, Call
<1>3. Ready(f, liquidity)
  <2>1. liquidity = r.liquidity + 0 - amount
    BY <1>1
  <2> HIDE DEF liquidity, f
  <2> QED
    BY <1>1, <2>1, LiquidityReady DEF f
<1>4. g = [f EXCEPT !.lastUpdateTimestamp = now]
  BY DEF BorrowUpdated
<1>5. \E x, a, b : m = Oracle!RatesOn([g EXCEPT !.principalStableDebt = total + amount,
                                                !.averageStableBorrowRate = x], a, b)
  <2>1. Oracle!TotalStableDebtAt(d, now) = total
    BY <1>1, TotalForeseen DEF Foresees
  <2>2. m = Oracle!BorrowedAtStable(g, total, amount, d.stableBorrowRate)
    BY <2>1 DEF BorrowRated
  <2> HIDE DEF g, total, m
  <2> DEFINE mean == Oracle!calcExpectedAverageStableBorrowRate(
                         g.averageStableBorrowRate, total, amount, d.stableBorrowRate)
  <2>3. m = Oracle!RatesOn([g EXCEPT !.principalStableDebt = total + amount,
                                     !.averageStableBorrowRate = mean],
                           total + amount, g.totalVariableDebt)
    BY <2>2 DEF Oracle!BorrowedAtStable
  <2> QED
    BY <2>3
<1>6. e = Oracle!updateTotalLiquidityAndUsageRatio(
              Oracle!DebtsReadAt(m, StableSince(op.mode, d, now), now, now'))
  <2>1. e = Oracle!calcExpectedReserveDataAfterBorrow(amount, op.mode, d, now, now')
    BY <1>1 DEF ExpectedReserveData
  <2> QED
    BY <2>1, BorrowReadAgain
<1>7. t.supply = total + amount
  BY <1>1, MintedTotal
<1> HIDE DEF f, g, m, e, liquidity, stable, average, total, t
<1>8. /\ DOMAIN g = ReadData /\ g.unbacked = f.unbacked
      /\ g.accruedToTreasuryScaled = f.accruedToTreasuryScaled
      /\ g.availableLiquidity = f.availableLiquidity
      /\ g.liquidityIndex = f.liquidityIndex /\ g.variableBorrowIndex = f.variableBorrowIndex
      /\ g.scaledVariableDebt = f.scaledVariableDebt
  BY <1>3, <1>4 DEF Ready, ReadData
<1>9. ASSUME NEW x
      PROVE  LET h == [g EXCEPT !.principalStableDebt = total + amount,
                                !.averageStableBorrowRate = x]
             IN  Shows(h, s) /\ h.principalStableDebt = total + amount
  BY <1>1, <1>3, <1>8 DEF Shows, Ready, ReserveData, ReadData
<1>10. DOMAIN s = DOMAIN r
  OBVIOUS
<1> HIDE DEF s
<1>11. Shows(m, s) /\ m.principalStableDebt = total + amount
  <2>1. PICK x, a, b : m = Oracle!RatesOn([g EXCEPT !.principalStableDebt = total + amount,
                                                    !.averageStableBorrowRate = x], a, b)
    BY <1>5
  <2> DEFINE h == [g EXCEPT !.principalStableDebt = total + amount,
                            !.averageStableBorrowRate = x]
  <2>2. Shows(h, s) /\ h.principalStableDebt = total + amount
    BY <1>9
  <2>3. m = Oracle!RatesOn(h, a, b)
    BY <2>1
  <2> HIDE DEF h
  <2> QED
    BY <2>2, <2>3, RatesShow
<1>12. Books(e) = BooksOf(s) /\ e.principalStableDebt = total + amount
  BY <1>6, <1>11, ReadAgainBooks
<1>13. ExpectedReserveData' = e
  BY DEF e
<1> QED
  BY <1>2, <1>7, <1>10, <1>12, <1>13, ForeseenWhenBooked DEF MarketInv

(* However late it is read, a borrow is foreseen as it was when mined.     *)
LEMMA BorrowShape ==
    ASSUME NEW amount, NEW mode, NEW d, DOMAIN d = ReadData, NEW at
    PROVE  DOMAIN BorrowRated(amount, mode, d, at) = ReadData
<1> DEFINE c == Oracle!updateState(d, at)
           f == Oracle!updateLiquidityAndUsageRatios(c, 0, amount)
           g == BorrowUpdated(amount, d, at)
           m == BorrowRated(amount, mode, d, at)
<1>1. DOMAIN c = ReadData
  BY DEF Oracle!updateState, Oracle!Accrued
<1> HIDE DEF c
<1>2. DOMAIN f = ReadData
  BY <1>1 DEF Oracle!updateLiquidityAndUsageRatios, Oracle!updateTotalLiquidityAndUsageRatio
<1>3. g = [f EXCEPT !.lastUpdateTimestamp = at]
  BY DEF BorrowUpdated, c
<1> HIDE DEF f, g
<1>4. DOMAIN g = ReadData
  BY <1>2, <1>3
<1>5. ASSUME NEW h, DOMAIN h = ReadData, NEW a, NEW b
      PROVE  DOMAIN Oracle!RatesOn(h, a, b) = ReadData
  BY <1>5 DEF Oracle!RatesOn, Oracle!Rated
<1>6. ASSUME NEW until, NEW rate
      PROVE  DOMAIN Oracle!BorrowedAtStable(g, until, amount, rate) = ReadData
  <2> DEFINE mean == Oracle!calcExpectedAverageStableBorrowRate(
                         g.averageStableBorrowRate, until, amount, rate)
             h == [g EXCEPT !.principalStableDebt = until + amount,
                            !.averageStableBorrowRate = mean]
  <2>1. Oracle!BorrowedAtStable(g, until, amount, rate)
          = Oracle!RatesOn(h, until + amount, g.totalVariableDebt)
    BY DEF Oracle!BorrowedAtStable
  <2>2. DOMAIN h = ReadData
    BY <1>4
  <2> HIDE DEF h
  <2> QED
    BY <1>5, <2>1, <2>2
<1>7. ASSUME NEW until, NEW scaled
      PROVE  DOMAIN Oracle!BorrowedAtVariable(g, until, scaled) = ReadData
  <2> DEFINE h == [g EXCEPT !.scaledVariableDebt = scaled]
  <2>1. Oracle!BorrowedAtVariable(g, until, scaled)
          = Oracle!RatesOn(h, until, Oracle!rayMul(scaled, g.variableBorrowIndex))
    BY DEF Oracle!BorrowedAtVariable
  <2>2. DOMAIN h = ReadData
    BY <1>4
  <2> HIDE DEF h
  <2> QED
    BY <1>5, <2>1, <2>2
<1>8. \/ \E until, rate : m = Oracle!BorrowedAtStable(g, until, amount, rate)
      \/ \E until, scaled : m = Oracle!BorrowedAtVariable(g, until, scaled)
  BY DEF BorrowRated, g
<1> HIDE DEF m
<1> QED
  BY <1>6, <1>7, <1>8 DEF m

LEMMA BorrowTimeless ==
    ASSUME NEW amount, NEW mode, NEW d, DOMAIN d = ReadData, NEW at, NEW one, NEW other
    PROVE  LET e(current) ==
                   Oracle!calcExpectedReserveDataAfterBorrow(amount, mode, d, at, current)
           IN  /\ Books(e(one)) = Books(e(other))
               /\ e(one).principalStableDebt = e(other).principalStableDebt
<1> DEFINE m == BorrowRated(amount, mode, d, at)
           since == StableSince(mode, d, at)
           e(current) == Oracle!calcExpectedReserveDataAfterBorrow(amount, mode, d, at, current)
           s == [unbacked |-> m.unbacked, accruedToTreasury |-> m.accruedToTreasuryScaled,
                 liquidity |-> m.availableLiquidity, liquidityIndex |-> m.liquidityIndex,
                 variableBorrowIndex |-> m.variableBorrowIndex,
                 scaledVariableDebt |-> m.scaledVariableDebt]
<1>1. DOMAIN m = ReadData
  BY BorrowShape
<1>2. \A current : e(current) = Oracle!updateTotalLiquidityAndUsageRatio(
                                    Oracle!DebtsReadAt(m, since, at, current))
  BY BorrowReadAgain
<1> HIDE DEF m, since, e
<1>3. Shows(m, s)
  BY <1>1 DEF Shows
<1> HIDE DEF s
<1>4. \A current : /\ Books(e(current)) = BooksOf(s)
                   /\ e(current).principalStableDebt = m.principalStableDebt
  <2> TAKE current
  <2> DEFINE x == e(current)
  <2>1. x = Oracle!updateTotalLiquidityAndUsageRatio(Oracle!DebtsReadAt(m, since, at, current))
    BY <1>2
  <2> HIDE DEF x
  <2>2. Books(x) = BooksOf(s) /\ x.principalStableDebt = m.principalStableDebt
    BY <1>3, <2>1, ReadAgainBooks
  <2> QED
    BY <2>2 DEF x
<1>5. /\ Books(e(one)) = Books(e(other))
      /\ e(one).principalStableDebt = e(other).principalStableDebt
  BY <1>4
<1> QED
  BY <1>5 DEF e

LEMMA WaitKeepsForeseen ==
    ASSUME BooksRead, BooksForeseen, Wait
    PROVE  BooksForeseen'
<1> SUFFICES ASSUME step'.phase = "sent", EarnsOnUse'
             PROVE  Foreseen'
  BY DEF BooksForeseen, Foreseen, Sent
<1> DEFINE d == step.reserveData
           e(current) == Oracle!calcExpectedReserveDataAfterBorrow(step.op.amount, step.op.mode,
                                                                   d, step.at, current)
<1>1. /\ step' = step /\ reserve' = reserve /\ token' = token
      /\ step.phase = "sent" /\ step.op.name = "borrow"
  BY DEF Wait, TimePasses, Tick
<1>2. Foreseen
  BY <1>1 DEF BooksForeseen, Foreseen, Sent, AskedWithinDebt, EarnsOnUse, ReserveActions
<1>3. ExpectedReserveData = e(now) /\ ExpectedReserveData' = e(now')
  BY <1>1 DEF ExpectedReserveData
<1>4. DOMAIN d = ReadData
  BY <1>1 DEF BooksRead
<1>5. /\ Books(e(now)) = Books(e(now'))
      /\ e(now).principalStableDebt = e(now').principalStableDebt
  BY <1>4, BorrowTimeless
<1>6. Books(getReserveData)' = Books(getReserveData) /\ (TotalKept' <=> TotalKept)
  BY <1>1, BooksRecorded, BooksRecordedNext DEF BooksOf, TotalKept
<1> HIDE DEF e
<1>7. Books(ExpectedReserveData)' = Books(e(now'))
  BY <1>3 DEF Books
<1> QED
  BY <1>1, <1>2, <1>3, <1>5, <1>6, <1>7 DEF Foreseen

LEMMA InitialBooksRead == ScenarioInit => BooksRead /\ BooksForeseen
  BY DEF ScenarioInit, BooksRead, BooksForeseen, Sent

LEMMA ReadOfBooks ==
    ASSUME MarketInv, Read
    PROVE  BooksRead' /\ BooksForeseen'
<1> DEFINE d == getReserveData
<1>1. /\ step' = [phase |-> "read", reserveData |-> d,
                  userData |-> [u \in Users |-> getUserData(u, u)], at |-> now]
      /\ UNCHANGED <<now, token, reserve, accounts>>
  BY DEF Read, marketVars, reserveVars, tokenVars
<1>2. Says(d)
  BY ReadingSays DEF MarketInv
<1> HIDE DEF d
<1>3. step'.phase = "read" /\ step'.reserveData = d /\ step'.at = now
  BY <1>1
<1>4. Says(step.reserveData)'
  BY <1>1, <1>2, <1>3 DEF Says, Shows
<1>5. DOMAIN d = ReadData
  BY <1>2 DEF Says, Shows
<1>6. reserve'.lastUpdateTimestamp <= step'.at /\ step'.at \in Nat
  BY <1>1, <1>3, Present, RecordFacts DEF MarketInv, ReserveInv, BooksInv
<1>7. ASSUME NEW u \in Users
      PROVE  /\ DOMAIN step'.userData[u] = ReadUserData
             /\ step'.userData[u].scaledATokenBalance = accounts'[u].scaledBalance
             /\ step'.userData[u].scaledVariableDebt = accounts'[u].scaledDebt
  BY <1>1 DEF getUserData, ReadUserData
<1>8. BooksRead'
  BY <1>3, <1>4, <1>5, <1>6, <1>7 DEF BooksRead
<1> QED
  BY <1>3, <1>8 DEF BooksForeseen, Sent

LEMMA BooksReadWaits ==
    ASSUME BooksRead, UNCHANGED <<token, reserve, accounts, step>>
    PROVE  BooksRead'
  BY DEF BooksRead, Says, Shows

LEMMA BooksReadSent ==
    ASSUME BooksRead, Sends
    PROVE  BooksRead'
<1>1. PICK op : Mined(op)
  BY DEF Sends, SendDeposit, SendWithdraw, SendBorrow, SendRepay, SendSwapBorrowRateMode,
         SendRebalance, SendSetUseAsCollateral, SendMintUnbacked, SendBackUnbacked,
         SendTransferFrom
<1>2. step.phase = "read" /\ step'.phase = "sent" /\ step'.reserveData = step.reserveData
  BY <1>1 DEF Mined
<1> QED
  BY <1>2 DEF BooksRead

LEMMA CallsForeseen ==
    ASSUME MarketInv, ReadInv, BooksRead, Sends
    PROVE  BooksForeseen'
<1> DEFINE told == Foreseen'
<1> SUFFICES ASSUME step'.op.name \in ReserveActions, AskedWithinDebt', EarnsOnUse'
             PROVE  told
  BY DEF BooksForeseen, Foreseen, Sent
<1> HIDE DEF told
<1>1. CASE SendDeposit
  <2>1. PICK op \in Deposits : Mined(op) /\ Deposit(op.user, op.u, op.amount)
    BY <1>1 DEF SendDeposit
  <2> QED
    BY <2>1, DepositForeseen DEF told
<1>2. CASE SendWithdraw
  <2>1. PICK op \in Withdrawals : Mined(op) /\ WithdrawTo(op.u, op.amount)
    BY <1>2 DEF SendWithdraw
  <2> QED
    BY <2>1, WithdrawForeseen DEF told
<1>3. CASE SendBorrow
  <2>1. PICK op \in Borrows :
           /\ Mined(op)
           /\ IF op.mode = Oracle!Stable THEN BorrowAtStable(op.user, op.u, op.amount)
              ELSE BorrowAtVariable(op.user, op.u, op.amount)
    BY <1>3 DEF SendBorrow
  <2> QED
    BY <2>1, BorrowStableForeseen, BorrowVariableForeseen DEF told
<1>4. CASE SendRepay
  <2>1. PICK op \in Repayments :
           /\ Mined(op)
           /\ IF op.mode = Oracle!Stable THEN RepayAtStable(op.user, op.u, op.amount)
              ELSE RepayAtVariable(op.user, op.u, op.amount)
    BY <1>4 DEF SendRepay
  <2> QED
    BY <2>1, RepayStableForeseen, RepayVariableForeseen DEF told
<1>5. CASE SendSwapBorrowRateMode
  <2>1. PICK op \in Swaps :
           /\ Mined(op)
           /\ IF op.mode = Oracle!Stable THEN SwapFromStable(op.u) ELSE SwapFromVariable(op.u)
    BY <1>5 DEF SendSwapBorrowRateMode
  <2> QED
    BY <2>1, SwapFromStableForeseen, SwapFromVariableForeseen DEF told
<1>6. CASE SendRebalance
  <2>1. PICK op \in Rebalances : Mined(op) /\ RebalanceRate(op.u)
    BY <1>6 DEF SendRebalance
  <2> QED
    BY <2>1, RebalanceForeseen DEF told
<1>7. CASE SendMintUnbacked
  <2>1. PICK op \in UnbackedMints : Mined(op) /\ MintUnbackedTo(op.u, op.amount)
    BY <1>7 DEF SendMintUnbacked
  <2> QED
    BY <2>1, MintUnbackedForeseen DEF told
<1>8. CASE SendBackUnbacked
  <2>1. PICK op \in Backings : Mined(op) /\ BackUnbacked(op.amount, op.fee)
    BY <1>8 DEF SendBackUnbacked
  <2> QED
    BY <2>1, BackUnbackedForeseen DEF told
<1>9. CASE SendSetUseAsCollateral
  <2>1. PICK op \in CollateralSwitches : Mined(op)
    BY <1>9 DEF SendSetUseAsCollateral
  <2>2. step'.op = op /\ op.name = "setUseAsCollateral"
    BY <2>1 DEF Mined, CollateralSwitches
  <2> QED
    BY <2>2 DEF ReserveActions
<1>10. CASE SendTransferFrom
  <2>1. PICK op \in Transfers : Mined(op)
    BY <1>10 DEF SendTransferFrom
  <2>2. step'.op = op /\ op.name = "transferFrom"
    BY <2>1 DEF Mined, Transfers
  <2> QED
    BY <2>2 DEF ReserveActions
<1> QED
  BY <1>1, <1>2, <1>3, <1>4, <1>5, <1>6, <1>7, <1>8, <1>9, <1>10 DEF Sends

LEMMA ForeseenStutter ==
    ASSUME BooksForeseen, UNCHANGED scenarioVars
    PROVE  BooksForeseen'
<1>1. UNCHANGED <<now, token, reserve, accounts, step>>
  BY DEF scenarioVars, marketVars, reserveVars, tokenVars
<1>2. ExpectedReserveData' = ExpectedReserveData
  BY <1>1 DEF ExpectedReserveData, UserDataBefore, WalletOwner
<1>3. Books(getReserveData)' = Books(getReserveData)
  BY <1>1, BooksRecorded, BooksRecordedNext DEF BooksOf
<1>4. AskedWithinDebt' <=> AskedWithinDebt
  <2>1. DebtIndex' = DebtIndex
    BY <1>1 DEF DebtIndex, NextVariableBorrowIndex, getNormalizedDebt, Elapsed
  <2>2. \A op : DebtOf(op)' = DebtOf(op)
    BY <1>1, <2>1 DEF DebtOf, StableBalanceOf
  <2> QED
    BY <1>1, <2>2 DEF AskedWithinDebt
<1>5. (TotalKept' <=> TotalKept) /\ (EarnsOnUse' <=> EarnsOnUse)
  <2>1. \A t, u : StableBalanceOf(t, u)' = StableBalanceOf(t, u)
    BY <1>1 DEF StableBalanceOf
  <2>2. \A t, u, amount : Burned(t, u, amount)' = Burned(t, u, amount)
    BY <1>1, <2>1 DEF Burned, StableBalanceOf, StableTotalSupply, RateRepaid, PrincipalLeft,
                      SupplyLeft
  <2> QED
    BY <1>1, <2>1, <2>2 DEF TotalKept, EarnsOnUse
<1>6. Books(ExpectedReserveData)' = Books(ExpectedReserveData)
  BY <1>2 DEF Books
<1> QED
  BY <1>1, <1>2, <1>3, <1>4, <1>5, <1>6 DEF BooksForeseen, Sent

(* What a call leaves of a reserve, to the unit, is what the test oracle   *)
(* makes of what was read before the call: the indices, the treasury's     *)
(* share, the liquidity, what is unbacked and the variable debt, after     *)
(* any sequence of calls and however late the chain mines the transaction  *)
(* (ReserveLogic.sol, SupplyLogic.sol, BorrowLogic.sol, BridgeLogic.sol,   *)
(* against calculations.ts); and the total of the stable debts, wherever   *)
(* no burn resets it (StableDebtToken.sol).                                *)
THEOREM BooksAreForeseen == ScenarioSpec => []BooksForeseen
<1> DEFINE Inv == MarketInv /\ ReadInv /\ BooksRead /\ BooksForeseen
<1>1. ScenarioInit => Inv
  BY InitialMarket, InitialRead, InitialBooksRead DEF ScenarioInit
<1>2. Inv /\ [ScenarioNext]_scenarioVars => Inv'
  <2> SUFFICES ASSUME Inv, [ScenarioNext]_scenarioVars PROVE Inv'
    OBVIOUS
  <2>1. CASE ScenarioNext
    <3>1. MarketInv' /\ ReadInv'
      BY <2>1, MarketSteps, ReadSteps
    <3>2. CASE Read
      BY <3>1, <3>2, ReadOfBooks
    <3>3. CASE Wait
      <4>1. UNCHANGED <<token, reserve, accounts, step>>
        BY <3>3 DEF Wait, TimePasses, Tick
      <4> QED
        BY <3>1, <3>3, <4>1, BooksReadWaits, WaitKeepsForeseen
    <3>4. CASE Sends
      BY <3>1, <3>4, BooksReadSent, CallsForeseen
    <3> QED
      BY <2>1, <3>2, <3>3, <3>4 DEF ScenarioNext, Sends
  <2>2. CASE UNCHANGED scenarioVars
    <3>1. UNCHANGED <<token, reserve, accounts, step>>
      BY <2>2 DEF scenarioVars, marketVars, reserveVars, tokenVars
    <3>2. MarketInv' /\ ReadInv'
      BY <2>2, MarketStutters, ReadStutters DEF scenarioVars
    <3> QED
      BY <2>2, <3>1, <3>2, BooksReadWaits, ForeseenStutter
  <2> QED
    BY <2>1, <2>2
<1> QED
  BY <1>1, <1>2, PTL DEF ScenarioSpec

-----------------------------------------------------------------------------
(* The user acted for, against the test oracle.                            *)
UserExpected == ExpectedUserData(ExpectedReserveData)

UserForeseen ==
    LET u == step.op.u
    IN  /\ accounts[u].scaledBalance = UserExpected.scaledATokenBalance
        /\ "scaledVariableDebt" \notin UserUnforeseen
           => accounts[u].scaledDebt = UserExpected.scaledVariableDebt
        /\ "principalStableDebt" \notin UserUnforeseen
           => token.principal[u] = UserExpected.principalStableDebt
        /\ accounts[u].usedAsCollateral = UserExpected.usageAsCollateralEnabled
        /\ accounts[WalletOwner].wallet = UserExpected.walletBalance

LEMMA AlwaysForeseen ==
    /\ "scaledATokenBalance" \notin UserUnforeseen
    /\ "usageAsCollateralEnabled" \notin UserUnforeseen
    /\ "walletBalance" \notin UserUnforeseen
  BY DEF UserUnforeseen

LEMMA UserBooksMean ==
    UserBooksForeseen
    <=> (Sent(UserActions) /\ AskedWithinDebt /\ EarnsOnUse => UserForeseen)
<1> DEFINE actual == getUserData(step.op.u, WalletOwner)
           u == step.op.u
<1>1. /\ actual.scaledATokenBalance = accounts[u].scaledBalance
      /\ actual.scaledVariableDebt = accounts[u].scaledDebt
      /\ actual.principalStableDebt = token.principal[u]
      /\ actual.usageAsCollateralEnabled = accounts[u].usedAsCollateral
      /\ actual.walletBalance = accounts[WalletOwner].wallet
  BY DEF getUserData
<1>2. UserForeseen <=> \A key \in UserBooks \ UserUnforeseen : actual[key] = UserExpected[key]
  <2> DEFINE expected == UserExpected
             missing == UserUnforeseen
  <2>1. /\ "scaledATokenBalance" \notin missing
        /\ "usageAsCollateralEnabled" \notin missing
        /\ "walletBalance" \notin missing
    BY AlwaysForeseen
  <2> HIDE DEF actual, expected, missing
  <2>2. (\A key \in UserBooks \ missing : actual[key] = expected[key])
        <=> /\ actual.scaledATokenBalance = expected.scaledATokenBalance
            /\ "scaledVariableDebt" \notin missing
               => actual.scaledVariableDebt = expected.scaledVariableDebt
            /\ "principalStableDebt" \notin missing
               => actual.principalStableDebt = expected.principalStableDebt
            /\ actual.usageAsCollateralEnabled = expected.usageAsCollateralEnabled
            /\ actual.walletBalance = expected.walletBalance
    BY <2>1 DEF UserBooks
  <2> QED
    BY <1>1, <2>2 DEF UserForeseen, expected, missing
<1> HIDE DEF actual
<1> QED
  BY <1>2 DEF UserBooksForeseen, UserExpected, actual

LEMMA UserBooksMeanNext ==
    UserBooksForeseen'
    <=> (Sent(UserActions)' /\ AskedWithinDebt' /\ EarnsOnUse' => UserForeseen')
  BY UserBooksMean, PTL

(* What the reading was of, of a user; the wallet is that of "owner".      *)
UserShows(w, u, owner) ==
    /\ DOMAIN w = ReadUserData
    /\ w.scaledATokenBalance = accounts[u].scaledBalance
    /\ w.scaledVariableDebt = accounts[u].scaledDebt
    /\ w.principalStableDebt = token.principal[u]
    /\ w.usageAsCollateralEnabled = accounts[u].usedAsCollateral
    /\ w.walletBalance = accounts[owner].wallet
    /\ w.currentATokenBalance = 0 <=> accounts[u].scaledBalance = 0
    /\ token.principal[u] = 0 => w.currentStableDebt = 0

UsersRead ==
    /\ step.phase = "read" => \A u \in Users : UserShows(step.userData[u], u, u)
    /\ Sent({"borrow"}) => DOMAIN step.userData[step.op.u] = ReadUserData

LEMMA StableDebtOfNothing ==
    ASSUME NEW t, TokenInv(t), NEW u \in Users, t.principal[u] = 0
    PROVE  StableBalanceOf(t, u) = 0
  BY DEF StableBalanceOf

LEMMA UserReadingShows ==
    ASSUME MarketInv, NEW u \in Users
    PROVE  UserShows(getUserData(u, u), u, u)
<1> DEFINE w == getUserData(u, u)
<1>1. /\ DOMAIN w = ReadUserData
      /\ w.scaledATokenBalance = accounts[u].scaledBalance
      /\ w.scaledVariableDebt = accounts[u].scaledDebt
      /\ w.principalStableDebt = token.principal[u]
      /\ w.usageAsCollateralEnabled = accounts[u].usedAsCollateral
      /\ w.walletBalance = accounts[u].wallet
      /\ w.currentATokenBalance = BalanceOf(u)
      /\ w.currentStableDebt = StableBalanceOf(token, u)
  BY DEF getUserData, ReadUserData
<1>2. BalanceOf(u) = 0 <=> accounts[u].scaledBalance = 0
  <2>1. accounts[u].scaledBalance \in Nat /\ Income \in Nat /\ Income >= RAY /\ RAY \in Nat
    BY MarketFacts, SameIndices, ScaleAssumption DEF MarketInv
  <2> QED
    BY <2>1, RayMulZero DEF BalanceOf
<1>3. token.principal[u] = 0 => StableBalanceOf(token, u) = 0
  BY Present, StableDebtOfNothing DEF MarketInv
<1> HIDE DEF w
<1>4. UserShows(w, u, u)
  BY <1>1, <1>2, <1>3 DEF UserShows
<1> QED
  BY <1>4 DEF w

LEMMA UserShown ==
    ASSUME UsersRead, NEW op, Mined(op), op.u \in Users,
           NEW owner \in Users, WalletOwner' = owner
    PROVE  UserShows(UserDataBefore', op.u, owner)
<1> DEFINE u == op.u
           before == step.userData[u]
           wallet == step.userData[owner].walletBalance
           w == UserDataBefore'
<1>1. step.phase = "read" /\ step'.op = op /\ step'.userData = step.userData
  BY DEF Mined
<1>2. w = [before EXCEPT !.walletBalance = wallet]
  BY <1>1 DEF UserDataBefore
<1>3. UserShows(before, u, u) /\ UserShows(step.userData[owner], owner, owner)
  BY <1>1 DEF UsersRead
<1>4. wallet = accounts[owner].wallet
  BY <1>3 DEF UserShows
<1> HIDE DEF before, wallet, w
<1>5. UserShows(w, u, owner)
  BY <1>2, <1>3, <1>4 DEF UserShows, ReadUserData
<1> QED
  BY <1>5 DEF w

(* What the test makes of a user, of the five that are stored.             *)
UserBooked(e, balance, debt, principal, used, wallet) ==
    /\ e.scaledATokenBalance = balance /\ e.scaledVariableDebt = debt
    /\ e.principalStableDebt = principal /\ e.usageAsCollateralEnabled = used
    /\ e.walletBalance = wallet

LEMMA CaughtBooks ==
    ASSUME NEW d, NEW after, NEW w, DOMAIN w = ReadUserData, NEW at
    PROVE  LET e == Oracle!Caught(d, after, w, at)
           IN  /\ DOMAIN e = ReadUserData
               /\ UserBooked(e, w.scaledATokenBalance, w.scaledVariableDebt,
                             w.principalStableDebt, w.usageAsCollateralEnabled, w.walletBalance)
<1> DEFINE a == Oracle!StableDebtOf(w, at)
           b == Oracle!calcExpectedVariableDebtTokenBalance(d, w, at)
           c == Oracle!calcExpectedATokenBalance(d, w, at)
           rate == after.liquidityRate
           e == Oracle!Caught(d, after, w, at)
<1>1. e = [w EXCEPT !.currentStableDebt = a, !.currentVariableDebt = b,
                    !.currentATokenBalance = c, !.liquidityRate = rate]
  BY DEF Oracle!Caught
<1> HIDE DEF a, b, c, rate, e
<1>2. /\ DOMAIN e = ReadUserData
      /\ UserBooked(e, w.scaledATokenBalance, w.scaledVariableDebt,
                    w.principalStableDebt, w.usageAsCollateralEnabled, w.walletBalance)
  BY <1>1 DEF ReadUserData, UserBooked
<1> QED
  BY <1>2 DEF e

LEMMA DepositBooked ==
    ASSUME NEW amount, NEW d, NEW after, NEW w, DOMAIN w = ReadUserData, NEW at
    PROVE  UserBooked(Oracle!calcExpectedUserDataAfterDeposit(amount, d, after, w, at),
                      Oracle!calcExpectedScaledATokenBalance(w, after.liquidityIndex, amount, 0),
                      w.scaledVariableDebt,
                      Oracle!calcExpectedVariableDebtTokenBalance(d, w, at),
                      w.usageAsCollateralEnabled \/ w.currentATokenBalance = 0,
                      w.walletBalance - amount)
<1> DEFINE c == Oracle!Caught(d, after, w, at)
           balance == Oracle!calcExpectedScaledATokenBalance(w, after.liquidityIndex, amount, 0)
           current == c.currentATokenBalance + amount
           used == c.usageAsCollateralEnabled \/ w.currentATokenBalance = 0
           wallet == c.walletBalance - amount
           principal == Oracle!calcExpectedVariableDebtTokenBalance(d, w, at)
           e == Oracle!calcExpectedUserDataAfterDeposit(amount, d, after, w, at)
<1>1. e = [c EXCEPT !.scaledATokenBalance = balance, !.currentATokenBalance = current,
                    !.usageAsCollateralEnabled = used, !.walletBalance = wallet,
                    !.principalStableDebt = principal]
  BY DEF Oracle!calcExpectedUserDataAfterDeposit
<1>2. /\ DOMAIN c = ReadUserData
      /\ UserBooked(c, w.scaledATokenBalance, w.scaledVariableDebt,
                    w.principalStableDebt, w.usageAsCollateralEnabled, w.walletBalance)
  BY CaughtBooks
<1>3. used = (w.usageAsCollateralEnabled \/ w.currentATokenBalance = 0)
      /\ wallet = w.walletBalance - amount /\ c.scaledVariableDebt = w.scaledVariableDebt
  BY <1>2 DEF UserBooked
<1> HIDE DEF c, balance, current, used, wallet, principal, e
<1>4. UserBooked(e, balance, w.scaledVariableDebt, principal, used, wallet)
  BY <1>1, <1>2, <1>3 DEF ReadUserData, UserBooked
<1> QED
  BY <1>3, <1>4 DEF e, balance, principal

LEMMA WithdrawBooked ==
    ASSUME NEW amount, NEW d, NEW after, NEW w, DOMAIN w = ReadUserData, NEW at,
           NEW balance, balance = Oracle!calcExpectedATokenBalance(d, w, at),
           NEW taken, taken = IF amount = MAX_UINT_AMOUNT THEN balance ELSE amount
    PROVE  UserBooked(Oracle!calcExpectedUserDataAfterWithdraw(amount, d, after, w, at),
                      Oracle!calcExpectedScaledATokenBalance(w, after.liquidityIndex, 0, taken),
                      w.scaledVariableDebt, w.principalStableDebt,
                      \/ w.currentATokenBalance = 0
                      \/ w.usageAsCollateralEnabled /\ balance # taken,
                      w.walletBalance + taken)
<1> DEFINE c == Oracle!Caught(d, after, w, at)
           scaled == Oracle!calcExpectedScaledATokenBalance(w, after.liquidityIndex, 0, taken)
           current == balance - taken
           used == w.currentATokenBalance = 0 \/ (c.usageAsCollateralEnabled /\ balance # taken)
           wallet == c.walletBalance + taken
           e == Oracle!calcExpectedUserDataAfterWithdraw(amount, d, after, w, at)
<1>1. e = [c EXCEPT !.scaledATokenBalance = scaled, !.currentATokenBalance = current,
                    !.usageAsCollateralEnabled = used, !.walletBalance = wallet]
  BY DEF Oracle!calcExpectedUserDataAfterWithdraw
<1>2. /\ DOMAIN c = ReadUserData
      /\ UserBooked(c, w.scaledATokenBalance, w.scaledVariableDebt,
                    w.principalStableDebt, w.usageAsCollateralEnabled, w.walletBalance)
  BY CaughtBooks
<1>3. /\ used = (w.currentATokenBalance = 0 \/ (w.usageAsCollateralEnabled /\ balance # taken))
      /\ wallet = w.walletBalance + taken
  BY <1>2 DEF UserBooked
<1> HIDE DEF c, scaled, current, used, wallet, e
<1>4. UserBooked(e, scaled, w.scaledVariableDebt, w.principalStableDebt, used, wallet)
  BY <1>1, <1>2 DEF ReadUserData, UserBooked
<1> QED
  BY <1>3, <1>4 DEF e, scaled

(* A borrow, whenever it is read again.                                    *)
LEMMA BorrowBooked ==
    ASSUME NEW amount, NEW mode, NEW d, NEW after, NEW w, DOMAIN w = ReadUserData,
           NEW at, NEW current
    PROVE  LET e == Oracle!calcExpectedUserDataAfterBorrow(amount, mode, d, after, w, at, current)
           IN  UserBooked(e, w.scaledATokenBalance,
                          IF mode = Oracle!Stable THEN w.scaledVariableDebt
                          ELSE d.scaledVariableDebt
                                 + Oracle!rayDiv(amount, after.variableBorrowIndex),
                          IF mode = Oracle!Stable THEN Oracle!StableDebtOf(w, at) + amount
                          ELSE w.principalStableDebt,
                          w.usageAsCollateralEnabled, w.walletBalance + amount)
<1> DEFINE principal == Oracle!StableDebtOf(w, at) + amount
           rate == Oracle!calcExpectedUserStableRate(Oracle!StableDebtOf(w, at),
                                                     w.stableBorrowRate, amount,
                                                     d.stableBorrowRate)
           scaled == d.scaledVariableDebt + Oracle!rayDiv(amount, after.variableBorrowIndex)
           b == IF mode = Oracle!Stable
                THEN [w EXCEPT !.principalStableDebt = principal, !.stableBorrowRate = rate,
                               !.stableRateLastUpdated = at]
                ELSE [w EXCEPT !.scaledVariableDebt = scaled]
           c == Oracle!Caught(after, after, b, current)
           wallet == c.walletBalance + amount
           e == Oracle!calcExpectedUserDataAfterBorrow(amount, mode, d, after, w, at, current)
<1>1. e = [c EXCEPT !.walletBalance = wallet]
  BY DEF Oracle!calcExpectedUserDataAfterBorrow
<1> HIDE DEF principal, rate, scaled, e
<1>2. /\ DOMAIN b = ReadUserData
      /\ UserBooked(b, w.scaledATokenBalance,
                    IF mode = Oracle!Stable THEN w.scaledVariableDebt ELSE scaled,
                    IF mode = Oracle!Stable THEN principal ELSE w.principalStableDebt,
                    w.usageAsCollateralEnabled, w.walletBalance)
  <2>1. CASE mode = Oracle!Stable
    BY <2>1 DEF ReadUserData, UserBooked
  <2>2. CASE mode # Oracle!Stable
    BY <2>2 DEF ReadUserData, UserBooked
  <2> QED
    BY <2>1, <2>2
<1> HIDE DEF b
<1>3. /\ DOMAIN c = ReadUserData
      /\ UserBooked(c, b.scaledATokenBalance, b.scaledVariableDebt,
                    b.principalStableDebt, b.usageAsCollateralEnabled, b.walletBalance)
  BY <1>2, CaughtBooks
<1>4. wallet = w.walletBalance + amount
  BY <1>2, <1>3 DEF UserBooked
<1> HIDE DEF c, wallet
<1>5. UserBooked(e, b.scaledATokenBalance, b.scaledVariableDebt, b.principalStableDebt,
                 b.usageAsCollateralEnabled, wallet)
  BY <1>1, <1>3 DEF ReadUserData, UserBooked
<1> QED
  BY <1>2, <1>4, <1>5 DEF UserBooked, principal, scaled, e

LEMMA RepayBooked ==
    ASSUME NEW amount, NEW mode, NEW d, NEW after, NEW w, DOMAIN w = ReadUserData,
           NEW own, NEW at, NEW current, NEW stableDebt,
           stableDebt = Oracle!StableDebtOf(w, current),
           NEW taken, taken = Oracle!Repaid(amount, mode, stableDebt,
                                  Oracle!calcExpectedVariableDebtTokenBalance(d, w, current))
    PROVE  UserBooked(
               Oracle!calcExpectedUserDataAfterRepay(amount, mode, d, after, w, own, at, current),
               w.scaledATokenBalance,
               IF mode = Oracle!Stable THEN w.scaledVariableDebt
               ELSE w.scaledVariableDebt - Oracle!rayDiv(taken, after.variableBorrowIndex),
               IF mode = Oracle!Stable THEN stableDebt - taken ELSE stableDebt,
               w.usageAsCollateralEnabled,
               IF own THEN w.walletBalance - taken ELSE w.walletBalance)
<1> DEFINE variableDebt == Oracle!calcExpectedVariableDebtTokenBalance(d, w, current)
           left == stableDebt - taken
           scaled == w.scaledVariableDebt - Oracle!rayDiv(taken, after.variableBorrowIndex)
           rate == IF left = 0 THEN 0 ELSE w.stableBorrowRate
           last == IF left = 0 THEN 0 ELSE at
           x == Oracle!rayMul(scaled, after.variableBorrowIndex)
           y == w.principalStableDebt
           b == IF mode = Oracle!Stable
                THEN [w EXCEPT !.principalStableDebt = left, !.currentStableDebt = left,
                               !.currentVariableDebt = variableDebt, !.stableBorrowRate = rate,
                               !.stableRateLastUpdated = last]
                ELSE [w EXCEPT !.currentStableDebt = y, !.principalStableDebt = stableDebt,
                               !.scaledVariableDebt = scaled, !.currentVariableDebt = x]
           liquidityRate == after.liquidityRate
           balance == Oracle!calcExpectedATokenBalance(d, w, at)
           wallet == IF own THEN b.walletBalance - taken ELSE b.walletBalance
           e == Oracle!calcExpectedUserDataAfterRepay(amount, mode, d, after, w, own, at, current)
<1>1. e = [b EXCEPT !.liquidityRate = liquidityRate, !.currentATokenBalance = balance,
                    !.walletBalance = wallet]
  BY DEF Oracle!calcExpectedUserDataAfterRepay
<1> HIDE DEF variableDebt, left, scaled, rate, last, x, y, liquidityRate, balance, e
<1>2. /\ DOMAIN b = ReadUserData
      /\ UserBooked(b, w.scaledATokenBalance,
                    IF mode = Oracle!Stable THEN w.scaledVariableDebt ELSE scaled,
                    IF mode = Oracle!Stable THEN left ELSE stableDebt,
                    w.usageAsCollateralEnabled, w.walletBalance)
  <2>1. CASE mode = Oracle!Stable
    BY <2>1 DEF ReadUserData, UserBooked
  <2>2. CASE mode # Oracle!Stable
    BY <2>2 DEF ReadUserData, UserBooked
  <2> QED
    BY <2>1, <2>2
<1> HIDE DEF b
<1>3. wallet = IF own THEN w.walletBalance - taken ELSE w.walletBalance
  BY <1>2 DEF UserBooked
<1> HIDE DEF wallet
<1>4. UserBooked(e, b.scaledATokenBalance, b.scaledVariableDebt, b.principalStableDebt,
                 b.usageAsCollateralEnabled, wallet)
  BY <1>1, <1>2 DEF ReadUserData, UserBooked
<1> QED
  BY <1>2, <1>3, <1>4 DEF UserBooked, left, scaled, e

LEMMA SwapBooked ==
    ASSUME NEW d, NEW after, NEW w, DOMAIN w = ReadUserData, NEW mode, NEW at
    PROVE  LET e == Oracle!calcExpectedUserDataAfterSwapRateMode(d, after, w, mode, at)
           IN  UserBooked(e, w.scaledATokenBalance,
                          IF mode = Oracle!Stable
                          THEN w.scaledVariableDebt
                                 + Oracle!rayDiv(Oracle!StableDebtOf(w, at),
                                                 after.variableBorrowIndex)
                          ELSE 0,
                          IF mode = Oracle!Stable THEN 0
                          ELSE w.currentStableDebt
                                 + Oracle!calcExpectedVariableDebtTokenBalance(d, w, at),
                          w.usageAsCollateralEnabled, w.walletBalance)
<1> DEFINE stableDebt == Oracle!StableDebtOf(w, at)
           variableDebt == Oracle!calcExpectedVariableDebtTokenBalance(d, w, at)
           scaled == w.scaledVariableDebt + Oracle!rayDiv(stableDebt, after.variableBorrowIndex)
           joined == w.currentStableDebt + variableDebt
           x == Oracle!rayMul(scaled, after.variableBorrowIndex)
           rate == Oracle!calcExpectedUserStableRate(stableDebt, w.stableBorrowRate, variableDebt,
                                                     d.stableBorrowRate)
           b == IF mode = Oracle!Stable
                THEN [w EXCEPT !.currentStableDebt = 0, !.principalStableDebt = 0,
                               !.stableBorrowRate = 0, !.stableRateLastUpdated = 0,
                               !.scaledVariableDebt = scaled, !.currentVariableDebt = x]
                ELSE [w EXCEPT !.currentStableDebt = joined, !.principalStableDebt = joined,
                               !.stableBorrowRate = rate, !.stableRateLastUpdated = at,
                               !.scaledVariableDebt = 0, !.currentVariableDebt = 0]
           liquidityRate == after.liquidityRate
           balance == Oracle!calcExpectedATokenBalance(d, w, at)
           e == Oracle!calcExpectedUserDataAfterSwapRateMode(d, after, w, mode, at)
<1>1. e = [b EXCEPT !.liquidityRate = liquidityRate, !.currentATokenBalance = balance]
  BY DEF Oracle!calcExpectedUserDataAfterSwapRateMode
<1> HIDE DEF scaled, joined, x, rate, liquidityRate, balance, e
<1>2. /\ DOMAIN b = ReadUserData
      /\ UserBooked(b, w.scaledATokenBalance,
                    IF mode = Oracle!Stable THEN scaled ELSE 0,
                    IF mode = Oracle!Stable THEN 0 ELSE joined,
                    w.usageAsCollateralEnabled, w.walletBalance)
  <2>1. CASE mode = Oracle!Stable
    BY <2>1 DEF ReadUserData, UserBooked
  <2>2. CASE mode # Oracle!Stable
    BY <2>2 DEF ReadUserData, UserBooked
  <2> QED
    BY <2>1, <2>2
<1> HIDE DEF b
<1>3. UserBooked(e, b.scaledATokenBalance, b.scaledVariableDebt, b.principalStableDebt,
                 b.usageAsCollateralEnabled, b.walletBalance)
  BY <1>1, <1>2 DEF ReadUserData, UserBooked
<1> QED
  BY <1>2, <1>3 DEF UserBooked, joined, scaled, e

LEMMA RebalanceBooked ==
    ASSUME NEW d, NEW after, NEW w, DOMAIN w = ReadUserData, NEW at
    PROVE  UserBooked(Oracle!calcExpectedUserDataAfterStableRateRebalance(d, after, w, at),
                      w.scaledATokenBalance, w.scaledVariableDebt, Oracle!StableDebtOf(w, at),
                      w.usageAsCollateralEnabled, w.walletBalance)
<1> DEFINE c == Oracle!Caught(d, after, w, at)
           debt == Oracle!StableDebtOf(w, at)
           rate == after.averageStableBorrowRate
           e == Oracle!calcExpectedUserDataAfterStableRateRebalance(d, after, w, at)
<1>1. e = [c EXCEPT !.principalStableDebt = debt, !.stableRateLastUpdated = at,
                    !.stableBorrowRate = rate]
  BY DEF Oracle!calcExpectedUserDataAfterStableRateRebalance
<1>2. /\ DOMAIN c = ReadUserData
      /\ UserBooked(c, w.scaledATokenBalance, w.scaledVariableDebt,
                    w.principalStableDebt, w.usageAsCollateralEnabled, w.walletBalance)
  BY CaughtBooks
<1> HIDE DEF c, debt, rate, e
<1>3. UserBooked(e, w.scaledATokenBalance, w.scaledVariableDebt, debt,
                 w.usageAsCollateralEnabled, w.walletBalance)
  BY <1>1, <1>2 DEF ReadUserData, UserBooked
<1> QED
  BY <1>3 DEF e, debt

LEMMA SwitchBooked ==
    ASSUME NEW use, NEW w, DOMAIN w = ReadUserData
    PROVE  UserBooked(Oracle!calcExpectedUserDataAfterSetUseAsCollateral(use, w),
                      w.scaledATokenBalance, w.scaledVariableDebt, w.principalStableDebt,
                      use, w.walletBalance)
  BY DEF Oracle!calcExpectedUserDataAfterSetUseAsCollateral, UserBooked, ReadUserData

-----------------------------------------------------------------------------
(* The accounts, after.                                                    *)
LEMMA AccountMarked ==
    ASSUME NEW b \in Account, NEW scaled, NEW everything
    PROVE  /\ Receiving(b, scaled).usedAsCollateral
                = (b.usedAsCollateral \/ b.scaledBalance = 0)
           /\ Giving(b, scaled, everything).usedAsCollateral
                = (b.usedAsCollateral /\ ~everything)
           /\ Owing(b, scaled).usedAsCollateral = b.usedAsCollateral
           /\ Owed(b, scaled).usedAsCollateral = b.usedAsCollateral
           /\ Owing(b, scaled).wallet = b.wallet /\ Owed(b, scaled).wallet = b.wallet
<1> DEFINE held == b.scaledBalance + scaled
           left == b.scaledBalance - scaled
           more == b.scaledDebt + scaled
           less == b.scaledDebt - scaled
           marked == b.usedAsCollateral \/ b.scaledBalance = 0
           kept == b.usedAsCollateral /\ ~everything
           i == Income
           j == DebtIndex
<1>1. /\ Receiving(b, scaled)
           = [b EXCEPT !.scaledBalance = held, !.balanceIndex = i, !.usedAsCollateral = marked]
      /\ Giving(b, scaled, everything)
           = [b EXCEPT !.scaledBalance = left, !.balanceIndex = i, !.usedAsCollateral = kept]
      /\ Owing(b, scaled) = [b EXCEPT !.scaledDebt = more, !.debtIndex = j]
      /\ Owed(b, scaled) = [b EXCEPT !.scaledDebt = less, !.debtIndex = j]
  BY DEF Receiving, Giving, Owing, Owed
<1> HIDE DEF held, left, more, less, marked, kept, i, j
<1>2. /\ Receiving(b, scaled).usedAsCollateral = marked
      /\ Giving(b, scaled, everything).usedAsCollateral = kept
      /\ Owing(b, scaled).usedAsCollateral = b.usedAsCollateral
      /\ Owed(b, scaled).usedAsCollateral = b.usedAsCollateral
      /\ Owing(b, scaled).wallet = b.wallet /\ Owed(b, scaled).wallet = b.wallet
  BY <1>1 DEF Account
<1> QED
  BY <1>2 DEF marked, kept

(* The account of "u" rewritten, and the wallet of who pays or is paid.    *)
Settled(u, a, payer, wallet) == [accounts EXCEPT ![u] = a, ![payer].wallet = wallet]

LEMMA AccountAfter ==
    ASSUME MarketInv, NEW u \in Users, NEW a \in Account, NEW payer \in Users, NEW wallet,
           accounts' = Settled(u, a, payer, wallet)
    PROVE  /\ accounts'[u].scaledBalance = a.scaledBalance
           /\ accounts'[u].scaledDebt = a.scaledDebt
           /\ accounts'[u].usedAsCollateral = a.usedAsCollateral
           /\ accounts'[payer].wallet = wallet
           /\ payer # u => accounts'[u].wallet = a.wallet
<1> DEFINE d == [accounts EXCEPT ![u] = a]
           e == [d[payer] EXCEPT !.wallet = wallet]
<1>1. accounts' = [d EXCEPT ![payer] = e]
  BY DEF Settled
<1>2. d \in [Users -> Account] /\ d[u] = a
  BY DEF MarketInv, AccountsInv
<1> HIDE DEF d
<1>3. d[payer] \in Account
  BY <1>2
<1>4. /\ e.scaledBalance = d[payer].scaledBalance /\ e.scaledDebt = d[payer].scaledDebt
      /\ e.usedAsCollateral = d[payer].usedAsCollateral /\ e.wallet = wallet
  BY <1>3 DEF Account
<1> HIDE DEF e
<1> QED
  BY <1>1, <1>2, <1>4

(* Only a wallet.                                                          *)
WalletSet(payer, wallet) == [accounts EXCEPT ![payer].wallet = wallet]

LEMMA WalletAfter ==
    ASSUME MarketInv, NEW u \in Users, NEW payer \in Users, NEW wallet,
           accounts' = WalletSet(payer, wallet)
    PROVE  /\ accounts'[u].scaledBalance = accounts[u].scaledBalance
           /\ accounts'[u].scaledDebt = accounts[u].scaledDebt
           /\ accounts'[u].usedAsCollateral = accounts[u].usedAsCollateral
           /\ accounts'[payer].wallet = wallet
           /\ payer # u => accounts'[u].wallet = accounts[u].wallet
<1> DEFINE e == [accounts[payer] EXCEPT !.wallet = wallet]
<1>1. accounts' = [accounts EXCEPT ![payer] = e] /\ accounts \in [Users -> Account]
  BY DEF MarketInv, AccountsInv, WalletSet
<1>2. /\ e.scaledBalance = accounts[payer].scaledBalance
      /\ e.scaledDebt = accounts[payer].scaledDebt
      /\ e.usedAsCollateral = accounts[payer].usedAsCollateral /\ e.wallet = wallet
  BY <1>1 DEF Account
<1> HIDE DEF e
<1> QED
  BY <1>1, <1>2

(* The indices the test expects after a call are those the call worked     *)
(* with.                                                                   *)
LEMMA IndicesConcluded ==
    ASSUME MarketInv, CallKept(UpToDateReserve), Foreseen'
    PROVE  /\ ExpectedReserveData'.liquidityIndex = Income
           /\ ExpectedReserveData'.variableBorrowIndex = DebtIndex
           /\ now' = now
<1>1. Books(ExpectedReserveData)' = BooksOf(reserve)'
  BY BooksRecordedNext DEF Foreseen
<1>2. /\ ExpectedReserveData'.liquidityIndex = reserve'.liquidityIndex
      /\ ExpectedReserveData'.variableBorrowIndex = reserve'.variableBorrowIndex
  BY <1>1 DEF Books, BooksOf
<1> QED
  BY <1>2, SameIndices DEF CallKept, MarketInv

(* The user's five are booked as the test expects them.                    *)
LEMMA UserForeseenWhenBooked ==
    ASSUME NEW e, UserExpected' = e, NEW u, step'.op.u = u, NEW owner, WalletOwner' = owner,
           NEW balance, NEW debt, NEW principal, NEW used, NEW wallet,
           UserBooked(e, balance, debt, principal, used, wallet),
           accounts'[u].scaledBalance = balance,
           "scaledVariableDebt" \notin UserUnforeseen' => accounts'[u].scaledDebt = debt,
           "principalStableDebt" \notin UserUnforeseen' => token'.principal[u] = principal,
           accounts'[u].usedAsCollateral = used,
           accounts'[owner].wallet = wallet
    PROVE  UserForeseen'
  BY DEF UserForeseen, UserBooked

(* Shares change hands at the test's price.                                *)
LEMMA SharesForeseen ==
    ASSUME NEW w, NEW held \in Int, w.scaledATokenBalance = held, NEW index \in Nat \ {0},
           NEW amount \in Nat
    PROVE  /\ Oracle!calcExpectedScaledATokenBalance(w, index, amount, 0)
                = held + rayDiv(amount, index)
           /\ Oracle!calcExpectedScaledATokenBalance(w, index, 0, amount)
                = held - rayDiv(amount, index)
<1>1. /\ Oracle!rayDiv(amount, index) = rayDiv(amount, index)
      /\ Oracle!rayDiv(0, index) = 0
  BY OracleArithmetic, RayDivOfNothing
<1>2. rayDiv(amount, index) \in Nat
  BY RayDivNat
<1> QED
  BY <1>1, <1>2 DEF Oracle!calcExpectedScaledATokenBalance

-----------------------------------------------------------------------------
(* The calls, for the user acted for, one lemma each.                      *)

LEMMA NoDebtForeseen ==
    ASSUME MarketInv, ReadInv, BooksRead, EarnsOnUse', NEW op, Mined(op), op.u \in Users,
           accounts[op.u].scaledDebt = 0
    PROVE  Oracle!calcExpectedVariableDebtTokenBalance(step.reserveData, UserDataBefore', now) = 0
<1> DEFINE d == step.reserveData
           w == UserDataBefore'
           index == Oracle!calcExpectedReserveNormalizedDebt(
                        d.variableBorrowRate, d.variableBorrowIndex, d.lastUpdateTimestamp, now)
<1>1. w.scaledVariableDebt = 0
  BY UserForesees
<1>2. index \in Nat
  BY MinedForesees, IndicesForeseen DEF Foresees
<1>3. Oracle!calcExpectedVariableDebtTokenBalance(d, w, now) = Oracle!rayMul(0, index)
  BY <1>1 DEF Oracle!calcExpectedVariableDebtTokenBalance
<1> HIDE DEF index
<1>4. Oracle!rayMul(0, index) = rayMul(0, index)
  BY <1>2, OracleArithmetic
<1>5. rayMul(0, index) = 0
  <2>1. RAY \in Nat \ {0} /\ HALF_RAY \in Nat /\ HALF_RAY < RAY
    BY ScaleAssumption DEF HALF_RAY
  <2>2. HALF_RAY \div RAY = 0
    BY <2>1, DivUnique
  <2>3. 0 * index + HALF_RAY = HALF_RAY
    BY <1>2, <2>1
  <2> QED
    BY <2>2, <2>3 DEF rayMul
<1> QED
  BY <1>3, <1>4, <1>5

LEMMA UserDeposit ==
    ASSUME MarketInv, ReadInv, BooksRead, UsersRead, EarnsOnUse', NEW op \in Deposits,
           Mined(op), Deposit(op.user, op.u, op.amount)
    PROVE  UserForeseen'
<1> DEFINE user == op.user
           u == op.u
           amount == op.amount
           d == step.reserveData
           w == UserDataBefore'
           after == ExpectedReserveData'
           b == accounts[u]
           scaled == rayDiv(amount, Income)
           a == Receiving(b, scaled)
           wallet == accounts[user].wallet - amount
           e == Oracle!calcExpectedUserDataAfterDeposit(amount, d, after, w, now)
<1>1. /\ user \in Users /\ u \in Users /\ amount \in Nat /\ op.name = "deposit"
      /\ step'.op = op /\ step'.reserveData = d /\ step'.at = now
  BY MinedForesees, AmountsNat DEF Deposits
<1>2. WalletOwner' = user
  BY <1>1 DEF WalletOwner
<1>3. UserShows(w, u, user)
  BY <1>1, <1>2, UserShown
<1>4. after.liquidityIndex = Income /\ Income \in Nat \ {0}
  <2>1. Foreseen'
    BY DepositForeseen
  <2>2. CallKept(UpToDateReserve)
    BY <1>1, SupplyKeeps DEF Deposit, MarketInv
  <2> QED
    BY <2>1, <2>2, IndicesConcluded, SameIndices DEF MarketInv
<1>5. UserExpected' = e
  BY <1>1 DEF UserExpected, ExpectedUserData
<1>6. /\ b \in Account /\ scaled \in Nat /\ wallet \in Int /\ b.scaledBalance \in Nat
  BY <1>1, <1>4, MarketFacts, RayDivNat
<1>7. accounts' = Settled(u, a, user, wallet)
  BY DEF Deposit, Settled
<1>14. token' = token
  BY DEF Deposit, Supply, OtherCall, Call
<1>8. Oracle!calcExpectedScaledATokenBalance(w, after.liquidityIndex, amount, 0)
        = b.scaledBalance + scaled
  BY <1>1, <1>3, <1>4, <1>6, SharesForeseen DEF UserShows
<1>9. DOMAIN w = ReadUserData /\ wallet = w.walletBalance - amount
  BY <1>3 DEF UserShows
<1> DEFINE principal == Oracle!calcExpectedVariableDebtTokenBalance(d, w, now)
<1>10. UserBooked(e, b.scaledBalance + scaled, b.scaledDebt, principal,
                  b.usedAsCollateral \/ b.scaledBalance = 0, wallet)
  <2>1. UserBooked(e, Oracle!calcExpectedScaledATokenBalance(w, after.liquidityIndex, amount, 0),
                   w.scaledVariableDebt, principal,
                   w.usageAsCollateralEnabled \/ w.currentATokenBalance = 0, wallet)
    BY <1>9, DepositBooked
  <2> HIDE DEF e, w, after, b, scaled, wallet, principal
  <2> QED
    BY <1>3, <1>8, <2>1 DEF UserShows, UserBooked, b
<1>11. "principalStableDebt" \notin UserUnforeseen' => token'.principal[u] = principal
  <2> SUFFICES ASSUME "principalStableDebt" \notin UserUnforeseen'
               PROVE  token'.principal[u] = principal
    OBVIOUS
  <2>1. w.principalStableDebt = 0 /\ w.scaledVariableDebt = 0
    BY <1>1 DEF UserUnforeseen
  <2>2. token.principal[u] = 0 /\ b.scaledDebt = 0
    BY <1>3, <2>1 DEF UserShows
  <2> QED
    BY <1>1, <1>14, <2>2, NoDebtForeseen
<1> HIDE DEF scaled, wallet, e, w, after, principal, user, u, amount
<1>12. /\ a \in Account /\ a.scaledBalance = b.scaledBalance + scaled
       /\ a.scaledDebt = b.scaledDebt
       /\ a.usedAsCollateral = (b.usedAsCollateral \/ b.scaledBalance = 0)
  BY <1>6, AccountMoved, AccountMarked
<1> HIDE DEF a
<1>13. /\ accounts'[u].scaledBalance = a.scaledBalance /\ accounts'[u].scaledDebt = a.scaledDebt
       /\ accounts'[u].usedAsCollateral = a.usedAsCollateral /\ accounts'[user].wallet = wallet
  <2>1. a \in Account /\ wallet \in Int /\ u \in Users /\ user \in Users
    BY <1>1, <1>6, <1>12
  <2> QED
    BY <1>7, <2>1, AccountAfter
<1>15. step'.op.u = u
  BY <1>1 DEF u
<1> HIDE DEF b
<1> QED
  BY <1>2, <1>5, <1>10, <1>11, <1>12, <1>13, <1>15, UserForeseenWhenBooked

LEMMA UserWithdraw ==
    ASSUME MarketInv, ReadInv, BooksRead, UsersRead, EarnsOnUse', NEW op \in Withdrawals,
           Mined(op), WithdrawTo(op.u, op.amount)
    PROVE  UserForeseen'
<1> DEFINE u == op.u
           asked == op.amount
           amount == IF asked = MAX_UINT_AMOUNT THEN BalanceOf(u) ELSE asked
           d == step.reserveData
           w == UserDataBefore'
           after == ExpectedReserveData'
           b == accounts[u]
           scaled == rayDiv(amount, Income)
           everything == amount = BalanceOf(u)
           a == Giving(b, scaled, everything)
           wallet == accounts[u].wallet + amount
           e == Oracle!calcExpectedUserDataAfterWithdraw(asked, d, after, w, now)
<1>1. /\ u \in Users /\ asked \in Nat /\ op.name = "withdraw" /\ Foresees(d)
      /\ step'.op = op /\ step'.reserveData = d /\ step'.at = now
  BY MinedForesees, AskedNat DEF Withdrawals
<1>2. WalletOwner' = u
  BY <1>1 DEF WalletOwner
<1>3. UserShows(w, u, u)
  BY <1>1, <1>2, UserShown
<1>4. /\ amount \in 1..BalanceOf(u) /\ Withdraw(amount)
      /\ accounts' = Settled(u, a, u, wallet)
  BY DEF WithdrawTo, Settled
<1>5. token' = token
  BY <1>4 DEF Withdraw, OtherCall, Call
<1>6. UserExpected' = e
  BY <1>1 DEF UserExpected, ExpectedUserData
<1>7. Income \in Nat \ {0} /\ RAY <= Income /\ RAY \in Nat /\ b \in Account
      /\ b.scaledBalance \in Nat /\ BalanceOf(u) \in Nat /\ b.wallet \in Int
  BY <1>1, MarketFacts, SameIndices, ScaleAssumption DEF MarketInv
<1>8. Oracle!calcExpectedATokenBalance(d, w, now) = BalanceOf(u)
  <2>1. Oracle!calcExpectedReserveNormalizedIncome(d, now) = Income
    BY <1>1, IndicesForeseen DEF Foresees
  <2>2. w.scaledATokenBalance = b.scaledBalance
    BY <1>3 DEF UserShows
  <2> HIDE DEF w, b
  <2> QED
    BY <1>7, <2>1, <2>2, OracleArithmetic DEF Oracle!calcExpectedATokenBalance, BalanceOf, b
<1> DEFINE taken == IF asked = MAX_UINT_AMOUNT THEN BalanceOf(u) ELSE asked
<1>9. taken = amount
  OBVIOUS
<1> HIDE DEF amount
<1>10. amount \in Nat /\ scaled \in Nat /\ wallet \in Int /\ everything \in BOOLEAN
  BY <1>1, <1>4, <1>7, RayDivNat
<1>11. scaled <= b.scaledBalance
  BY <1>4, <1>7, <1>10, BurnWithinBalance DEF BalanceOf
<1>12. w.currentATokenBalance # 0 /\ DOMAIN w = ReadUserData
  <2>1. b.scaledBalance # 0
    <3> SUFFICES ASSUME b.scaledBalance = 0 PROVE FALSE
      OBVIOUS
    <3>1. rayMul(b.scaledBalance, Income) = 0
      BY <1>7, RayMulZero
    <3>2. BalanceOf(u) = 0
      BY <3>1 DEF BalanceOf
    <3> QED
      BY <1>4, <3>2
  <2> QED
    BY <1>3, <2>1 DEF UserShows
<1>13. after.liquidityIndex = Income
  <2>1. Foreseen'
    BY WithdrawForeseen
  <2>2. CallKept(UpToDateReserve)
    BY <1>4, <1>10, WithdrawKeeps DEF MarketInv
  <2> QED
    BY <2>1, <2>2, IndicesConcluded
<1>14. Oracle!calcExpectedScaledATokenBalance(w, after.liquidityIndex, 0, amount)
         = b.scaledBalance - scaled
  BY <1>3, <1>7, <1>10, <1>13, SharesForeseen DEF UserShows
<1>15. UserBooked(e, b.scaledBalance - scaled, b.scaledDebt, token.principal[u],
                  b.usedAsCollateral /\ ~everything, wallet)
  <2>1. UserBooked(e, Oracle!calcExpectedScaledATokenBalance(w, after.liquidityIndex, 0, amount),
                   w.scaledVariableDebt, w.principalStableDebt,
                   \/ w.currentATokenBalance = 0
                   \/ w.usageAsCollateralEnabled /\ BalanceOf(u) # amount,
                   w.walletBalance + amount)
    <3>1. amount = IF asked = MAX_UINT_AMOUNT THEN BalanceOf(u) ELSE asked
      BY <1>9
    <3>2. DOMAIN w = ReadUserData
      BY <1>12
    <3> HIDE DEF d, w, after, asked, u
    <3> QED
      BY <1>8, <3>1, <3>2, WithdrawBooked
  <2> HIDE DEF e, w, after, scaled
  <2> QED
    BY <1>3, <1>12, <1>14, <2>1 DEF UserShows, UserBooked
<1> HIDE DEF scaled, wallet, e, w, after, everything, u, asked
<1>16. /\ a \in Account /\ a.scaledBalance = b.scaledBalance - scaled
       /\ a.scaledDebt = b.scaledDebt
       /\ a.usedAsCollateral = (b.usedAsCollateral /\ ~everything)
  <2>1. b \in Account /\ scaled \in Nat /\ everything \in BOOLEAN /\ scaled <= b.scaledBalance
    BY <1>7, <1>10, <1>11
  <2> HIDE DEF b
  <2>2. /\ a \in Account /\ a.scaledBalance = b.scaledBalance - scaled
        /\ a.scaledDebt = b.scaledDebt
    BY <2>1, AccountMoved
  <2>3. a.usedAsCollateral = (b.usedAsCollateral /\ ~everything)
    BY <2>1, AccountMarked
  <2> QED
    BY <2>2, <2>3
<1> HIDE DEF a
<1>17. /\ accounts'[u].scaledBalance = a.scaledBalance /\ accounts'[u].scaledDebt = a.scaledDebt
       /\ accounts'[u].usedAsCollateral = a.usedAsCollateral /\ accounts'[u].wallet = wallet
  BY <1>1, <1>4, <1>10, <1>16, AccountAfter
<1>18. step'.op.u = u
  BY <1>1 DEF u
<1> HIDE DEF b
<1> QED
  BY <1>2, <1>5, <1>6, <1>15, <1>16, <1>17, <1>18, UserForeseenWhenBooked

LEMMA UserBorrowVariable ==
    ASSUME MarketInv, ReadInv, BooksRead, UsersRead, EarnsOnUse', NEW op \in Borrows,
           op.mode # Oracle!Stable, Mined(op), BorrowAtVariable(op.user, op.u, op.amount)
    PROVE  UserForeseen'
<1> DEFINE user == op.user
           u == op.u
           amount == op.amount
           d == step.reserveData
           w == UserDataBefore'
           after == ExpectedReserveData'
           b == accounts[u]
           scaled == rayDiv(amount, DebtIndex)
           a == Owing(b, scaled)
           wallet == accounts[user].wallet + amount
           e == Oracle!calcExpectedUserDataAfterBorrow(amount, op.mode, d, after, w, now, now')
<1>1. /\ user \in Users /\ u \in Users /\ amount \in Nat /\ op.name = "borrow" /\ Foresees(d)
      /\ op.mode \in {Oracle!Stable, Oracle!Variable} /\ op.mode = Oracle!Variable
      /\ step'.op = op /\ step'.reserveData = d /\ step'.at = now
  BY MinedForesees, AmountsNat DEF Borrows
<1>2. WalletOwner' = user
  BY <1>1 DEF WalletOwner
<1>3. UserShows(w, u, user)
  BY <1>1, <1>2, UserShown
<1>4. BorrowVariable(amount) /\ accounts' = Settled(u, a, user, wallet)
  BY DEF BorrowAtVariable, Settled
<1>5. token' = token
  BY <1>4 DEF BorrowVariable, OtherCall, Call
<1>6. UserExpected' = e
  BY <1>1 DEF UserExpected, ExpectedUserData
<1>7. DebtIndex \in Nat \ {0} /\ b \in Account /\ b.scaledDebt \in Nat
      /\ scaled \in Nat /\ wallet \in Int
  BY <1>1, MarketFacts, SameIndices, RayDivNat DEF MarketInv
<1>8. after.variableBorrowIndex = DebtIndex
  <2>1. Foreseen'
    BY BorrowVariableForeseen
  <2>2. CallKept(UpToDateReserve)
    BY <1>1, <1>4, BorrowVariableKeeps DEF MarketInv
  <2> QED
    BY <2>1, <2>2, IndicesConcluded
<1> DEFINE debt == d.scaledVariableDebt + Oracle!rayDiv(amount, after.variableBorrowIndex)
<1>9. UserBooked(e, b.scaledBalance, debt, token.principal[u], b.usedAsCollateral, wallet)
  <2>1. UserBooked(e, w.scaledATokenBalance, debt, w.principalStableDebt,
                   w.usageAsCollateralEnabled, w.walletBalance + amount)
    <3>1. DOMAIN w = ReadUserData
      BY <1>3 DEF UserShows
    <3> HIDE DEF w, after
    <3> QED
      BY <3>1, BorrowBooked
  <2> HIDE DEF e, w, after, debt
  <2> QED
    BY <1>3, <2>1 DEF UserShows, UserBooked
<1>10. "scaledVariableDebt" \notin UserUnforeseen' => debt = b.scaledDebt + scaled
  <2>1. Oracle!rayDiv(amount, after.variableBorrowIndex) = scaled
    BY <1>1, <1>7, <1>8, OracleArithmetic
  <2>2. w.scaledVariableDebt = b.scaledDebt
    BY <1>3 DEF UserShows
  <2> SUFFICES ASSUME "scaledVariableDebt" \notin UserUnforeseen'
               PROVE  d.scaledVariableDebt = w.scaledVariableDebt
    BY <2>1, <2>2
  <2> QED
    BY <1>1 DEF UserUnforeseen
<1> HIDE DEF scaled, wallet, e, w, after, debt, user, u, amount
<1>11. /\ a \in Account /\ a.scaledBalance = b.scaledBalance
       /\ a.scaledDebt = b.scaledDebt + scaled /\ a.usedAsCollateral = b.usedAsCollateral
  BY <1>7, AccountMoved, AccountMarked
<1> HIDE DEF a
<1>12. /\ accounts'[u].scaledBalance = a.scaledBalance /\ accounts'[u].scaledDebt = a.scaledDebt
       /\ accounts'[u].usedAsCollateral = a.usedAsCollateral /\ accounts'[user].wallet = wallet
  BY <1>1, <1>4, <1>7, <1>11, AccountAfter
<1>13. step'.op.u = u
  BY <1>1 DEF u
<1> HIDE DEF b
<1> QED
  BY <1>2, <1>5, <1>6, <1>9, <1>10, <1>11, <1>12, <1>13, UserForeseenWhenBooked

LEMMA UserBorrowStable ==
    ASSUME MarketInv, ReadInv, BooksRead, UsersRead, EarnsOnUse', NEW op \in Borrows,
           op.mode = Oracle!Stable, Mined(op), BorrowAtStable(op.user, op.u, op.amount)
    PROVE  UserForeseen'
<1> DEFINE user == op.user
           u == op.u
           amount == op.amount
           d == step.reserveData
           w == UserDataBefore'
           after == ExpectedReserveData'
           debt == StableBalanceOf(token, u)
           principal == debt + amount
           wallet == accounts[user].wallet + amount
           e == Oracle!calcExpectedUserDataAfterBorrow(amount, op.mode, d, after, w, now, now')
<1>1. /\ user \in Users /\ u \in Users /\ amount \in Nat \ {0} /\ op.name = "borrow"
      /\ step'.op = op /\ step'.reserveData = d /\ step'.at = now
  BY MinedForesees, AmountsNat DEF Borrows
<1>2. WalletOwner' = user
  BY <1>1 DEF WalletOwner
<1>3. UserShows(w, u, user)
  BY <1>1, <1>2, UserShown
<1>4. BorrowStable(u, amount) /\ accounts' = WalletSet(user, wallet)
  BY DEF BorrowAtStable, WalletSet
<1>5. token'.principal[u] = principal
  <2>1. token' = Minted(token, u, amount, UpToDateReserve.currentStableBorrowRate)
    BY <1>4 DEF BorrowStable, StableCall, Call
  <2>2. token \in Token /\ token.principal \in [Users -> Nat]
    BY <1>1, PrincipalFacts
  <2>3. token'.principal = [token.principal EXCEPT ![u] = principal]
    BY <1>1, <2>1, <2>2, PrincipalMinted
  <2> QED
    BY <1>1, <2>2, <2>3
<1>6. UserExpected' = e
  BY <1>1 DEF UserExpected, ExpectedUserData
<1>7. Oracle!StableDebtOf(w, now) = debt
  BY <1>1, UserForesees
<1>8. UserBooked(e, accounts[u].scaledBalance, accounts[u].scaledDebt, principal,
                 accounts[u].usedAsCollateral, wallet)
  <2>1. UserBooked(e, w.scaledATokenBalance, w.scaledVariableDebt,
                   Oracle!StableDebtOf(w, now) + amount,
                   w.usageAsCollateralEnabled, w.walletBalance + amount)
    <3>1. DOMAIN w = ReadUserData
      BY <1>3 DEF UserShows
    <3> DEFINE x == d.scaledVariableDebt + Oracle!rayDiv(amount, after.variableBorrowIndex)
    <3> HIDE DEF w, after, amount, d
    <3>2. UserBooked(e, w.scaledATokenBalance,
                     IF op.mode = Oracle!Stable THEN w.scaledVariableDebt ELSE x,
                     IF op.mode = Oracle!Stable THEN Oracle!StableDebtOf(w, now) + amount
                     ELSE w.principalStableDebt,
                     w.usageAsCollateralEnabled, w.walletBalance + amount)
      BY <3>1, BorrowBooked
    <3> HIDE DEF x, e
    <3> QED
      BY <3>2
  <2> HIDE DEF e, w, debt
  <2> QED
    BY <1>3, <1>7, <2>1 DEF UserShows, UserBooked
<1> HIDE DEF wallet, e, w, principal, user, u, amount
<1>9. /\ accounts'[u].scaledBalance = accounts[u].scaledBalance
      /\ accounts'[u].scaledDebt = accounts[u].scaledDebt
      /\ accounts'[u].usedAsCollateral = accounts[u].usedAsCollateral
      /\ accounts'[user].wallet = wallet
  BY <1>1, <1>4, WalletAfter
<1>10. step'.op.u = u
  BY <1>1 DEF u
<1> QED
  BY <1>2, <1>5, <1>6, <1>8, <1>9, <1>10, UserForeseenWhenBooked

LEMMA UserRepayVariable ==
    ASSUME MarketInv, ReadInv, BooksRead, UsersRead, EarnsOnUse', NEW op \in Repayments,
           op.mode # Oracle!Stable, Mined(op), AskedWithinDebt',
           RepayAtVariable(op.user, op.u, op.amount)
    PROVE  UserForeseen'
<1> DEFINE user == op.user
           u == op.u
           asked == op.amount
           amount == Payback(asked, VariableDebtOf(u))
           d == step.reserveData
           w == UserDataBefore'
           after == ExpectedReserveData'
           b == accounts[u]
           scaled == rayDiv(amount, DebtIndex)
           a == Owed(b, scaled)
           payment == accounts[user].wallet - amount
           stableDebt == Oracle!StableDebtOf(w, now)
           left == IF user = u THEN b.wallet - amount ELSE b.wallet
           e == Oracle!calcExpectedUserDataAfterRepay(asked, op.mode, d, after, w, user = u,
                                                      now, now')
<1>1. /\ user \in Users /\ u \in Users /\ op.name = "repay"
      /\ op.mode \in {Oracle!Stable, Oracle!Variable} /\ op.mode = Oracle!Variable
      /\ step'.op = op /\ step'.reserveData = d /\ step'.at = now
  BY MinedForesees DEF Repayments
<1>2. WalletOwner' = u
  BY <1>1 DEF WalletOwner
<1>3. UserShows(w, u, u)
  BY <1>1, <1>2, UserShown
<1>4. /\ scaled \in 1..b.scaledDebt /\ RepayVariable(amount)
      /\ accounts' = Settled(u, a, user, payment)
  BY DEF RepayAtVariable, Settled
<1>5. token' = token
  BY <1>4 DEF RepayVariable, OtherCall, Call
<1>6. UserExpected' = e
  BY <1>1 DEF UserExpected, ExpectedUserData
<1>7. /\ amount \in Nat /\ CallKept(UpToDateReserve)
      /\ amount = Oracle!Repaid(asked, op.mode, stableDebt,
                                Oracle!calcExpectedVariableDebtTokenBalance(d, w, now))
  BY AskedInVariable
<1>8. after.variableBorrowIndex = DebtIndex /\ now' = now
  BY <1>7, RepayVariableForeseen, IndicesConcluded
<1> HIDE DEF amount
<1>9. DebtIndex \in Nat \ {0} /\ b \in Account /\ b.scaledDebt \in Nat /\ b.wallet \in Int
      /\ payment \in Int /\ scaled \in Nat /\ scaled <= b.scaledDebt
  BY <1>1, <1>4, <1>7, MarketFacts, SameIndices, RayDivNat DEF MarketInv
<1> DEFINE debt == w.scaledVariableDebt - Oracle!rayDiv(amount, after.variableBorrowIndex)
<1>10. debt = b.scaledDebt - scaled
  <2>1. Oracle!rayDiv(amount, after.variableBorrowIndex) = scaled
    BY <1>7, <1>8, <1>9, OracleArithmetic
  <2> QED
    BY <1>3, <2>1 DEF UserShows
<1>11. UserBooked(e, b.scaledBalance, b.scaledDebt - scaled, stableDebt, b.usedAsCollateral, left)
  <2>1. UserBooked(e, w.scaledATokenBalance, debt, stableDebt, w.usageAsCollateralEnabled,
                   IF user = u THEN w.walletBalance - amount ELSE w.walletBalance)
    <3>1. DOMAIN w = ReadUserData /\ stableDebt = Oracle!StableDebtOf(w, now')
      BY <1>3, <1>8 DEF UserShows
    <3>2. amount = Oracle!Repaid(asked, op.mode, stableDebt,
                                 Oracle!calcExpectedVariableDebtTokenBalance(d, w, now'))
      BY <1>7, <1>8
    <3> HIDE DEF w, after, asked, d, stableDebt
    <3> DEFINE own == user = u
    <3>3. UserBooked(Oracle!calcExpectedUserDataAfterRepay(asked, op.mode, d, after, w, own,
                                                           now, now'),
                     w.scaledATokenBalance,
                     IF op.mode = Oracle!Stable THEN w.scaledVariableDebt ELSE debt,
                     IF op.mode = Oracle!Stable THEN stableDebt - amount ELSE stableDebt,
                     w.usageAsCollateralEnabled,
                     IF own THEN w.walletBalance - amount ELSE w.walletBalance)
      <4> HIDE DEF own
      <4> QED
        BY <3>1, <3>2, RepayBooked
    <3> HIDE DEF debt, e
    <3> QED
      BY <3>3 DEF e
  <2> HIDE DEF e, w, debt, scaled, stableDebt
  <2> QED
    BY <1>3, <1>10, <2>1 DEF UserShows, UserBooked
<1>12. "principalStableDebt" \notin UserUnforeseen' => token'.principal[u] = stableDebt
  <2> SUFFICES ASSUME "principalStableDebt" \notin UserUnforeseen'
               PROVE  token'.principal[u] = stableDebt
    OBVIOUS
  <2>1. w.principalStableDebt = 0
    BY <1>1 DEF UserUnforeseen
  <2>2. token.principal[u] = 0
    BY <1>3, <2>1 DEF UserShows
  <2>3. stableDebt = StableBalanceOf(token, u)
    BY <1>1, UserForesees
  <2> QED
    BY <1>1, <1>5, <2>2, <2>3, StableDebtOfNothing, Present DEF MarketInv
<1> HIDE DEF scaled, payment, stableDebt, e, w, after, debt, user, u, asked
<1>13. /\ a \in Account /\ a.scaledBalance = b.scaledBalance
       /\ a.scaledDebt = b.scaledDebt - scaled /\ a.usedAsCollateral = b.usedAsCollateral
       /\ a.wallet = b.wallet
  <2>1. b \in Account /\ scaled \in Nat /\ scaled <= b.scaledDebt
    BY <1>9
  <2> HIDE DEF b
  <2> QED
    BY <2>1, AccountMoved, AccountMarked
<1> HIDE DEF a
<1>14. /\ accounts'[u].scaledBalance = a.scaledBalance /\ accounts'[u].scaledDebt = a.scaledDebt
       /\ accounts'[u].usedAsCollateral = a.usedAsCollateral
       /\ accounts'[user].wallet = payment
       /\ user # u => accounts'[u].wallet = a.wallet
  BY <1>1, <1>4, <1>9, <1>13, AccountAfter
<1>15. accounts'[u].wallet = left
  <2>1. user = u => payment = b.wallet - amount
    BY DEF payment
  <2> QED
    BY <1>13, <1>14, <2>1
<1>16. step'.op.u = u
  BY <1>1 DEF u
<1> HIDE DEF b, left
<1> QED
  BY <1>2, <1>5, <1>6, <1>11, <1>12, <1>13, <1>14, <1>15, <1>16, UserForeseenWhenBooked

LEMMA UserRepayStable ==
    ASSUME MarketInv, ReadInv, BooksRead, UsersRead, EarnsOnUse', NEW op \in Repayments,
           op.mode = Oracle!Stable, Mined(op), AskedWithinDebt',
           RepayAtStable(op.user, op.u, op.amount)
    PROVE  UserForeseen'
<1> DEFINE user == op.user
           u == op.u
           asked == op.amount
           debt == StableBalanceOf(token, u)
           amount == Payback(asked, debt)
           d == step.reserveData
           w == UserDataBefore'
           after == ExpectedReserveData'
           b == accounts[u]
           payment == accounts[user].wallet - amount
           variableDebt == Oracle!calcExpectedVariableDebtTokenBalance(d, w, now)
           principal == debt - amount
           left == IF user = u THEN b.wallet - amount ELSE b.wallet
           e == Oracle!calcExpectedUserDataAfterRepay(asked, op.mode, d, after, w, user = u,
                                                      now, now')
<1>1. /\ user \in Users /\ u \in Users /\ op.name = "repay"
      /\ step'.op = op /\ step'.reserveData = d /\ step'.at = now
  BY MinedForesees DEF Repayments
<1>2. WalletOwner' = u
  BY <1>1 DEF WalletOwner
<1>3. UserShows(w, u, u)
  BY <1>1, <1>2, UserShown
<1>4. RepayStable(u, amount) /\ accounts' = WalletSet(user, payment)
  BY DEF RepayAtStable, WalletSet
<1>5. UserExpected' = e
  BY <1>1 DEF UserExpected, ExpectedUserData
<1>6. amount \in Nat /\ amount = Oracle!Repaid(asked, op.mode, debt, variableDebt)
  BY AskedInStable
<1>7. now' = now
  BY <1>4, <1>6, <1>1, RepayStableKeeps DEF CallKept, MarketInv
<1>8. Oracle!StableDebtOf(w, now) = debt
  BY <1>1, UserForesees
<1> HIDE DEF amount
<1>9. token'.principal[u] = principal
  <2>1. token' = Burned(token, u, amount)
    BY <1>4 DEF RepayStable, StableCall, Call
  <2>2. token \in Token /\ token.principal \in [Users -> Nat]
    BY <1>1, PrincipalFacts
  <2>3. token'.principal = [token.principal EXCEPT ![u] = principal]
    BY <1>1, <2>1, <2>2, PrincipalBurned
  <2> QED
    BY <1>1, <2>2, <2>3
<1>10. UserBooked(e, b.scaledBalance, b.scaledDebt, principal, b.usedAsCollateral, left)
  <2>1. UserBooked(e, w.scaledATokenBalance, w.scaledVariableDebt, principal,
                   w.usageAsCollateralEnabled,
                   IF user = u THEN w.walletBalance - amount ELSE w.walletBalance)
    <3>1. DOMAIN w = ReadUserData /\ debt = Oracle!StableDebtOf(w, now')
      BY <1>3, <1>7, <1>8 DEF UserShows
    <3>2. amount = Oracle!Repaid(asked, op.mode, debt,
                                 Oracle!calcExpectedVariableDebtTokenBalance(d, w, now'))
      BY <1>6, <1>7
    <3> HIDE DEF w, after, asked, d, debt
    <3> DEFINE own == user = u
               x == w.scaledVariableDebt - Oracle!rayDiv(amount, after.variableBorrowIndex)
    <3>3. UserBooked(Oracle!calcExpectedUserDataAfterRepay(asked, op.mode, d, after, w, own,
                                                           now, now'),
                     w.scaledATokenBalance,
                     IF op.mode = Oracle!Stable THEN w.scaledVariableDebt ELSE x,
                     IF op.mode = Oracle!Stable THEN debt - amount ELSE debt,
                     w.usageAsCollateralEnabled,
                     IF own THEN w.walletBalance - amount ELSE w.walletBalance)
      <4> HIDE DEF own
      <4> QED
        BY <3>1, <3>2, RepayBooked
    <3> HIDE DEF x, e
    <3> QED
      BY <3>3 DEF e
  <2> HIDE DEF e, w, principal
  <2> QED
    BY <1>3, <2>1 DEF UserShows, UserBooked
<1> HIDE DEF payment, e, w, after, principal, user, u, asked
<1>11. /\ accounts'[u].scaledBalance = b.scaledBalance /\ accounts'[u].scaledDebt = b.scaledDebt
       /\ accounts'[u].usedAsCollateral = b.usedAsCollateral
       /\ accounts'[user].wallet = payment
       /\ user # u => accounts'[u].wallet = b.wallet
  BY <1>1, <1>4, WalletAfter
<1>12. accounts'[u].wallet = left
  <2>1. user = u => payment = b.wallet - amount
    BY DEF payment
  <2> QED
    BY <1>11, <2>1
<1>13. step'.op.u = u
  BY <1>1 DEF u
<1> HIDE DEF b, left
<1> QED
  BY <1>2, <1>5, <1>9, <1>10, <1>11, <1>12, <1>13, UserForeseenWhenBooked

LEMMA UserSwapFromStable ==
    ASSUME MarketInv, ReadInv, BooksRead, UsersRead, EarnsOnUse', NEW op \in Swaps,
           op.mode = Oracle!Stable, Mined(op), SwapFromStable(op.u)
    PROVE  UserForeseen'
<1> DEFINE u == op.u
           debt == StableBalanceOf(token, u)
           d == step.reserveData
           w == UserDataBefore'
           after == ExpectedReserveData'
           b == accounts[u]
           scaled == rayDiv(debt, DebtIndex)
           a == Owing(b, scaled)
           e == Oracle!calcExpectedUserDataAfterSwapRateMode(d, after, w, op.mode, now)
<1>1. /\ u \in Users /\ op.name = "swapBorrowRateMode"
      /\ step'.op = op /\ step'.reserveData = d /\ step'.at = now
  BY MinedForesees DEF Swaps
<1>2. WalletOwner' = u
  BY <1>1 DEF WalletOwner
<1>3. UserShows(w, u, u)
  BY <1>1, <1>2, UserShown
<1>4. SwapToVariable(u) /\ accounts' = [accounts EXCEPT ![u] = a]
  BY DEF SwapFromStable
<1>5. UserExpected' = e
  BY <1>1 DEF UserExpected, ExpectedUserData
<1>6. DebtIndex \in Nat \ {0} /\ b \in Account /\ b.scaledDebt \in Nat
      /\ debt \in Nat /\ scaled \in Nat /\ accounts \in [Users -> Account]
  BY <1>1, MarketFacts, SameIndices, RayDivNat DEF MarketInv, AccountsInv
<1>7. Oracle!StableDebtOf(w, now) = debt
  BY <1>1, UserForesees
<1>8. after.variableBorrowIndex = DebtIndex
  <2>1. Foreseen'
    BY SwapFromStableForeseen
  <2>2. CallKept(UpToDateReserve)
    BY <1>1, <1>4, SwapToVariableKeeps DEF MarketInv
  <2> QED
    BY <2>1, <2>2, IndicesConcluded
<1>9. token'.principal[u] = 0
  <2>1. token' = Burned(token, u, debt)
    BY <1>4 DEF SwapToVariable, StableCall, Call
  <2>2. token \in Token /\ token.principal \in [Users -> Nat] /\ 0 = debt - debt
    BY <1>1, <1>6, PrincipalFacts
  <2>3. token'.principal = [token.principal EXCEPT ![u] = 0]
    BY <1>1, <2>1, <2>2, PrincipalBurned
  <2> QED
    BY <1>1, <2>2, <2>3
<1>10. UserBooked(e, b.scaledBalance, b.scaledDebt + scaled, 0, b.usedAsCollateral, b.wallet)
  <2> DEFINE x == w.scaledVariableDebt
                    + Oracle!rayDiv(Oracle!StableDebtOf(w, now), after.variableBorrowIndex)
             y == w.currentStableDebt + Oracle!calcExpectedVariableDebtTokenBalance(d, w, now)
  <2>1. UserBooked(e, w.scaledATokenBalance, x, 0, w.usageAsCollateralEnabled, w.walletBalance)
    <3>1. DOMAIN w = ReadUserData
      BY <1>3 DEF UserShows
    <3> HIDE DEF w, after, d
    <3>2. UserBooked(e, w.scaledATokenBalance, IF op.mode = Oracle!Stable THEN x ELSE 0,
                     IF op.mode = Oracle!Stable THEN 0 ELSE y,
                     w.usageAsCollateralEnabled, w.walletBalance)
      BY <3>1, SwapBooked
    <3> HIDE DEF x, y, e
    <3> QED
      BY <3>2
  <2>2. x = b.scaledDebt + scaled
    <3>1. Oracle!rayDiv(debt, DebtIndex) = scaled
      BY <1>6, OracleArithmetic
    <3> QED
      BY <1>3, <1>7, <1>8, <3>1 DEF UserShows
  <2> HIDE DEF e, w, x, scaled
  <2> QED
    BY <1>3, <2>1, <2>2 DEF UserShows, UserBooked
<1> HIDE DEF scaled, e, w, after, u, debt
<1>11. /\ a \in Account /\ a.scaledBalance = b.scaledBalance
       /\ a.scaledDebt = b.scaledDebt + scaled /\ a.usedAsCollateral = b.usedAsCollateral
       /\ a.wallet = b.wallet
  <2>1. b \in Account /\ scaled \in Nat
    BY <1>6
  <2> HIDE DEF b
  <2> QED
    BY <2>1, AccountMoved, AccountMarked
<1> HIDE DEF a
<1>12. accounts'[u] = a
  BY <1>1, <1>4, <1>6
<1>13. step'.op.u = u
  BY <1>1 DEF u
<1> HIDE DEF b
<1> QED
  BY <1>2, <1>5, <1>9, <1>10, <1>11, <1>12, <1>13, UserForeseenWhenBooked

LEMMA UserSwapFromVariable ==
    ASSUME MarketInv, ReadInv, BooksRead, UsersRead, EarnsOnUse', NEW op \in Swaps,
           op.mode # Oracle!Stable, Mined(op), SwapFromVariable(op.u)
    PROVE  UserForeseen'
<1> DEFINE u == op.u
           debt == VariableDebtOf(u)
           d == step.reserveData
           w == UserDataBefore'
           after == ExpectedReserveData'
           b == accounts[u]
           scaled == rayDiv(debt, DebtIndex)
           a == Owed(b, scaled)
           variableDebt == Oracle!calcExpectedVariableDebtTokenBalance(d, w, now)
           joined == w.currentStableDebt + variableDebt
           principal == StableBalanceOf(token, u) + debt
           e == Oracle!calcExpectedUserDataAfterSwapRateMode(d, after, w, op.mode, now)
<1>1. /\ u \in Users /\ op.name = "swapBorrowRateMode"
      /\ op.mode \in {Oracle!Stable, Oracle!Variable} /\ op.mode = Oracle!Variable
      /\ step'.op = op /\ step'.reserveData = d /\ step'.at = now
  BY MinedForesees DEF Swaps
<1>2. WalletOwner' = u
  BY <1>1 DEF WalletOwner
<1>3. UserShows(w, u, u)
  BY <1>1, <1>2, UserShown
<1>4. /\ scaled \in 1..b.scaledDebt /\ SwapToStable(u, debt)
      /\ accounts' = [accounts EXCEPT ![u] = a]
  BY DEF SwapFromVariable
<1>5. UserExpected' = e
  BY <1>1 DEF UserExpected, ExpectedUserData
<1>6. DebtIndex \in Nat \ {0} /\ DebtIndex >= RAY /\ RAY \in Nat
      /\ b \in Account /\ b.scaledDebt \in Nat
      /\ debt \in Nat /\ accounts \in [Users -> Account]
  BY <1>1, MarketFacts, SameIndices, ScaleAssumption DEF MarketInv, AccountsInv
<1>7. scaled = b.scaledDebt
  BY <1>6, RoundTrip DEF VariableDebtOf
<1>8. variableDebt = debt
  <2>1. reserve.scaledVariableDebt # 0
    <3>1. rayDiv(debt, UpToDateReserve.variableBorrowIndex)
            \in 1..UpToDateReserve.scaledVariableDebt
      BY <1>4 DEF SwapToStable
    <3>2. UpToDateReserve.scaledVariableDebt \in Nat
      BY PresentFacts DEF MarketInv
    <3>3. UpToDateReserve.scaledVariableDebt # 0
      BY <3>1, <3>2
    <3> QED
      BY <3>3, SameIndices DEF MarketInv
  <2> QED
    BY <1>1, <2>1, DebtForeseen
<1>9. token'.principal[u] = principal
  <2>1. token' = Minted(token, u, debt, UpToDateReserve.currentStableBorrowRate)
    BY <1>4 DEF SwapToStable, StableCall, Call
  <2>2. token \in Token /\ token.principal \in [Users -> Nat]
    BY <1>1, PrincipalFacts
  <2> HIDE DEF debt
  <2>3. token'.principal = [token.principal EXCEPT ![u] = principal]
    BY <1>1, <2>1, <2>2, PrincipalMinted
  <2> QED
    BY <1>1, <2>2, <2>3
<1>10. UserBooked(e, b.scaledBalance, 0, joined, b.usedAsCollateral, b.wallet)
  <2> DEFINE x == w.scaledVariableDebt
                    + Oracle!rayDiv(Oracle!StableDebtOf(w, now), after.variableBorrowIndex)
  <2>1. UserBooked(e, w.scaledATokenBalance, 0, joined, w.usageAsCollateralEnabled,
                   w.walletBalance)
    <3>1. DOMAIN w = ReadUserData
      BY <1>3 DEF UserShows
    <3> HIDE DEF w, after, d
    <3>2. UserBooked(e, w.scaledATokenBalance, IF op.mode = Oracle!Stable THEN x ELSE 0,
                     IF op.mode = Oracle!Stable THEN 0 ELSE joined,
                     w.usageAsCollateralEnabled, w.walletBalance)
      BY <3>1, SwapBooked
    <3> HIDE DEF x, joined, e
    <3> QED
      BY <3>2
  <2> HIDE DEF e, w, joined
  <2> QED
    BY <1>3, <2>1 DEF UserShows, UserBooked
<1>11. "principalStableDebt" \notin UserUnforeseen' => principal = joined
  <2> SUFFICES ASSUME "principalStableDebt" \notin UserUnforeseen'
               PROVE  principal = joined
    OBVIOUS
  <2>1. w.principalStableDebt = 0
    BY <1>1 DEF UserUnforeseen
  <2>2. token.principal[u] = 0 /\ w.currentStableDebt = 0
    BY <1>3, <2>1 DEF UserShows
  <2>3. StableBalanceOf(token, u) = 0
    BY <1>1, <2>2, StableDebtOfNothing, Present DEF MarketInv
  <2> QED
    BY <1>8, <2>2, <2>3
<1> HIDE DEF scaled, e, w, after, u, debt, joined, principal
<1>12. /\ a \in Account /\ a.scaledBalance = b.scaledBalance
       /\ a.scaledDebt = 0 /\ a.usedAsCollateral = b.usedAsCollateral
       /\ a.wallet = b.wallet
  <2>1. b \in Account /\ scaled \in Nat /\ scaled <= b.scaledDebt /\ b.scaledDebt - scaled = 0
    BY <1>6, <1>7
  <2> HIDE DEF b
  <2> QED
    BY <2>1, AccountMoved, AccountMarked
<1> HIDE DEF a
<1>13. accounts'[u] = a
  BY <1>1, <1>4, <1>6
<1>14. step'.op.u = u
  BY <1>1 DEF u
<1> HIDE DEF b
<1> QED
  BY <1>2, <1>5, <1>9, <1>10, <1>11, <1>12, <1>13, <1>14, UserForeseenWhenBooked

LEMMA UserRebalance ==
    ASSUME MarketInv, ReadInv, BooksRead, UsersRead, EarnsOnUse', NEW op \in Rebalances,
           Mined(op), RebalanceRate(op.u)
    PROVE  UserForeseen'
<1> DEFINE u == op.u
           debt == StableBalanceOf(token, u)
           d == step.reserveData
           w == UserDataBefore'
           after == ExpectedReserveData'
           b == accounts[u]
           t == Burned(token, u, debt)
           e == Oracle!calcExpectedUserDataAfterStableRateRebalance(d, after, w, now)
<1>1. /\ u \in Users /\ op.name = "rebalanceStableBorrowRate"
      /\ step'.op = op /\ step'.reserveData = d /\ step'.at = now
  BY MinedForesees DEF Rebalances
<1>2. WalletOwner' = u
  BY <1>1 DEF WalletOwner
<1>3. UserShows(w, u, u)
  BY <1>1, <1>2, UserShown
<1>4. RebalanceStableBorrowRate(u) /\ accounts' = accounts
  BY DEF RebalanceRate
<1>5. UserExpected' = e
  BY <1>1 DEF UserExpected, ExpectedUserData
<1>6. Oracle!StableDebtOf(w, now) = debt
  BY <1>1, UserForesees
<1>7. token'.principal[u] = debt
  <2>1. token' = Minted(t, u, debt, UpToDateReserve.currentStableBorrowRate)
    BY <1>4 DEF RebalanceStableBorrowRate, StableCall, Call
  <2>2. /\ token \in Token /\ token.principal \in [Users -> Nat] /\ debt \in Nat
        /\ 0 = debt - debt /\ debt \in 0..debt
    BY <1>1, PrincipalFacts
  <2>3. t \in Token
    BY <1>1, <2>2, Present, BurnedType DEF MarketInv, TokenInv
  <2> HIDE DEF debt
  <2>4. t.principal = [token.principal EXCEPT ![u] = 0]
    <3>1. 0 = StableBalanceOf(token, u) - debt
      BY <2>2 DEF debt
    <3> QED
      BY <1>1, <2>2, <3>1, PrincipalBurned
  <2> HIDE DEF t
  <2>5. debt = StableBalanceOf(t, u) + debt
    <3>1. t.principal[u] = 0
      BY <1>1, <2>2, <2>4
    <3>2. StableBalanceOf(t, u) = 0
      BY <3>1 DEF StableBalanceOf
    <3> QED
      BY <2>2, <3>2
  <2>6. token'.principal = [t.principal EXCEPT ![u] = debt]
    BY <1>1, <2>1, <2>3, <2>5, PrincipalMinted
  <2> QED
    BY <1>1, <2>2, <2>4, <2>6
<1>8. UserBooked(e, b.scaledBalance, b.scaledDebt, debt, b.usedAsCollateral, b.wallet)
  <2>1. UserBooked(e, w.scaledATokenBalance, w.scaledVariableDebt, Oracle!StableDebtOf(w, now),
                   w.usageAsCollateralEnabled, w.walletBalance)
    <3>1. DOMAIN w = ReadUserData
      BY <1>3 DEF UserShows
    <3> HIDE DEF w, after, d
    <3> QED
      BY <3>1, RebalanceBooked
  <2> HIDE DEF e, w
  <2> QED
    BY <1>3, <1>6, <2>1 DEF UserShows, UserBooked
<1> HIDE DEF e, w, after, u, debt
<1>9. accounts'[u] = b /\ step'.op.u = u
  BY <1>1, <1>4 DEF u
<1> HIDE DEF b
<1> QED
  BY <1>2, <1>5, <1>7, <1>8, <1>9, UserForeseenWhenBooked

LEMMA UserSwitch ==
    ASSUME MarketInv, UsersRead, NEW op \in CollateralSwitches, Mined(op),
           SetUseAsCollateral(op.u, op.use)
    PROVE  UserForeseen'
<1> DEFINE u == op.u
           use == op.use
           w == UserDataBefore'
           b == accounts[u]
           a == [b EXCEPT !.usedAsCollateral = use]
           e == Oracle!calcExpectedUserDataAfterSetUseAsCollateral(use, w)
<1>1. u \in Users /\ use \in BOOLEAN /\ op.name = "setUseAsCollateral" /\ step'.op = op
  BY DEF CollateralSwitches, Mined
<1>2. WalletOwner' = u
  BY <1>1 DEF WalletOwner
<1>3. UserShows(w, u, u)
  BY <1>1, <1>2, UserShown
<1>4. accounts' = [accounts EXCEPT ![u] = a] /\ token' = token
  BY DEF SetUseAsCollateral, Call
<1>5. UserExpected' = e
  BY <1>1 DEF UserExpected, ExpectedUserData
<1>6. accounts \in [Users -> Account] /\ b \in Account
  BY <1>1 DEF MarketInv, AccountsInv
<1>7. UserBooked(e, b.scaledBalance, b.scaledDebt, token.principal[u], use, b.wallet)
  <2>1. UserBooked(e, w.scaledATokenBalance, w.scaledVariableDebt, w.principalStableDebt, use,
                   w.walletBalance)
    <3>1. DOMAIN w = ReadUserData
      BY <1>3 DEF UserShows
    <3> HIDE DEF w, use
    <3> QED
      BY <3>1, SwitchBooked
  <2> HIDE DEF e, w
  <2> QED
    BY <1>3, <2>1 DEF UserShows, UserBooked
<1> HIDE DEF e, w, u, use
<1>8. /\ a.scaledBalance = b.scaledBalance /\ a.scaledDebt = b.scaledDebt
      /\ a.usedAsCollateral = use /\ a.wallet = b.wallet
  BY <1>6 DEF Account
<1> HIDE DEF a
<1>9. accounts'[u] = a /\ step'.op.u = u
  BY <1>1, <1>4, <1>6 DEF u
<1> HIDE DEF b
<1> QED
  BY <1>2, <1>4, <1>5, <1>7, <1>8, <1>9, UserForeseenWhenBooked

-----------------------------------------------------------------------------
LEMMA WaitKeepsUser ==
    ASSUME BooksRead, UsersRead, UserBooksForeseen, Wait
    PROVE  UserBooksForeseen'
<1> SUFFICES ASSUME step'.phase = "sent", EarnsOnUse'
             PROVE  UserForeseen'
  BY UserBooksMeanNext DEF Sent
<1> DEFINE d == step.reserveData
           w == UserDataBefore
           amount == step.op.amount
           mode == step.op.mode
           at == step.at
           x == ExpectedReserveData
           y == ExpectedReserveData'
           one == Oracle!calcExpectedUserDataAfterBorrow(amount, mode, d, x, w, at, now)
           other == Oracle!calcExpectedUserDataAfterBorrow(amount, mode, d, y, w, at, now')
           index == x.variableBorrowIndex
           debt == IF mode = Oracle!Stable THEN w.scaledVariableDebt
                   ELSE d.scaledVariableDebt + Oracle!rayDiv(amount, index)
           principal == IF mode = Oracle!Stable THEN Oracle!StableDebtOf(w, at) + amount
                        ELSE w.principalStableDebt
<1>1. /\ step' = step /\ token' = token /\ accounts' = accounts
      /\ step.phase = "sent" /\ step.op.name = "borrow"
  BY DEF Wait, TimePasses, Tick
<1>2. UserForeseen
  BY <1>1, UserBooksMean DEF Sent, AskedWithinDebt, EarnsOnUse, UserActions
<1>3. /\ UserExpected = one /\ UserExpected' = other
      /\ WalletOwner' = WalletOwner /\ UserUnforeseen' = UserUnforeseen
  BY <1>1 DEF UserExpected, ExpectedUserData, UserDataBefore, WalletOwner, UserUnforeseen
<1>4. y.variableBorrowIndex = index
  <2> DEFINE f(current) == Oracle!calcExpectedReserveDataAfterBorrow(amount, mode, d, at, current)
  <2>1. x = f(now) /\ y = f(now')
    BY <1>1 DEF ExpectedReserveData
  <2>2. DOMAIN d = ReadData
    BY <1>1 DEF BooksRead
  <2>3. Books(f(now)) = Books(f(now'))
    BY <2>2, BorrowTimeless
  <2> HIDE DEF f, x, y
  <2> QED
    BY <2>1, <2>3 DEF Books
<1>5. DOMAIN w = ReadUserData
  BY <1>1 DEF UsersRead, Sent, UserDataBefore
<1> HIDE DEF x, y, w, d, at, amount, mode
<1>6. UserBooked(one, w.scaledATokenBalance, debt, principal, w.usageAsCollateralEnabled,
                 w.walletBalance + amount)
  BY <1>5, BorrowBooked
<1>7. UserBooked(other, w.scaledATokenBalance, debt, principal, w.usageAsCollateralEnabled,
                 w.walletBalance + amount)
  BY <1>4, <1>5, BorrowBooked
<1> HIDE DEF one, other, debt, principal
<1> QED
  BY <1>1, <1>2, <1>3, <1>6, <1>7 DEF UserForeseen, UserBooked

LEMMA InitialUsersRead == ScenarioInit => UsersRead /\ UserBooksForeseen
  BY DEF ScenarioInit, UsersRead, UserBooksForeseen, Sent

LEMMA ReadOfUsers ==
    ASSUME MarketInv, Read
    PROVE  UsersRead' /\ UserBooksForeseen'
<1>1. /\ step'.phase = "read" /\ step'.userData = [u \in Users |-> getUserData(u, u)]
      /\ UNCHANGED <<token, accounts>>
  BY DEF Read, marketVars, reserveVars, tokenVars
<1>2. ASSUME NEW u \in Users
      PROVE  UserShows(step.userData[u], u, u)'
  <2> DEFINE w == getUserData(u, u)
  <2>1. UserShows(w, u, u)
    BY UserReadingShows
  <2>2. step'.userData[u] = w
    BY <1>1
  <2> HIDE DEF w
  <2> QED
    BY <1>1, <2>1, <2>2 DEF UserShows
<1>3. UsersRead'
  BY <1>1, <1>2 DEF UsersRead, Sent
<1> QED
  BY <1>1, <1>3 DEF UserBooksForeseen, Sent

LEMMA UsersReadWaits ==
    ASSUME UsersRead, UNCHANGED <<token, reserve, accounts, step>>
    PROVE  UsersRead'
  BY DEF UsersRead, UserShows, Sent

LEMMA UsersReadSent ==
    ASSUME UsersRead, Sends
    PROVE  UsersRead'
<1>1. \E op : Mined(op) /\ (op.name = "borrow" => op.u \in Users)
  BY DEF Sends, SendDeposit, SendWithdraw, SendBorrow, SendRepay, SendSwapBorrowRateMode,
         SendRebalance, SendSetUseAsCollateral, SendMintUnbacked, SendBackUnbacked,
         SendTransferFrom, Deposits, Withdrawals, Borrows, Repayments, Swaps, Rebalances,
         CollateralSwitches, UnbackedMints, Backings, Transfers
<1>2. PICK op : Mined(op) /\ (op.name = "borrow" => op.u \in Users)
  BY <1>1
<1>3. /\ step.phase = "read" /\ step'.phase = "sent" /\ step'.op = op
      /\ step'.userData = step.userData
  BY <1>2 DEF Mined
<1>4. op.name = "borrow" => DOMAIN step.userData[op.u] = ReadUserData
  BY <1>2, <1>3 DEF UsersRead, UserShows
<1> QED
  BY <1>3, <1>4 DEF UsersRead, Sent

LEMMA UserCallsForeseen ==
    ASSUME MarketInv, ReadInv, BooksRead, UsersRead, Sends
    PROVE  UserBooksForeseen'
<1> DEFINE told == UserForeseen'
<1> SUFFICES ASSUME step'.op.name \in UserActions, AskedWithinDebt', EarnsOnUse'
             PROVE  told
  BY UserBooksMeanNext DEF Sent
<1> HIDE DEF told
<1>1. CASE SendDeposit
  <2>1. PICK op \in Deposits : Mined(op) /\ Deposit(op.user, op.u, op.amount)
    BY <1>1 DEF SendDeposit
  <2> QED
    BY <2>1, UserDeposit DEF told
<1>2. CASE SendWithdraw
  <2>1. PICK op \in Withdrawals : Mined(op) /\ WithdrawTo(op.u, op.amount)
    BY <1>2 DEF SendWithdraw
  <2> QED
    BY <2>1, UserWithdraw DEF told
<1>3. CASE SendBorrow
  <2>1. PICK op \in Borrows :
           /\ Mined(op)
           /\ IF op.mode = Oracle!Stable THEN BorrowAtStable(op.user, op.u, op.amount)
              ELSE BorrowAtVariable(op.user, op.u, op.amount)
    BY <1>3 DEF SendBorrow
  <2> QED
    BY <2>1, UserBorrowStable, UserBorrowVariable DEF told
<1>4. CASE SendRepay
  <2>1. PICK op \in Repayments :
           /\ Mined(op)
           /\ IF op.mode = Oracle!Stable THEN RepayAtStable(op.user, op.u, op.amount)
              ELSE RepayAtVariable(op.user, op.u, op.amount)
    BY <1>4 DEF SendRepay
  <2> QED
    BY <2>1, UserRepayStable, UserRepayVariable DEF told
<1>5. CASE SendSwapBorrowRateMode
  <2>1. PICK op \in Swaps :
           /\ Mined(op)
           /\ IF op.mode = Oracle!Stable THEN SwapFromStable(op.u) ELSE SwapFromVariable(op.u)
    BY <1>5 DEF SendSwapBorrowRateMode
  <2> QED
    BY <2>1, UserSwapFromStable, UserSwapFromVariable DEF told
<1>6. CASE SendRebalance
  <2>1. PICK op \in Rebalances : Mined(op) /\ RebalanceRate(op.u)
    BY <1>6 DEF SendRebalance
  <2> QED
    BY <2>1, UserRebalance DEF told
<1>7. CASE SendSetUseAsCollateral
  <2>1. PICK op \in CollateralSwitches : Mined(op) /\ SetUseAsCollateral(op.u, op.use)
    BY <1>7 DEF SendSetUseAsCollateral
  <2> QED
    BY <2>1, UserSwitch DEF told
<1>8. CASE SendMintUnbacked \/ SendBackUnbacked \/ SendTransferFrom
  <2>1. PICK op \in UnbackedMints \cup Backings \cup Transfers : Mined(op)
    BY <1>8 DEF SendMintUnbacked, SendBackUnbacked, SendTransferFrom
  <2>2. step'.op = op /\ op.name \in {"mintUnbacked", "backUnbacked", "transferFrom"}
    BY <2>1 DEF Mined, UnbackedMints, Backings, Transfers
  <2> QED
    BY <2>2 DEF UserActions
<1> QED
  BY <1>1, <1>2, <1>3, <1>4, <1>5, <1>6, <1>7, <1>8 DEF Sends

LEMMA UserForeseenStutter ==
    ASSUME UserBooksForeseen, UNCHANGED scenarioVars
    PROVE  UserBooksForeseen'
<1>1. UNCHANGED <<now, token, reserve, accounts, step>>
  BY DEF scenarioVars, marketVars, reserveVars, tokenVars
<1>2. ExpectedReserveData' = ExpectedReserveData
  BY <1>1 DEF ExpectedReserveData, UserDataBefore, WalletOwner
<1>3. UserExpected' = UserExpected
  BY <1>1, <1>2 DEF UserExpected, ExpectedUserData, UserDataBefore, WalletOwner
<1>4. UserForeseen' <=> UserForeseen
  BY <1>1, <1>3 DEF UserForeseen, WalletOwner, UserUnforeseen, UserDataBefore
<1>5. AskedWithinDebt' <=> AskedWithinDebt
  <2>1. DebtIndex' = DebtIndex
    BY <1>1 DEF DebtIndex, NextVariableBorrowIndex, getNormalizedDebt, Elapsed
  <2>2. \A op : DebtOf(op)' = DebtOf(op)
    BY <1>1, <2>1 DEF DebtOf, StableBalanceOf
  <2> QED
    BY <1>1, <2>2 DEF AskedWithinDebt
<1>6. (EarnsOnUse' <=> EarnsOnUse) /\ (Sent(UserActions)' <=> Sent(UserActions))
  BY <1>1 DEF EarnsOnUse, Sent
<1> QED
  BY <1>4, <1>5, <1>6, UserBooksMean, UserBooksMeanNext

(* And so is, to the unit, what a call leaves of the user acted for: his   *)
(* scaled supply and debt, his principal in stable mode, whether what he   *)
(* supplies is collateral, and the wallet that was asked about, whoever    *)
(* sends the transaction, however late it is mined and, after a borrow,    *)
(* however late it is read (ScaledBalanceTokenBase.sol,                    *)
(* StableDebtToken.sol, UserConfiguration.sol, against calculations.ts).   *)
THEOREM UserBooksAreForeseen == ScenarioSpec => []UserBooksForeseen
<1> DEFINE Inv == /\ MarketInv /\ ReadInv /\ BooksRead /\ UsersRead
                  /\ UserBooksForeseen
<1>1. ScenarioInit => Inv
  BY InitialMarket, InitialRead, InitialBooksRead, InitialUsersRead DEF ScenarioInit
<1>2. Inv /\ [ScenarioNext]_scenarioVars => Inv'
  <2> SUFFICES ASSUME Inv, [ScenarioNext]_scenarioVars PROVE Inv'
    OBVIOUS
  <2>1. CASE ScenarioNext
    <3>1. MarketInv' /\ ReadInv'
      BY <2>1, MarketSteps, ReadSteps
    <3>2. CASE Read
      BY <3>1, <3>2, ReadOfBooks, ReadOfUsers
    <3>3. CASE Wait
      <4>1. UNCHANGED <<token, reserve, accounts, step>>
        BY <3>3 DEF Wait, TimePasses, Tick
      <4> QED
        BY <3>1, <3>3, <4>1, BooksReadWaits, UsersReadWaits, WaitKeepsUser
    <3>4. CASE Sends
      BY <3>1, <3>4, BooksReadSent, UsersReadSent, UserCallsForeseen
    <3> QED
      BY <2>1, <3>2, <3>3, <3>4 DEF ScenarioNext, Sends
  <2>2. CASE UNCHANGED scenarioVars
    <3>1. UNCHANGED <<token, reserve, accounts, step>>
      BY <2>2 DEF scenarioVars, marketVars, reserveVars, tokenVars
    <3>2. MarketInv' /\ ReadInv'
      BY <2>2, MarketStutters, ReadStutters DEF scenarioVars
    <3> QED
      BY <2>2, <3>1, <3>2, BooksReadWaits, UsersReadWaits, UserForeseenStutter
  <2> QED
    BY <2>1, <2>2
<1> QED
  BY <1>1, <1>2, PTL DEF ScenarioSpec

=============================================================================
