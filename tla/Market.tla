------------------------------- MODULE Market -------------------------------
(***************************************************************************)
(* A reserve with its accounts: who holds its aTokens, who owes it in      *)
(* which mode, what left or entered whose wallet, and the events a         *)
(* transaction emits.  Every call is one of Reserve's with the accounts it *)
(* moves, and ScaledBalanceTokenBase.sol's mint, burn and transfer.        *)
(*                                                                         *)
(* The asset is an ordinary collateral, and what is borrowed is covered by *)
(* collateral in other assets: health, isolation and eMode are the module  *)
(* Pool's.  Allowances and delegated credit are given.                     *)
(***************************************************************************)
EXTENDS Reserve, Sequences

CONSTANTS
    Others,                 \* an account that supplied before the run, and bridges
    InitialLiquidity,       \* what it supplied
    MaxStableLoanPercent,
    bridgeProtocolFee,
    Fees,                   \* what a bridge may pay
    MAX_UINT_AMOUNT         \* stands for "all of it"

ZERO_ADDRESS == "0x0"

ASSUME MarketAssumption ==
    /\ Others \notin Users /\ ZERO_ADDRESS \notin Users
    /\ InitialLiquidity \in Nat
    /\ MaxStableLoanPercent \in 0..PERCENTAGE_FACTOR
    /\ bridgeProtocolFee \in 0..PERCENTAGE_FACTOR
    /\ Fees \subseteq Nat
    /\ MAX_UINT_AMOUNT \in Nat /\ \A x \in Amounts : x < MAX_UINT_AMOUNT

VARIABLES
    accounts,   \* of every user
    logs        \* of the last transaction

marketVars == <<reserveVars, accounts, logs>>

Account ==
    [scaledBalance : Nat, balanceIndex : Nat,   \* of the aToken, and the index last seen
     scaledDebt : Nat, debtIndex : Nat,         \* of the variable debt token
     usedAsCollateral : BOOLEAN,
     wallet : Int]                              \* since the run began

EmptyAccount ==
    [scaledBalance |-> 0, balanceIndex |-> 0, scaledDebt |-> 0, debtIndex |-> 0,
     usedAsCollateral |-> FALSE, wallet |-> 0]

-----------------------------------------------------------------------------
(* The indices a call made at "now" works with.                            *)
Income == NextLiquidityIndex(reserve)
DebtIndex == NextVariableBorrowIndex(reserve)

BalanceOf(u) == rayMul(accounts[u].scaledBalance, Income)
VariableDebtOf(u) == rayMul(accounts[u].scaledDebt, DebtIndex)

-----------------------------------------------------------------------------
(* Events: the underlying's, and the tokens'.                              *)
ATOKEN == "aToken"

Paid(from, to, amount) == {<<"Transfer", "underlying", from, to, amount>>}

(* The interest of a scaled balance since it was last touched.             *)
Increase(scaled, index, last) == rayMul(scaled, index) - rayMul(scaled, last)

MintEvents(tokenName, caller, u, amount, increase, index) ==
    {<<"Transfer", tokenName, ZERO_ADDRESS, u, amount + increase>>,
     <<"Mint", tokenName, caller, u, amount + increase, increase, index>>}

(* Slip: the amount is announced, whatever interest comes with it.         *)
BurnEventsGross(tokenName, u, target, amount, increase, index) ==
    {<<"Transfer", tokenName, u, ZERO_ADDRESS, amount>>,
     <<"Burn", tokenName, u, target, amount, increase, index>>}
BurnEvents(tokenName, u, target, amount, increase, index) ==
    IF increase > amount
    THEN {<<"Transfer", tokenName, ZERO_ADDRESS, u, increase - amount>>,
          <<"Mint", tokenName, u, u, increase - amount, increase, index>>}
    ELSE {<<"Transfer", tokenName, u, ZERO_ADDRESS, amount - increase>>,
          <<"Burn", tokenName, u, target, amount - increase, increase, index>>}

(* What a user is told of his aTokens and of his debt in variable mode.    *)
ATokenIncrease(u) == Increase(accounts[u].scaledBalance, Income, accounts[u].balanceIndex)
DebtIncrease(u) == Increase(accounts[u].scaledDebt, DebtIndex, accounts[u].debtIndex)

ATokensMinted(caller, u, amount) ==
    MintEvents(ATOKEN, caller, u, amount, ATokenIncrease(u), Income)
ATokensBurned(u, amount) == BurnEvents(ATOKEN, u, u, amount, ATokenIncrease(u), Income)
DebtMinted(caller, u, amount) ==
    MintEvents("variableDebt", caller, u, amount, DebtIncrease(u), DebtIndex)
DebtBurned(u, amount) ==
    BurnEvents("variableDebt", u, ZERO_ADDRESS, amount, DebtIncrease(u), DebtIndex)

(* Of the stable debt, t being the token after.                            *)
StableIncrease(u) == StableBalanceOf(token, u) - token.principal[u]

StableMinted(caller, u, amount, t) ==
    {<<"Transfer", "stableDebt", ZERO_ADDRESS, u, amount + StableIncrease(u)>>,
     <<"Mint", "stableDebt", caller, u, amount + StableIncrease(u), StableBalanceOf(token, u),
       StableIncrease(u), t.userRate[u], t.avgStableRate, t.reported.supply>>}

StableBurned(u, amount, t) ==
    LET balance == StableBalanceOf(token, u)
        increase == StableIncrease(u)
    IN  IF increase > amount
        THEN {<<"Transfer", "stableDebt", ZERO_ADDRESS, u, increase - amount>>,
              <<"Mint", "stableDebt", u, u, increase - amount, balance, increase,
                token.userRate[u], t.reported.avgStableRate, t.reported.supply>>}
        ELSE {<<"Transfer", "stableDebt", u, ZERO_ADDRESS, amount - increase>>,
              <<"Burn", "stableDebt", u, amount - increase, balance, increase,
                t.reported.avgStableRate, t.reported.supply>>}

-----------------------------------------------------------------------------
(* How a call moves an account; b is an account.                           *)
Receiving(b, scaled) ==
    [b EXCEPT !.scaledBalance = @ + scaled, !.balanceIndex = Income,
              !.usedAsCollateral = @ \/ b.scaledBalance = 0]

(* Slip: the last withdrawal leaves the supply marked as collateral.       *)
GivingUnnoticed(b, scaled, everything) ==
    [b EXCEPT !.scaledBalance = @ - scaled, !.balanceIndex = Income]
(* Everything gone is collateral no more.                                  *)
Giving(b, scaled, everything) ==
    [b EXCEPT !.scaledBalance = @ - scaled, !.balanceIndex = Income,
              !.usedAsCollateral = @ /\ ~everything]

(* Slip: the index is kept from the first debt on.                         *)
OwingSinceFirst(b, scaled) ==
    [b EXCEPT !.scaledDebt = @ + scaled,
              !.debtIndex = IF b.scaledDebt = 0 THEN DebtIndex ELSE @]
Owing(b, scaled) == [b EXCEPT !.scaledDebt = @ + scaled, !.debtIndex = DebtIndex]
Owed(b, scaled) == [b EXCEPT !.scaledDebt = @ - scaled, !.debtIndex = DebtIndex]

-----------------------------------------------------------------------------
(* The calls.  "sender" sends the transaction, "u" is on whose behalf.     *)

Deposit(sender, u, amount) ==
    LET scaled == rayDiv(amount, Income)
    IN  /\ scaled # 0
        /\ Supply(amount)
        /\ accounts' = [accounts EXCEPT ![u] = Receiving(@, scaled),
                                        ![sender].wallet = @ - amount]
        /\ logs' = Paid(sender, ATOKEN, amount) \cup ATokensMinted(sender, u, amount)

WithdrawTo(u, asked) ==
    LET amount == IF asked = MAX_UINT_AMOUNT THEN BalanceOf(u) ELSE asked
        scaled == rayDiv(amount, Income)
    IN  /\ amount \in 1..BalanceOf(u)
        /\ Withdraw(amount)
        /\ accounts' = [accounts EXCEPT ![u] = Giving(@, scaled, amount = BalanceOf(u)),
                                        ![u].wallet = @ + amount]
        /\ logs' = Paid(ATOKEN, u, amount) \cup ATokensBurned(u, amount)

BorrowAtVariable(sender, u, amount) ==
    /\ BorrowVariable(amount)
    /\ accounts' = [accounts EXCEPT ![u] = Owing(@, rayDiv(amount, DebtIndex)),
                                    ![sender].wallet = @ + amount]
    /\ logs' = Paid(ATOKEN, sender, amount) \cup DebtMinted(sender, u, amount)

(* Nobody borrows at a stable rate against the asset itself.               *)
NotTheCollateral(u, amount) == ~accounts[u].usedAsCollateral \/ amount > BalanceOf(u)

BorrowAtStable(sender, u, amount) ==
    /\ NotTheCollateral(u, amount)
    /\ amount <= percentMul(reserve.liquidity, MaxStableLoanPercent)
    /\ BorrowStable(u, amount)
    /\ accounts' = [accounts EXCEPT ![sender].wallet = @ + amount]
    /\ logs' = Paid(ATOKEN, sender, amount) \cup StableMinted(sender, u, amount, token')

(* No more than the debt is taken, which is never more than the largest    *)
(* number there is; only the debtor says "all of it".                      *)
Payback(asked, debt) == IF asked # MAX_UINT_AMOUNT /\ asked < debt THEN asked ELSE debt
MayAsk(sender, u, asked) == asked # MAX_UINT_AMOUNT \/ sender = u

RepayAtVariable(sender, u, asked) ==
    LET amount == Payback(asked, VariableDebtOf(u))
        scaled == rayDiv(amount, DebtIndex)
    IN  /\ MayAsk(sender, u, asked)
        /\ scaled \in 1..accounts[u].scaledDebt
        /\ RepayVariable(amount)
        /\ accounts' = [accounts EXCEPT ![u] = Owed(@, scaled), ![sender].wallet = @ - amount]
        /\ logs' = Paid(sender, ATOKEN, amount) \cup DebtBurned(u, amount)

RepayAtStable(sender, u, asked) ==
    LET amount == Payback(asked, StableBalanceOf(token, u))
    IN  /\ MayAsk(sender, u, asked)
        /\ RepayStable(u, amount)
        /\ accounts' = [accounts EXCEPT ![sender].wallet = @ - amount]
        /\ logs' = Paid(sender, ATOKEN, amount) \cup StableBurned(u, amount, token')

SwapFromStable(u) ==
    LET debt == StableBalanceOf(token, u)
    IN  /\ SwapToVariable(u)
        /\ accounts' = [accounts EXCEPT ![u] = Owing(@, rayDiv(debt, DebtIndex))]
        /\ logs' = StableBurned(u, debt, token') \cup DebtMinted(u, u, debt)

SwapFromVariable(u) ==
    LET debt == VariableDebtOf(u)
        scaled == rayDiv(debt, DebtIndex)
    IN  /\ scaled \in 1..accounts[u].scaledDebt
        /\ NotTheCollateral(u, StableBalanceOf(token, u) + debt)
        /\ SwapToStable(u, debt)
        /\ accounts' = [accounts EXCEPT ![u] = Owed(@, scaled)]
        /\ logs' = DebtBurned(u, debt) \cup StableMinted(u, u, debt, token')

(* Anybody may ask for it: the whole debt is burned and minted again.      *)
RebalanceRate(u) ==
    LET debt == StableBalanceOf(token, u)
    IN  /\ RebalanceStableBorrowRate(u)
        /\ logs' = StableBurned(u, debt, Burned(token, u, debt))
                     \cup {<<"Transfer", "stableDebt", ZERO_ADDRESS, u, debt>>,
                           <<"Mint", "stableDebt", u, u, debt, 0, 0, token'.userRate[u],
                             token'.avgStableRate, token'.reported.supply>>}
        /\ UNCHANGED accounts

(* The reserve is not brought up to date.                                  *)
SetUseAsCollateral(u, use) ==
    /\ BalanceOf(u) # 0
    /\ Call(token)
    /\ accounts' = [accounts EXCEPT ![u].usedAsCollateral = use]
    /\ logs' = {}
    /\ UNCHANGED reserve

MintUnbackedTo(u, amount) ==
    LET scaled == rayDiv(amount, Income)
    IN  /\ scaled # 0
        /\ MintUnbacked(amount)
        /\ accounts' = [accounts EXCEPT ![u] = Receiving(@, scaled)]
        /\ logs' = ATokensMinted(Others, u, amount)

(* Slip: what the treasury may still mint gets no part of the fee.         *)
CumulatedIndexOverSupply(r, fee) ==
    rayMul(rayDiv(wadToRay(fee), wadToRay(rayMul(r.scaledSupply, r.liquidityIndex))) + RAY,
           r.liquidityIndex)
(* The fee is income of the suppliers, less the protocol's part; it is     *)
(* shared over the supply and over what the treasury may still mint.       *)
CumulatedIndex(r, fee) ==
    LET liquidity == rayMul(r.scaledSupply, r.liquidityIndex)
                       + rayMul(r.accruedToTreasury, r.liquidityIndex)
    IN  rayMul(rayDiv(wadToRay(fee), wadToRay(liquidity)) + RAY, r.liquidityIndex)

BackUnbacked(amount, fee) ==
    LET r == UpToDateReserve
        backing == IF amount < r.unbacked THEN amount ELSE r.unbacked
        toProtocol == percentMul(fee, bridgeProtocolFee)
        index == CumulatedIndex(r, fee - toProtocol)
    IN  /\ r.scaledSupply # 0
        /\ OtherCall([r EXCEPT !.liquidityIndex = index,
                               !.accruedToTreasury = @ + rayDiv(toProtocol, index),
                               !.unbacked = @ - backing,
                               !.liquidity = @ + backing + fee])
        /\ logs' = Paid(Others, ATOKEN, backing + fee)
        /\ UNCHANGED accounts

(* Sender and receiver are told of their interest, once if they are one.   *)
TransferEvents(caller, from, to, amount) ==
    LET told(u) == IF ATokenIncrease(u) > 0 THEN ATokensMinted(caller, u, 0) ELSE {}
    IN  told(from) \cup told(to)
          \cup {<<"Transfer", ATOKEN, from, to, amount>>,
                <<"BalanceTransfer", ATOKEN, from, to, rayDiv(amount, Income), Income>>}

(* An account with a new scaled balance, its interest collected.           *)
Holding(b, scaled) == [b EXCEPT !.scaledBalance = scaled, !.balanceIndex = Income]

(* Slip: the receiver's balance is the one read before the sender's moved. *)
MovedFromStale(from, to, scaled) ==
    LET given == [accounts EXCEPT ![from] = Holding(@, @.scaledBalance - scaled)]
    IN  [given EXCEPT ![to] = Holding(accounts[to], accounts[to].scaledBalance + scaled)]
(* The sender's account first, then the receiver's, which may be the same. *)
Moved(from, to, scaled) ==
    LET given == [accounts EXCEPT ![from] = Holding(@, @.scaledBalance - scaled)]
    IN  [given EXCEPT ![to] = Holding(@, @.scaledBalance + scaled)]

(* aTokens change hands; the reserve is not brought up to date either.     *)
TransferFrom(caller, from, to, amount) ==
    LET scaled == rayDiv(amount, Income)
    IN  /\ scaled <= accounts[from].scaledBalance
        /\ Call(token)
        /\ accounts' =
              IF from = to THEN Moved(from, to, scaled)
              ELSE [Moved(from, to, scaled) EXCEPT
                       ![from].usedAsCollateral = @ /\ amount # BalanceOf(from),
                       ![to].usedAsCollateral = @ \/ BalanceOf(to) = 0]
        /\ logs' = TransferEvents(caller, from, to, amount)
        /\ UNCHANGED reserve

-----------------------------------------------------------------------------
(* An account has supplied; the run's calls come after.                    *)
MarketInit ==
    /\ TokenInit
    /\ reserve = Rated([liquidityIndex |-> RAY, variableBorrowIndex |-> RAY,
                        currentLiquidityRate |-> 0, currentVariableBorrowRate |-> 0,
                        currentStableBorrowRate |-> 0, lastUpdateTimestamp |-> 1,
                        accruedToTreasury |-> 0, unbacked |-> 0,
                        scaledSupply |-> InitialLiquidity, scaledVariableDebt |-> 0,
                        liquidity |-> InitialLiquidity], 0, 0)
    /\ accounts = [u \in Users |-> EmptyAccount]
    /\ logs = {}

TimePasses == Tick /\ UNCHANGED <<reserve, accounts, logs>>

-----------------------------------------------------------------------------
ScaledBalances(b) == SumFunction([u \in Users |-> b[u].scaledBalance])
ScaledDebts(b) == SumFunction([u \in Users |-> b[u].scaledDebt])

(* The tokens' totals are the sums of the accounts.                        *)
MarketTypeOK ==
    /\ ReserveTypeOK
    /\ accounts \in [Users -> Account]
    /\ reserve.scaledSupply = InitialLiquidity + ScaledBalances(accounts)
    /\ reserve.scaledVariableDebt = ScaledDebts(accounts)

(* What the events of a token add to what a user has been told he holds.   *)
TransfersOf(tokenName, events) == {e \in events : e[1] = "Transfer" /\ e[2] = tokenName}
Told(tokenName, u, events) ==
    MapThenSumSet(LAMBDA e : (IF e[4] = u THEN e[5] ELSE 0) - (IF e[3] = u THEN e[5] ELSE 0),
                  TransfersOf(tokenName, events))

=============================================================================
