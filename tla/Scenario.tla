------------------------------ MODULE Scenario ------------------------------
(***************************************************************************)
(* One action of a scenario test, again and again, on a market: read the   *)
(* reserve and the users, send a transaction, read again, and compare with *)
(* what the test oracle expects (actions.ts and utils/helpers.ts), and the *)
(* receipt with the events expected (utils/tokenization-events.ts).        *)
(*                                                                         *)
(* The chain does not wait for the test: the transaction is mined in a     *)
(* later block than the one that was read, and after a borrow, time may be *)
(* made to pass before the second read.                                    *)
(***************************************************************************)
EXTENDS Market

CONSTANT TokensInTransfers  \* what the transfer tests move

ASSUME ScenarioAssumption == TokensInTransfers \subseteq Nat

(* almostEqualOrEqual                                                      *)
Tolerance == 3
Skipped == {"lastUpdateTimestamp", "totalStableDebtLastUpdated"}

Oracle == INSTANCE TokenizationEvents WITH
    ONE_YEAR <- SECONDS_PER_YEAR,
    marketStableRate <- VariableRateSlope1 + BaseStableRateOffset

VARIABLE step   \* where the test is, and what it remembers

scenarioVars == <<marketVars, step>>

-----------------------------------------------------------------------------
(* What the tests read at "now".                                           *)
getReserveData ==
    LET stable == StableTotalSupply(token)
        variable == rayMul(reserve.scaledVariableDebt, DebtIndex)
        liquidity == reserve.liquidity + reserve.unbacked
        ratioTo(rest) == IF stable + variable = 0 THEN 0
                         ELSE rayDiv(stable + variable, rest + stable + variable)
    IN  [unbacked |-> reserve.unbacked,
         accruedToTreasuryScaled |-> reserve.accruedToTreasury,
         availableLiquidity |-> reserve.liquidity,
         totalLiquidity |-> liquidity,
         borrowUsageRatio |-> ratioTo(reserve.liquidity),
         supplyUsageRatio |-> ratioTo(liquidity),
         totalStableDebt |-> stable,
         totalVariableDebt |-> variable,
         liquidityRate |-> reserve.currentLiquidityRate,
         variableBorrowRate |-> reserve.currentVariableBorrowRate,
         stableBorrowRate |-> reserve.currentStableBorrowRate,
         averageStableBorrowRate |-> token.avgStableRate,
         liquidityIndex |-> reserve.liquidityIndex,
         variableBorrowIndex |-> reserve.variableBorrowIndex,
         lastUpdateTimestamp |-> reserve.lastUpdateTimestamp,
         totalStableDebtLastUpdated |-> token.supplyTimestamp,
         principalStableDebt |-> token.supply,
         scaledVariableDebt |-> reserve.scaledVariableDebt]

getUserData(u, walletOwner) ==
    [scaledATokenBalance |-> accounts[u].scaledBalance,
     currentATokenBalance |-> BalanceOf(u),
     currentStableDebt |-> StableBalanceOf(token, u),
     currentVariableDebt |-> VariableDebtOf(u),
     principalStableDebt |-> token.principal[u],
     scaledVariableDebt |-> accounts[u].scaledDebt,
     stableBorrowRate |-> token.userRate[u],
     liquidityRate |-> reserve.currentLiquidityRate,
     usageAsCollateralEnabled |-> accounts[u].usedAsCollateral,
     stableRateLastUpdated |-> token.userTimestamp[u],
     walletBalance |-> accounts[walletOwner].wallet]

-----------------------------------------------------------------------------
(* The actions a story is made of: "user" sends, "u" is on whose behalf.   *)
Deposits == [name : {"deposit"}, user : Users, u : Users, amount : Amounts]
Withdrawals == [name : {"withdraw"}, u : Users, amount : Amounts \cup {MAX_UINT_AMOUNT}]
Borrows == [name : {"borrow"}, user : Users, u : Users, amount : Amounts,
            mode : {Oracle!Stable, Oracle!Variable}]
Repayments == [name : {"repay"}, user : Users, u : Users, amount : Amounts \cup {MAX_UINT_AMOUNT},
               mode : {Oracle!Stable, Oracle!Variable}]
Swaps == [name : {"swapBorrowRateMode"}, u : Users, mode : {Oracle!Stable, Oracle!Variable}]
Rebalances == [name : {"rebalanceStableBorrowRate"}, u : Users]
CollateralSwitches == [name : {"setUseAsCollateral"}, u : Users, use : BOOLEAN]
UnbackedMints == [name : {"mintUnbacked"}, u : Users, amount : Amounts]
Backings == [name : {"backUnbacked"}, amount : Amounts, fee : Fees]
Transfers == [name : {"transferFrom"}, user : Users, u : Users, to : Users,
              amount : TokensInTransfers]

(* The first read of an action, of everything it may need.                 *)
Read ==
    /\ step.phase # "read"
    /\ calls < MaxCalls
    /\ step' = [phase |-> "read", reserveData |-> getReserveData,
                userData |-> [u \in Users |-> getUserData(u, u)], at |-> now]
    /\ UNCHANGED marketVars

(* The transaction, in a later block.                                      *)
Mined(op) ==
    /\ step.phase = "read"
    /\ now > step.at
    /\ step' = [phase |-> "sent", op |-> op, at |-> now, reserveData |-> step.reserveData,
                userData |-> step.userData, accounts |-> accounts, token |-> token]

SendDeposit == \E op \in Deposits : Mined(op) /\ Deposit(op.user, op.u, op.amount)
SendWithdraw == \E op \in Withdrawals : Mined(op) /\ WithdrawTo(op.u, op.amount)
SendBorrow ==
    \E op \in Borrows :
        /\ Mined(op)
        /\ IF op.mode = Oracle!Stable THEN BorrowAtStable(op.user, op.u, op.amount)
           ELSE BorrowAtVariable(op.user, op.u, op.amount)
SendRepay ==
    \E op \in Repayments :
        /\ Mined(op)
        /\ IF op.mode = Oracle!Stable THEN RepayAtStable(op.user, op.u, op.amount)
           ELSE RepayAtVariable(op.user, op.u, op.amount)
SendSwapBorrowRateMode ==
    \E op \in Swaps :
        /\ Mined(op)
        /\ IF op.mode = Oracle!Stable THEN SwapFromStable(op.u) ELSE SwapFromVariable(op.u)
SendRebalance == \E op \in Rebalances : Mined(op) /\ RebalanceRate(op.u)
SendSetUseAsCollateral ==
    \E op \in CollateralSwitches : Mined(op) /\ SetUseAsCollateral(op.u, op.use)
SendMintUnbacked == \E op \in UnbackedMints : Mined(op) /\ MintUnbackedTo(op.u, op.amount)
SendBackUnbacked == \E op \in Backings : Mined(op) /\ BackUnbacked(op.amount, op.fee)
SendTransferFrom ==
    \E op \in Transfers : Mined(op) /\ TransferFrom(op.user, op.u, op.to, op.amount)

(* Blocks are mined between the read and the transaction; timeTravel lets  *)
(* time pass between a borrow and the second read.                         *)
Wait ==
    /\ \/ step.phase = "read"
       \/ step.phase = "sent" /\ step.op.name = "borrow"
    /\ TimePasses
    /\ UNCHANGED step

ScenarioInit == MarketInit /\ step = [phase |-> "idle"]

ScenarioNext ==
    \/ Read \/ Wait
    \/ SendDeposit \/ SendWithdraw \/ SendBorrow \/ SendRepay
    \/ SendSwapBorrowRateMode \/ SendRebalance \/ SendSetUseAsCollateral
    \/ SendMintUnbacked \/ SendBackUnbacked \/ SendTransferFrom

ScenarioSpec == ScenarioInit /\ [][ScenarioNext]_scenarioVars

-----------------------------------------------------------------------------
Sent(names) == step.phase = "sent" /\ step.op.name \in names

(* Read before, of the user acted for; the wallet is the sender's where he *)
(* is asked about, and the user's in a repayment.                          *)
WalletOwner == IF step.op.name \in {"deposit", "borrow"} THEN step.op.user ELSE step.op.u
UserDataBefore ==
    [step.userData[step.op.u] EXCEPT !.walletBalance = step.userData[WalletOwner].walletBalance]

ExpectedReserveData ==
    LET op == step.op
        d  == step.reserveData
        at == step.at
    IN  CASE op.name = "deposit" -> Oracle!calcExpectedReserveDataAfterDeposit(op.amount, d, at)
          [] op.name = "withdraw" ->
                 Oracle!calcExpectedReserveDataAfterWithdraw(op.amount, d, UserDataBefore, at)
          [] op.name = "borrow" ->
                 Oracle!calcExpectedReserveDataAfterBorrow(op.amount, op.mode, d, at, now)
          [] op.name = "repay" ->
                 Oracle!calcExpectedReserveDataAfterRepay(op.amount, op.mode, d, UserDataBefore, at)
          [] op.name = "swapBorrowRateMode" ->
                 Oracle!calcExpectedReserveDataAfterSwapRateMode(d, UserDataBefore, op.mode, at)
          [] op.name = "rebalanceStableBorrowRate" ->
                 Oracle!calcExpectedReserveDataAfterStableRateRebalance(d, UserDataBefore, at)
          [] op.name = "mintUnbacked" ->
                 Oracle!calcExpectedReserveDataAfterMintUnbacked(op.amount, d, at)
          [] op.name = "backUnbacked" ->
                 Oracle!calcExpectedReserveDataAfterBackUnbacked(
                     reserve.scaledSupply, op.amount, op.fee, bridgeProtocolFee, d, at)

(* "after" is what is expected of the reserve, except by the collateral    *)
(* switch, which is not asked about it.                                    *)
ExpectedUserData(after) ==
    LET op == step.op
        d  == step.reserveData
        u  == UserDataBefore
        at == step.at
    IN  CASE op.name = "deposit" ->
                 Oracle!calcExpectedUserDataAfterDeposit(op.amount, d, after, u, at)
          [] op.name = "withdraw" ->
                 Oracle!calcExpectedUserDataAfterWithdraw(op.amount, d, after, u, at)
          [] op.name = "borrow" ->
                 Oracle!calcExpectedUserDataAfterBorrow(op.amount, op.mode, d, after, u, at, now)
          [] op.name = "repay" ->
                 Oracle!calcExpectedUserDataAfterRepay(op.amount, op.mode, d, after, u,
                                                       op.user = op.u, at, now)
          [] op.name = "swapBorrowRateMode" ->
                 Oracle!calcExpectedUserDataAfterSwapRateMode(d, after, u, op.mode, at)
          [] op.name = "rebalanceStableBorrowRate" ->
                 Oracle!calcExpectedUserDataAfterStableRateRebalance(d, after, u, at)
          [] op.name = "setUseAsCollateral" ->
                 Oracle!calcExpectedUserDataAfterSetUseAsCollateral(op.use, u)

(* expectEqual over the keys the oracle is asked about.  A rate is merged  *)
(* from products rounded to half a unit each, so the less is owed at it,   *)
(* the less exact it is; from one WAD on that is one unit.                 *)
MergingSlack(key, principal) ==
    IF key \in {"averageStableBorrowRate", "stableBorrowRate"} /\ principal > 0
    THEN WAD \div principal + 1 ELSE 0

AlmostEqual(actual, expected, unforeseen) ==
    \A key \in DOMAIN actual \ (Skipped \cup unforeseen) :
        IF key = "usageAsCollateralEnabled" THEN actual[key] = expected[key]
        ELSE LET slack == Tolerance + MergingSlack(key, actual.principalStableDebt)
             IN  actual[key] - expected[key] \in (-slack)..slack

(* The oracle takes a repayment for what is asked, debt or not: it is only *)
(* asked about repayments of part of the debt, and of all of it.           *)
DebtOf(op) ==
    LET debt == StableBalanceOf(step.token, op.u)
    IN  IF op.mode = Oracle!Stable THEN debt
        ELSE rayMul(step.accounts[op.u].scaledDebt, DebtIndex)
AskedWithinDebt ==
    step.op.name = "repay" => \/ step.op.amount = MAX_UINT_AMOUNT
                              \/ step.op.amount <= DebtOf(step.op)

(* What the oracle gets wrong, and for whom.  A swap to the stable mode    *)
(* averages over debts that were read before the transaction, and what     *)
(* suppliers earn follows the average.                                     *)
ReserveUnforeseen ==
    IF /\ step.op.name = "swapBorrowRateMode" /\ step.op.mode = Oracle!Variable
       /\ step.reserveData.principalStableDebt # 0
    THEN {"averageStableBorrowRate", "liquidityRate"} ELSE {}

UserUnforeseen ==
    LET op == step.op
        owesStable == UserDataBefore.principalStableDebt # 0
        owesVariable == UserDataBefore.scaledVariableDebt # 0
    IN  CASE op.name = "deposit" /\ (owesStable \/ owesVariable) -> {"principalStableDebt"}
          [] /\ op.name = "borrow" /\ op.mode = Oracle!Variable
             /\ step.reserveData.scaledVariableDebt # UserDataBefore.scaledVariableDebt ->
                 {"scaledVariableDebt", "currentVariableDebt"}
          [] op.name \in {"repay", "swapBorrowRateMode"} /\ op.mode = Oracle!Variable
             /\ owesStable ->
                 {"principalStableDebt", "currentStableDebt"}
          [] op.name = "setUseAsCollateral" ->
                 {"currentATokenBalance", "currentStableDebt", "currentVariableDebt"}
          [] OTHER -> {}

ReserveActions ==
    {"deposit", "withdraw", "borrow", "repay", "swapBorrowRateMode",
     "rebalanceStableBorrowRate", "mintUnbacked", "backUnbacked"}
UserActions ==
    {"deposit", "withdraw", "borrow", "repay", "swapBorrowRateMode",
     "rebalanceStableBorrowRate", "setUseAsCollateral"}

(* Whatever was called before, and however long the chain took to mine the *)
(* transaction, the reserve is read again as the oracle expects it: the    *)
(* contracts' indices, rates, totals and treasury share are those of an    *)
(* independent computation.                                                *)
ReserveOracleAgrees ==
    Sent(ReserveActions) /\ AskedWithinDebt
    => AlmostEqual(getReserveData, ExpectedReserveData, ReserveUnforeseen)

(* And so are the balances, debts, rate and wallet of the user acted for.  *)
UserOracleAgrees ==
    Sent(UserActions) /\ AskedWithinDebt
    => AlmostEqual(getUserData(step.op.u, WalletOwner),
                   ExpectedUserData(ExpectedReserveData),
                   UserUnforeseen \cup ReserveUnforeseen)

(* What of a reserve is stored; the rest is made of it when it is read.    *)
Books(d) ==
    <<d.unbacked, d.accruedToTreasuryScaled, d.availableLiquidity, d.totalLiquidity,
      d.liquidityIndex, d.variableBorrowIndex, d.scaledVariableDebt>>

(* The oracle takes suppliers to earn nothing where what was lent rounds   *)
(* to nothing of what they hold.                                           *)
EarnsOnUse == step.reserveData.supplyUsageRatio = 0 => step.reserveData.liquidityRate = 0

(* The burn of the call, if there is one, has not reset the total of the   *)
(* stable debts.                                                           *)
TotalKept ==
    LET u == step.op.u
    IN  /\ token.supply # 0
        /\ step.op.name = "rebalanceStableBorrowRate"
           => Burned(step.token, u, StableBalanceOf(step.token, u)).supply # 0

(* To the unit: after any call, what the contracts store of the reserve is *)
(* what the oracle makes of what was read before it, in whatever block it  *)
(* is mined (ReserveLogic, SupplyLogic, BorrowLogic and BridgeLogic,       *)
(* against calculations.ts); and so is the total of the stable debts,      *)
(* unless a burn resets it.                                                *)
BooksForeseen ==
    Sent(ReserveActions) /\ AskedWithinDebt /\ EarnsOnUse
    => /\ Books(getReserveData) = Books(ExpectedReserveData)
       /\ TotalKept => token.supply = ExpectedReserveData.principalStableDebt

(* What of a user is stored.                                               *)
UserBooks ==
    {"scaledATokenBalance", "scaledVariableDebt", "principalStableDebt",
     "usageAsCollateralEnabled", "walletBalance"}

(* And so are, to the unit, what the tokens store of the user acted for,   *)
(* whether his supply is collateral, and the wallet that was asked about   *)
(* (ScaledBalanceTokenBase and StableDebtToken, against calculations.ts).  *)
UserBooksForeseen ==
    Sent(UserActions) /\ AskedWithinDebt /\ EarnsOnUse
    => LET actual == getUserData(step.op.u, WalletOwner)
           expected == ExpectedUserData(ExpectedReserveData)
       IN  \A key \in UserBooks \ UserUnforeseen : actual[key] = expected[key]

-----------------------------------------------------------------------------
(* What the token tests expect in the receipt, read in its block.          *)
StableBefore(u) ==
    [principal |-> step.userData[u].principalStableDebt,
     rate |-> step.userData[u].stableBorrowRate,
     lastUpdated |-> step.userData[u].stableRateLastUpdated]
StableAfter(u) ==
    [rate |-> token.userRate[u], averageRate |-> token.avgStableRate,
     total |-> StableTotalSupply(token)]

ExpectedEvents ==
    LET op == step.op
        was == step.accounts
    IN  CASE op.name = "deposit" ->
                 Oracle!supply(op.user, op.u, op.amount, accounts[op.u].scaledBalance,
                               was[op.u].balanceIndex, Income)
          [] op.name = "withdraw" ->
                 Oracle!withdraw(op.u, op.u, op.amount, accounts[op.u].scaledBalance,
                                 was[op.u].balanceIndex, Income)
          [] op.name = "transferFrom" ->
                 Oracle!transferFrom(op.user, op.u, op.to, op.amount,
                                     [x \in Users |-> accounts[x].scaledBalance],
                                     [x \in Users |-> was[x].balanceIndex], Income)
          [] op.name = "borrow" /\ op.mode = Oracle!Variable ->
                 Oracle!variableBorrow(op.user, op.u, op.amount, accounts[op.u].scaledDebt,
                                       was[op.u].debtIndex, DebtIndex)
          [] op.name = "repay" /\ op.mode = Oracle!Variable ->
                 Oracle!repayVariableBorrow(op.user, op.u, op.amount, accounts[op.u].scaledDebt,
                                            was[op.u].debtIndex, DebtIndex)
          [] op.name = "borrow" /\ op.mode = Oracle!Stable ->
                 Oracle!stableBorrow(op.user, op.u, op.amount, StableBefore(op.u),
                                     StableAfter(op.u), now)
          [] op.name = "repay" /\ op.mode = Oracle!Stable ->
                 Oracle!repayStableBorrow(op.user, op.u, op.amount, StableBefore(op.u),
                                          StableAfter(op.u), now)

(* Each is found among the logs of the receipt.                            *)
matchEvents(expected) == expected \subseteq logs

(* A repayment that resets the total of the stable debts announces what it *)
(* would have left of it, and the test reads nothing.                      *)
TotalAnnounced ==
    step.op.name = "repay" /\ step.op.mode = Oracle!Stable
    => token.reported.supply = token.supply

(* Every event expected is in the receipt, with the interest since the     *)
(* balance was last touched, whoever touched it and in whose name          *)
(* (ScaledBalanceTokenBase and StableDebtToken, against                    *)
(* tokenization-events.ts).                                                *)
EventsMatched ==
    /\ Sent({"deposit", "withdraw", "transferFrom", "borrow", "repay"})
    /\ now = step.at
    /\ step.op.amount # MAX_UINT_AMOUNT
    /\ AskedWithinDebt
    /\ TotalAnnounced
    => matchEvents(ExpectedEvents)

(* Whoever adds up the transfers knows every balance as of when it was     *)
(* last touched, up to the rounding of one write at the index of the call  *)
(* (atoken-event-accounting.spec.ts), and every stable debt exactly.       *)
EventsTellBalances ==
    step.phase = "sent" =>
    \A u \in Users :
        LET was == step.accounts[u]
            is  == accounts[u]
            held(b) == rayMul(b.scaledBalance, b.balanceIndex)
            owed(b) == rayMul(b.scaledDebt, b.debtIndex)
            off(index) == -Rounding(index)..Rounding(index)
        IN  /\ held(is) - held(was) - Told(ATOKEN, u, logs) \in off(Income)
            /\ owed(is) - owed(was) - Told("variableDebt", u, logs) \in off(DebtIndex)
            /\ token.principal[u] - step.token.principal[u] = Told("stableDebt", u, logs)

=============================================================================
