------------------------- MODULE TokenizationEvents -------------------------
(***************************************************************************)
(* The events the token tests expect of a transaction, from what they read *)
(* before and after it: helpers/utils/tokenization-events.ts.  What the    *)
(* interest added to a balance is worked out from the scaled balance read  *)
(* after, less what the transaction added to it.                           *)
(***************************************************************************)
EXTENDS Calculations

CONSTANTS ZERO_ADDRESS, ATOKEN

getBalanceIncrease(scaledBalance, indexBeforeAction, indexAfterAction) ==
    rayMul(scaledBalance, indexAfterAction) - rayMul(scaledBalance, indexBeforeAction)

UnderlyingTransfer(from, to, amount) == {<<"Transfer", "underlying", from, to, amount>>}

(* A mint to u of amount, or of what is left of the interest once amount   *)
(* has been taken off; a burn of what is taken off beyond the interest.    *)
Added(tokenName, caller, u, amount, increase, index) ==
    {<<"Transfer", tokenName, ZERO_ADDRESS, u, amount + increase>>,
     <<"Mint", tokenName, caller, u, amount + increase, increase, index>>}
TakenOff(tokenName, u, target, amount, increase, index) ==
    IF increase > amount
    THEN {<<"Transfer", tokenName, ZERO_ADDRESS, u, increase - amount>>,
          <<"Mint", tokenName, u, u, increase - amount, increase, index>>}
    ELSE {<<"Transfer", tokenName, u, ZERO_ADDRESS, amount - increase>>,
          <<"Burn", tokenName, u, target, amount - increase, increase, index>>}

(* Of a scaled balance that was read after: before this, it was that less  *)
(* what was added.                                                         *)
IncreaseBefore(scaledAfter, added, previousIndex, indexAfter) ==
    getBalanceIncrease(scaledAfter - added, previousIndex, indexAfter)

supply(user, onBehalfOf, amount, scaledAfter, previousIndex, indexAfter) ==
    UnderlyingTransfer(user, ATOKEN, amount)
      \cup Added(ATOKEN, user, onBehalfOf, amount,
                 IncreaseBefore(scaledAfter, rayDiv(amount, indexAfter),
                                previousIndex, indexAfter),
                 indexAfter)

withdraw(user, to, amount, scaledAfter, previousIndex, indexAfter) ==
    UnderlyingTransfer(ATOKEN, to, amount)
      \cup TakenOff(ATOKEN, user, to, amount,
                    IncreaseBefore(scaledAfter, -rayDiv(amount, indexAfter),
                                   previousIndex, indexAfter),
                    indexAfter)

(* transfer is transferFrom of the caller.  Nothing moves to oneself.      *)
transferFrom(user, origin, to, amount, scaledAfter, previousIndex, indexAfter) ==
    LET addedScaledBalance == rayDiv(amount, indexAfter)
        delta == IF origin = to THEN 0 ELSE addedScaledBalance
        fromIncrease == IncreaseBefore(scaledAfter[origin], -delta, previousIndex[origin],
                                       indexAfter)
        toIncrease == IncreaseBefore(scaledAfter[to], delta, previousIndex[to], indexAfter)
    IN  {<<"Transfer", ATOKEN, origin, to, amount>>,
         <<"BalanceTransfer", ATOKEN, origin, to, addedScaledBalance, indexAfter>>}
          \cup (IF fromIncrease > 0 THEN Added(ATOKEN, user, origin, 0, fromIncrease, indexAfter)
                ELSE {})
          \cup (IF origin # to /\ toIncrease > 0
                THEN Added(ATOKEN, user, to, 0, toIncrease, indexAfter) ELSE {})

variableBorrow(user, onBehalfOf, amount, scaledAfter, previousIndex, indexAfter) ==
    UnderlyingTransfer(ATOKEN, user, amount)
      \cup Added("variableDebt", user, onBehalfOf, amount,
                 IncreaseBefore(scaledAfter, rayDiv(amount, indexAfter),
                                previousIndex, indexAfter),
                 indexAfter)

repayVariableBorrow(user, onBehalfOf, amount, scaledAfter, previousIndex, indexAfter) ==
    UnderlyingTransfer(user, ATOKEN, amount)
      \cup TakenOff("variableDebt", onBehalfOf, ZERO_ADDRESS, amount,
                    IncreaseBefore(scaledAfter, -rayDiv(amount, indexAfter),
                                   previousIndex, indexAfter),
                    indexAfter)

(* "before" is the debtor's principal, rate and timestamp; "after" his     *)
(* rate and the token's average rate and total.                            *)
StableBalance(before, txTimestamp) ==
    calcExpectedStableDebtTokenBalance(before.principal, before.rate, before.lastUpdated,
                                       txTimestamp)

stableBorrow(user, onBehalfOf, amount, before, after, txTimestamp) ==
    LET balance == StableBalance(before, txTimestamp)
        increase == balance - before.principal
    IN  UnderlyingTransfer(ATOKEN, user, amount)
          \cup {<<"Transfer", "stableDebt", ZERO_ADDRESS, onBehalfOf, amount + increase>>,
                <<"Mint", "stableDebt", user, onBehalfOf, amount + increase, balance, increase,
                  after.rate, after.averageRate, after.total>>}

repayStableBorrow(user, onBehalfOf, amount, before, after, txTimestamp) ==
    LET balance == StableBalance(before, txTimestamp)
        increase == balance - before.principal
    IN  UnderlyingTransfer(user, ATOKEN, amount)
          \cup (IF increase > amount
                THEN {<<"Transfer", "stableDebt", ZERO_ADDRESS, onBehalfOf, increase - amount>>,
                      <<"Mint", "stableDebt", onBehalfOf, onBehalfOf, increase - amount, balance,
                        increase, after.rate, after.averageRate, after.total>>}
                ELSE {<<"Transfer", "stableDebt", onBehalfOf, ZERO_ADDRESS, amount - increase>>,
                      <<"Burn", "stableDebt", onBehalfOf, amount - increase, balance, increase,
                        after.averageRate, after.total>>})

=============================================================================
