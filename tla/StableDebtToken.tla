-------------------------- MODULE StableDebtToken --------------------------
(***************************************************************************)
(* tokenization/StableDebtToken.sol.  Every debtor has a principal, a rate *)
(* of his own and the time it was last touched.  The total supply accrues  *)
(* on its own, at an average rate, so the two views of what is owed drift  *)
(* apart; burn repairs the total when they have.                           *)
(*                                                                         *)
(* The token's state is a record, so that a call which burns and mints in  *)
(* one transaction is a composition.  "reported" is the pair the last call *)
(* returned, which the pool computes the next rates from.  Delegation and  *)
(* incentives are left out, amounts stay far below 2^128.                  *)
(***************************************************************************)
EXTENDS MathUtils, FiniteSetsExt

CONSTANTS
    Users,          \* the debtors
    Amounts,        \* the amounts borrowed and repaid
    StableRates,    \* the stable rates the reserve may be at
    MaxDebt,        \* bound: no borrow takes a debt past it
    MaxTime,        \* bound: the last moment of the run
    MaxCalls        \* bound: the calls made in a run

ASSUME TokenAssumption ==
    /\ IsFiniteSet(Users)
    /\ Amounts \subseteq Nat \ {0} /\ StableRates \subseteq Nat
    /\ MaxDebt \in Nat /\ MaxTime \in Nat /\ MaxCalls \in Nat
    /\ RAY % WAD = 0           \* a wad is a whole number of rays

VARIABLES
    now,    \* block.timestamp; 0 is before the first block
    token,
    calls   \* the calls made so far, for the bound only

tokenVars == <<now, token, calls>>

Token ==
    [principal : [Users -> Nat],        \* _userState[u].balance
     userRate : [Users -> Nat],         \* _userState[u].additionalData
     userTimestamp : [Users -> Nat],    \* _timestamps[u]
     supply : Nat,                      \* _totalSupply
     avgStableRate : Nat,
     supplyTimestamp : Nat,
     reported : [supply : Nat, avgStableRate : Nat]]

EmptyToken ==
    [principal |-> [u \in Users |-> 0], userRate |-> [u \in Users |-> 0],
     userTimestamp |-> [u \in Users |-> 0], supply |-> 0, avgStableRate |-> 0,
     supplyTimestamp |-> 0, reported |-> [supply |-> 0, avgStableRate |-> 0]]

-----------------------------------------------------------------------------
(* What is owed at "now", by a user and in total.                          *)
StableBalanceOf(t, u) ==
    IF t.principal[u] = 0 THEN 0
    ELSE rayMul(t.principal[u],
                calculateCompoundedInterest(t.userRate[u], now - t.userTimestamp[u]))
StableTotalSupply(t) ==
    IF t.supply = 0 THEN 0
    ELSE rayMul(t.supply,
                calculateCompoundedInterest(t.avgStableRate, now - t.supplyTimestamp))

(* The rate of two debts merged.                                           *)
MergedRate(debt1, rate1, debt2, rate2) ==
    rayDiv(rayMul(rate1, wadToRay(debt1)) + rayMul(rate2, wadToRay(debt2)),
           wadToRay(debt1 + debt2))

Minted(t, u, amount, rate) ==
    LET balance  == StableBalanceOf(t, u)
        previous == StableTotalSupply(t)
        next     == previous + amount
        average  == MergedRate(previous, t.avgStableRate, amount, rate)
    IN  [t EXCEPT !.principal[u] = balance + amount,
                  !.userRate[u] = MergedRate(balance, t.userRate[u], amount, rate),
                  !.userTimestamp[u] = now,
                  !.supply = next,
                  !.avgStableRate = average,
                  !.supplyTimestamp = now,
                  !.reported = [supply |-> next, avgStableRate |-> average]]

(* The total left once "amount" is repaid: nothing when more is repaid     *)
(* than the total, or when the rates repaid outweigh the rates carried.    *)
SupplyLeft(previous, amount, paid, carried) ==
    IF previous <= amount \/ paid >= carried THEN 0 ELSE previous - amount

(* Slip: the interest accrued since the last call is forgotten.            *)
PrincipalLeftOfOld(t, u, amount) == t.principal[u] - amount
(* Interest is added and the amount taken off in one move: a mint of the   *)
(* difference or a burn of it.                                             *)
PrincipalLeft(t, u, amount) == StableBalanceOf(t, u) - amount

(* Slip: the repaid debt leaves the average at the average rate.           *)
RateRepaidAtAverage(t, u, amount) == rayMul(t.avgStableRate, wadToRay(amount))
RateRepaid(t, u, amount) == rayMul(t.userRate[u], wadToRay(amount))

(* The call returns the reduced total even where it has reset it.          *)
Burned(t, u, amount) ==
    LET balance  == StableBalanceOf(t, u)
        previous == StableTotalSupply(t)
        carried  == rayMul(t.avgStableRate, wadToRay(previous))
        paid     == RateRepaid(t, u, amount)
        next     == IF previous <= amount THEN 0 ELSE previous - amount
        average  == IF previous <= amount \/ paid >= carried THEN 0
                    ELSE rayDiv(carried - paid, wadToRay(next))
    IN  [t EXCEPT !.principal[u] = PrincipalLeft(t, u, amount),
                  !.userRate[u] = IF amount = balance THEN 0 ELSE @,
                  !.userTimestamp[u] = IF amount = balance THEN 0 ELSE now,
                  !.supply = SupplyLeft(previous, amount, paid, carried),
                  !.avgStableRate = average,
                  !.supplyTimestamp = now,
                  !.reported = [supply |-> next, avgStableRate |-> average]]

-----------------------------------------------------------------------------
(* The pool's calls: borrow and swap mint, repay, liquidate and swap burn, *)
(* a rebalance burns a whole debt and mints it at the current rate.        *)
Call(next) ==
    /\ calls < MaxCalls
    /\ calls' = calls + 1
    /\ token' = next
    /\ UNCHANGED now

MintStable(u, amount, rate) ==
    /\ StableBalanceOf(token, u) + amount <= MaxDebt
    /\ Call(Minted(token, u, amount, rate))

BurnStable(u, amount) ==
    /\ amount \in 1..StableBalanceOf(token, u)
    /\ Call(Burned(token, u, amount))

Rebalance(u, rate) ==
    LET debt == StableBalanceOf(token, u)
    IN  /\ debt # 0
        /\ Call(Minted(Burned(token, u, debt), u, debt, rate))

Tick ==
    /\ now < MaxTime
    /\ now' = now + 1
    /\ UNCHANGED <<token, calls>>

TokenInit == now = 1 /\ token = EmptyToken /\ calls = 0

TokenNext ==
    \/ \E u \in Users, x \in Amounts, rate \in StableRates : MintStable(u, x, rate)
    \/ \E u \in Users : \E x \in Amounts \cup {StableBalanceOf(token, u)} : BurnStable(u, x)
    \/ \E u \in Users, rate \in StableRates : Rebalance(u, rate)
    \/ Tick

TokenSpec == TokenInit /\ [][TokenNext]_tokenVars

-----------------------------------------------------------------------------
(* No subtraction of the bookkeeping goes below zero.                      *)
TokenTypeOK == now \in Nat /\ token \in Token /\ calls \in 0..MaxCalls

(* A year's interest on a debt at its own rate, and on the total.          *)
Interest(t, u) == t.userRate[u] * StableBalanceOf(t, u)
InterestOnTotal(t) == t.avgStableRate * StableTotalSupply(t)

DebtKept(u) == StableBalanceOf(token, u)' = StableBalanceOf(token, u)

(* The call just made did not reset the total.  One that leaves the debts  *)
(* as they were is a rebalance: it has burned one of them in between.      *)
CallKeepsTotal ==
    /\ token' # token
    /\ token.supply' # 0
    /\ (\A u \in Users : DebtKept(u))
       => \A u \in Users : Burned(token, u, StableBalanceOf(token, u)).supply # 0

(* Nobody's debt or rate but u's has moved.                                *)
OnlyDebtOf(u) ==
    \A v \in Users \ {u} : DebtKept(v) /\ token.userRate[v]' = token.userRate[v]

(* A call moves the total by as much as it moves the debts, that is, the   *)
(* debt of one user, unless burn resets the total (StableDebtToken.burn).  *)
SupplyFollowsDebts ==
    [][CallKeepsTotal
       => \E u \in Users :
             /\ OnlyDebtOf(u)
             /\ StableTotalSupply(token)' - StableTotalSupply(token)
                  = StableBalanceOf(token, u)' - StableBalanceOf(token, u)]_tokenVars

(* Rates are rounded to half a unit, for the debt and twice for the total, *)
(* and their three products to half a ray each.                            *)
InterestSlack(u) == StableTotalSupply(token)' + StableBalanceOf(token, u)' + 3 * WAD

(* Suppliers are paid what the average rate accrues and debtors pay their  *)
(* own rates: a call moves both by the same interest, up to rounding,      *)
(* unless burn resets the total (StableDebtToken.mint and burn).           *)
AverageFollowsRates ==
    [][CallKeepsTotal
       => \E u \in Users :
             LET moved == InterestOnTotal(token)' - InterestOnTotal(token)
                 owed  == Interest(token, u)' - Interest(token, u)
             IN  OnlyDebtOf(u) /\ moved - owed \in (-InterestSlack(u))..InterestSlack(u)]_tokenVars

(* "when the last user is repaying" (StableDebtToken.sol:201): the total   *)
(* is reset only by the last debtor.                                       *)
ResetByLastDebtor == token.supply = 0 => \A u \in Users : StableBalanceOf(token, u) = 0
=============================================================================
