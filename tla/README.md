# Formal model of the lending pool and of its tests

TLA+ specifications of the Kinza lending protocol (an Aave V3 fork: the
Solidity under `src/contracts`) and of the TypeScript harness that tests it
(`src/test-suites`), the TLC runs that check them on small instances, and
theorems about them checked by TLAPS.

## 1. The system

### The protocol

A *reserve* is a listed asset. Each reserve has three tokens: the *aToken*
(a supplier's claim, which also holds the reserve's underlying), the *variable
debt token* and the *stable debt token*. The pool keeps the reserves' data and
two bits per user and reserve: "used as collateral" and "borrowing". Balances
of the aToken and of the variable debt token are *scaled*: they are stored
divided by an index that grows with interest, so nobody has to be visited when
interest accrues. A user's *health factor* compares the value of the collateral
with a flag with the value of the debts with a flag; below 1 anybody may
liquidate the position.

| Component | State it keeps | Operations |
|---|---|---|
| `pool/Pool.sol` with `SupplyLogic`, `BorrowLogic`, `LiquidationLogic`, `EModeLogic`, `IsolationModeLogic`, `BridgeLogic`, `PoolLogic`, `FlashLoanLogic` | `PoolStorage`: reserves' data, users' bitmaps, eMode categories, each user's category | supply, withdraw, borrow, repay (three forms), swap rate mode, rebalance, collateral switch, liquidation, eMode, unbacked mints, flash loans, treasury mint |
| `ValidationLogic`, `GenericLogic` | none | the requirements of each call; a position's value and health factor |
| `ReserveLogic`, `MathUtils`, rate strategy | indices, rates, timestamp, accrued treasury share | updateState, updateInterestRates, cumulateToLiquidityIndex |
| `tokenization/*` | scaled balances and supplies; per-user stable principal, rate, timestamp; allowances, nonces | mint, burn, transfer (with the pool's `finalizeTransfer` callback), permits, delegation |
| `PoolConfigurator`, `ConfiguratorLogic` | none (writes the pool's) | list, drop and configure reserves and categories |
| `configuration/UserConfiguration`, `ReserveConfiguration` | bit layouts | getters and setters |
| `ACLManager`, `PoolAddressesProvider`, registry | roles, addresses, proxies | grant, revoke, upgrade, register |
| `AaveOracle`, `PriceOracleSentinel` | price sources, grace period | answer prices; forbid borrowing and liquidations after an outage |
| `L2Pool`, `CalldataLogic` | none | packed arguments |

A transaction enters `Pool`, which brings the reserve's indices up to date,
validates, writes the bitmaps and the tokens, and pays underlying in or out of
the aToken. Control leaves the pool in three places that matter: an aToken
transfer calls *back* into the pool (`finalizeTransfer`), a flash loan calls a
receiver that may call the pool again, and the oracle and the sentinel answer
with values that change between transactions. Transactions are serialised, so
the hard behaviours are not races but: the *order* of writes and checks inside
one call, re-entry during a flash loan, long sequences of legal calls by several
users, rounding, and parameters (prices, configuration, categories, the list of
reserves) that change under open positions.

### The tests

| Component | State it keeps | Operations |
|---|---|---|
| `helpers/utils/calculations.ts`, the *test oracle* | none | what a reserve and a user must look like after a call, from what was read before it: a second implementation of the protocol's arithmetic, in BigNumber |
| `helpers/actions.ts`, `helpers/utils/helpers.ts` | what was read before the transaction | read, send, read again, compare within three units |
| `helpers/utils/tokenization-events.ts` | what was read before | compute the events a receipt must hold, and match them |
| `helpers/scenario-engine.ts` | none | execute a story's actions one by one |
| `helpers/make-suite.ts`, the specs' own hooks, `hardhat.config.ts` | snapshot ids, the node's snapshots | deploy once; snapshot before a suite, revert after it; specs that nest snapshots of their own; bail |

All specs run against *one* chain. What makes a test's verdict worth something
is that it starts from the state it is written for, that the transaction is
compared with an oracle that is right in that state, and that a failure shows.
The hard behaviours: time passes between the read and the transaction, and
between the transaction and the second read; snapshots nest and are used up by
a revert; hooks fail; a promise nobody awaits is settled in another test.

### What makes each part correct

Debts are always visible to the health factor; claims on a reserve are covered
by what it holds and is owed, up to rounding; no call turns a healthy position
unhealthy; isolated collateral is alone and its debt capped; siloed debts stand
alone; a debt agrees with its owner's category; the tokens' totals are the sums
of their balances; fees and interest pay for the income shared out; what
governance stops stands still, and what it switches off is empty; the test
oracle and the contracts agree; suites and tests are isolated from each other.

## 2. Modules

| Module | Models |
|---|---|
| `WadRayMath` | `math/WadRayMath.sol`, `math/PercentageMath.sol`: fixed-point operators, the scales are constants |
| `PoolStorage` | the state: `PoolStorage.sol`, `DataTypes.sol`, the tokens' balances, the user bitmap as two sets |
| `GenericLogic` | value and health factor of a position |
| `ValidationLogic` | what each call requires |
| `LiquidationLogic` | the amounts of a liquidation |
| `Pool` | one action per entry point, the environment, the properties |
| `FlashLoan` | `FlashLoanLogic.sol` composed with `Pool`: a stack of open loans, any pool call in between |
| `PoolConfigurator` | `PoolConfigurator.sol`, `ConfiguratorLogic.sol` and the pool's setters and listing, composed with `Pool`: any change between any two calls |
| `MathUtils` | linear and compounded interest |
| `StableDebtToken` | the stable debt token with its own clock: principals, rates, total, average rate |
| `InterestRateStrategy` | `DefaultReserveInterestRateStrategy.sol`: the three rates as functions of usage |
| `Reserve` | `ReserveLogic.sol` composed with `StableDebtToken` and `InterestRateStrategy`: one reserve with time, rates and treasury |
| `AccruedIndices` | abstract specification: what `Pool` assumes of the indices; `Reserve` implements it |
| `Market` | `Reserve` with the accounts of its users, and the events the tokens emit |
| `BigNumberMath`, `Calculations` | the test oracle on signed numbers |
| `TokenizationEvents` | the events the tests expect |
| `Scenario` | one action of a story after the other on `Market`, judged by the oracle |
| `TestSuite` | Mocha, the node's snapshots, the suites' hooks, the stories |
| `MCPool`, `MCFlashLoan`, `MCPoolConfigurator`, `MCStableDebt`, `MCReserve`, `MCScenario`, `MCTestSuite` | small instances |
| `WadRayMathProofs` | lemmas on the fixed-point operators |
| `AccountingProofs` | sums over the holders of a token, and the theorems about the pool's books |
| `PoolProofs`, `FlashLoanProofs`, `ConfiguratorProofs`, `ReserveProofs`, `TestSuiteProofs` | theorems about the module they are named after |
| `MarketProofs` | theorems about `Market` and `Scenario` |

Dependencies, each arrow read "is extended by" (`INSTANCE` where it says so):

    WadRayMath -> PoolStorage -> GenericLogic -> ValidationLogic -> LiquidationLogic -> Pool
    Pool -> FlashLoan
    Pool -> PoolConfigurator
    WadRayMath -> MathUtils -> StableDebtToken -+
    WadRayMath -> InterestRateStrategy ---------+-> Reserve -> Market -> Scenario
    AccruedIndices -- INSTANCE in Reserve
    BigNumberMath -> Calculations -> TokenizationEvents -- INSTANCE in Scenario, as Oracle
    TestSuite
    PoolProofs -> AccountingProofs -> FlashLoanProofs, ConfiguratorProofs
    ReserveProofs -> MarketProofs, which extends Scenario too

## 3. How the model corresponds to the code

A transaction is atomic, so an external call is one step, and a call that
reverts is a step that is not enabled. The order of writes and checks inside a
call is kept where it decides the outcome: a check reads the primed state when
the code checks after writing (the health factor after a withdrawal), and the
unprimed one when it reads a value it cached before (the eMode category of a
flash loan, the collateral flag a liquidation clears before it updates the
isolated debt).

| In the code | In the model |
|---|---|
| `supply`, `supplyWithPermit` | `Supply` |
| `withdraw` | `Withdraw` |
| `AToken.transfer` with `finalizeTransfer` | `Transfer` |
| `setUserUseReserveAsCollateral` | `SetUserUseReserveAsCollateral` |
| `borrow` | `Borrow`, which is `ExecuteBorrow` with the underlying released |
| `repay`, `repayWithPermit`, `repayWithATokens` | `Repay`, `useATokens` telling the last from the others |
| `swapBorrowRateMode` | `SwapBorrowRateMode` |
| `liquidationCall` | `LiquidationCall` (with `BurnDebtTokens` and the two ways to seize collateral) |
| `setUserEMode` | `SetUserEMode` |
| `mintUnbacked`, `backUnbacked` | `MintUnbacked`, `BackUnbacked` |
| `mintToTreasury` | `MintToTreasury` |
| `flashLoan`, `flashLoanSimple` | `OpenFlashLoan`, `ReceiverReturns`, one `SettleLeg` per leg |
| `ReserveLogic.updateState` | `Accrue` in `Pool`; `UpToDateReserve` in `Reserve` |
| `rebalanceStableBorrowRate` | `RebalanceStableBorrowRate` in `Reserve` (in `Pool` it changes no debt) |
| oracle, sequencer | `SetPrice`, `SequencerChange` |
| `_reservesList` | a member of `Reserves` is a slot of it; `listed` are the slots in use |
| `initReserve`, `dropReserve` | `InitReserve`, `DropReserve` |
| each setter of `PoolConfigurator` | the action of its name: `SetReserveBorrowing`, `ConfigureReserveAsCollateral`, `SetDebtCeiling`, `SetEModeCategory`, ... |
| `getReserveData`, `getUserData` of the tests | the operators of the same names in `Scenario` |
| `deposit`, `withdraw`, `borrow`, `repay`, ... of `actions.ts` | `Read`, `Wait`, then `SendDeposit`, `SendWithdraw`, ...; the comparison is `ReserveOracleAgrees` and `UserOracleAgrees`, and without a tolerance `BooksForeseen` and `UserBooksForeseen` |
| `calcExpected...` | the operators of the same names in `Calculations` |
| `executeAction` | `ActionExecuted`, `ActionLacksArguments`, `ActionSkipped`, `ActionLeftFloating`, by what becomes of the transaction |
| `makeSuite`'s `before` and `after`, `initializeMakeSuite` | `BeforeSuite`, `AfterSuite`, `initializeMakeSuite` |
| hooks of a spec | `PreparesTheMarket`, `OwnBefore`, `BeforeEach`, `AfterEach` |

**Abstractions.**

- *Indices are normalised.* In `Pool` an index is what `getNormalizedIncome`
  and `getNormalizedDebt` return at the current block. Every handler either
  runs `updateState` first or reads these, so a stale stored index is never
  used; time is the step `Accrue`, which raises the indices by any amount of a
  small set and credits the treasury its share. That growth of this kind is all
  that rates and time produce is what `Reserve` shows, as a refinement of
  `AccruedIndices`.
- *A stable debt is a number* in `Pool`, which `AccrueStable` raises; its rate,
  timestamp, and the token's total are the subject of `StableDebtToken`. The
  total of the stable debts that `Pool` uses (borrow cap, indices) is the sum
  of the users' debts; the drift of the real total is studied in `Reserve`. What
  `PoolConfigurator` asks of the totals (`_checkNoBorrowers`, dropping a
  reserve) is therefore asked of the debts: `SiloedDebtAlone`,
  `InactiveIsEmpty` and `ListingTakesNothing` hold of the code as long as the
  total has not been reset (the finding `StableReset`) and no dust of it is left.
- *Wallets are unlimited.* Whoever pays has approved and can pay. A withdrawal
  to the aToken itself, permits, credit delegation and incentives are left
  out. The treasury receives and never calls.
- *Numbers.* WAD, RAY and the percentage scale are small constants, so that
  rounding, which is relative to them, is large and visible. Overflow reverts
  and the 128-bit casts are left out: amounts are far from them by
  construction. Division by zero is a revert, and hence a guard (a collateral
  whose bonus is 0 cannot be liquidated).
- *Configuration.* In `Pool` and `FlashLoan` it is any constant one; in
  `PoolConfigurator` the administrators change it between any two calls.
  Whoever may call a setter calls it whenever its requirements allow. A slot
  without an asset has the configuration map of zeros, and keeps its old
  tokens and indices at one ray until it is listed again, which replaces them.
- *Flash loans.* A loan that cannot be settled reverts to the state before it
  was opened. The model leaves such a behaviour stuck with the loan open, which
  loses no behaviour that lasts: invariants are checked in every state a
  receiver can see, and those stated of `loans = <<>>` in the states left
  behind.
- *The market of the scenarios* is one reserve. Its borrowers are covered by
  collateral elsewhere, so health, isolation and eMode do not interfere: they
  are `Pool`'s. The oracle does not know them either.
- *A test* is judged by what becomes of its transactions (mined, reverted,
  lost, never sent, still in flight) and whether the read afterwards agrees;
  what the market does in between is `Scenario`. The chain is the set of
  transactions on top of the empty one, and a snapshot is such a set.

Definitions introduced by "Slip:" are plausible errors, used by no action. They
stand beside the definition they corrupt, and show that each property can
fail: putting the slip in place of the definition makes TLC find the property
violated.

## 4. What is checked

| Run | Instance | Shows |
|---|---|---|
| `PoolBridge` | one reserve that is collateral and owed in both modes, unbacked mints, fees, a reserve factor, a treasury, a sequencer; indices move | `TypeOK` (nothing below zero, backing at most what is unbacked); `DebtFlagged`: no debt without its borrowing bit, although the bit is cleared by comparing rounded amounts; `SuppliesAddUp`; `SolventUpToRounding`: no call creates claims beyond half a scaled unit per token; `FeesPayForIncome` |
| `PoolModes` | an isolated collateral with room for one unit of debt, an ordinary one with a liquidation fee, a siloed dusty asset whose price rises, two categories | `IsolationExclusive`: isolated collateral stays alone whichever way aTokens arrive; `DebtWithinCeiling`; `EModeDebt`; `SiloedExclusive`; `HealthyStaysHealthy`: no call of anybody takes a position out of health |
| `FlashLoanFees` | an isolated reserve, loans of one leg, large enough that its premium raises the index, or of two, repaid or turned into a debt of either mode, nested once, a sequencer | `FlashTypeOK`; `LoansAreSettled`: what was lent comes back or is owed; `PremiumsPayForIncome`; `DebtWithinCeiling` survives re-entry; `HealthyThroughFlashLoans`: so does health |
| `Configurator` | two users, an ordinary collateral and an asset in both rate modes, which the administrators reconfigure, drop and list anew | `GovernedTypeOK`; `InactiveIsEmpty`: nobody holds anything of a reserve that is off, and what the treasury is due of one is owed by somebody; `SiloedDebtAlone`: what a setter looked for once stays true afterwards; `PausedStandsStill` and `FrozenOnlyShrinks`: no path forgets the switch; `ZeroLtvGoesFirst`; `ListingTakesNothing`: a slot used again takes nothing from anybody |
| `ReserveIncome` | one reserve with its clock and rates, two debtors, five calls | `InterestPaysForIncome`: as time passes suppliers and treasury gain no more than debtors are charged; `IndicesAccrue`: the refinement of `AccruedIndices`; `SupplyFollowsDebts`, `AverageFollowsRates`: a call moves the stable token's total and average as it moves the debts, unless burn resets them; `ReserveTypeOK` |
| `Scenario` | two users and a supplier from before, three transactions of every kind, mined late and read late | `ReserveOracleAgrees`, `UserOracleAgrees`: what is read is what the test oracle computes on its own; `BooksForeseen`, `UserBooksForeseen`: what is *stored* of the reserve and of the user acted for is that to the unit; `EventsMatched`: every event the tests expect is in the receipt; `EventsTellBalances`: transfers alone tell every balance up to the rounding of one write, and every stable debt exactly; `MarketTypeOK` |
| `TestSuite` | two suites with snapshots of their own, three tests each, stories of every kind, failures anywhere | `SuiteSnapshotKept`, `SuitesStartOnDeployedChain`, `TestsStartAsTheirSuite`; `StoryToldTheTruth`: no failure is swallowed; `RunEndsRestored` (liveness) |
| `PoolIsolatedDebt`, `PoolEModeEntry`, `FlashLoanEMode`, `StableReset`, `ConfiguratorIsolation` | violations | see section 7 |

Where a property says less than one might expect:

- `HealthyStaysHealthy` lets the debt of a position that leaves health pass what
  its collateral covers by what the arithmetic rounds away, and each part of
  that is needed. One unit of the percentage scale: the average liquidation
  threshold is rounded down to it (`GenericLogic.sol:163`), so receiving a dusty
  collateral with a low threshold can cost a position that unit, and TLC finds
  a state where it does. The rounding of one balance and one debt of *one*
  asset (`Rounding`: nothing while the index is one ray) and of their values: a
  borrow is validated before its debt is rounded, and a change of rate mode and
  a repayment with aTokens are not validated at all. Half a unit of the health
  factor, which is rounded up to 1. The one exemption, `EntersUnchecked`, is the
  entry into a category that has a price source, or a lower threshold for one of
  the user's collaterals, from no category: the finding `PoolEModeEntry`.
  `HealthyThroughFlashLoans` has one more: a leg owed by a borrower who has
  changed his category since the loan was opened is checked in the old one.
- `InterestPaysForIncome` is stated under `BooksCoverClaims`, and TLC shows
  why: after a burn has reset the total stable debt, a rebalance leaves a total
  that covers one debtor only, usage is computed from it, and suppliers are then
  paid more than debtors are charged. Its slack is that of the few calls of the
  run: the errors of the merged rates add up from call to call.
- `IndicesAccrue` takes a debt token's *supply* for what is owed. The stable
  token rounds its total on its own, so dust of it can outlive every debt, and
  suppliers then go on earning on it; TLC finds this on a finer instance, where
  the property with the sum of the debts in place of the total is violated.
- `StoryToldTheTruth` asks for a revert only where `actions.ts` does: a `mint`
  that should revert, and a delegation that should without naming a message,
  pass whatever happens.
- `BooksForeseen` has no tolerance and two conditions. `EarnsOnUse`: the oracle
  lets nothing accrue to suppliers when the usage it read is zero
  (`calculations.ts:1426`), the contracts when the *rate* is; the two could part
  only where the debts round to nothing of the liquidity. `TotalKept` concerns
  the total of the stable debts alone: where a burn has reset it, the oracle
  goes on from the total it read. Rates and ratios are left to
  `ReserveOracleAgrees`: they are rounded in another order and compared with a
  tolerance.
- `UserBooksForeseen` is about the user a call acts for and shares the
  condition `EarnsOnUse`. It leaves out the fields the oracle gets wrong
  (`UserUnforeseen`): the principal of a depositor who owes anything, which it
  overwrites with the variable debt (`calculations.ts:74`); that of a debtor in
  both modes who repays or swaps out of his variable debt; and the variable debt of a
  borrower who is not the only one, to which it adds the reserve's total
  instead of his own (line 675).
- `EventsMatched` leaves out the total that a stable repayment announces when it
  resets the stored total (`TotalAnnounced`): the event tells what would be left
  of the total, the test reads zero. No state the run compares has it; the case
  came up as the step of the proof that would not go through. It also asks
  for a receipt read at the moment it was mined.
- The oracle has *blind spots*, each a field it gets wrong in states the
  repository's stories avoid. `ReserveUnforeseen`: a swap to the stable mode
  beside stable debts, where it averages over a total read before the
  transaction (`calculations.ts:877`). `UserUnforeseen`: a deposit by a debtor,
  a variable borrow beside other variable debts, a repayment or swap of a
  variable debt beside an own stable one, and the interest of a collateral
  switch. `AskedWithinDebt`: a repayment of more than the debt. There the field
  is left out of the comparison; everywhere else it is compared. `MergingSlack`
  widens the tolerance for the merged stable rate of a debt below one WAD, where
  the rate of a rounded product is not determined to three units.

Deadlock is not checked: a state in which every bound is reached, a flash loan
that cannot be settled, or a finished test run has no step.

**Bounds, and why they are enough.** All runs are exhaustive within them.

| Bound | Meaning | Why |
|---|---|---|
| `Users` | two, symmetric where nothing tells them apart | victim and actor; a third would repeat one of them. Categories, ceilings and totals relate a user to a reserve or a reserve to the sum of users |
| `Amounts`, `MaxUint256` | `{1, 2}` or `{1}`, and "all of it" (which can be requested wherever the code treats it apart) | at index 3/2, part of a scaled unit, one, and several, so that every rounding case occurs |
| `MaxLiquidity` | 1 to 3 units held by an aToken | leaves room for two suppliers and a repayment with interest |
| `Indices`, `MaxIndex` | the indices reached by interest | one and 3/2, where `rayDiv` rounds both ways. In `PoolModes` and `Configurator` they stand still, because the properties are about calls at given indices |
| `MaxTreasury`, `MaxStableDebt` | the treasury's scaled share; a stable debt that still accrues | keep the environment finite |
| `LegLists`, `MaxDepth` | the loans asked for; two open at once | one, two legs of the same asset; a loan within a loan |
| `Governed`, `MaxChanges` | one reserve whose configuration changes, twice | dropping and listing again are two changes; so are switching off and on, becoming siloed and not; the settings reach each threshold the setters compare with. `ConfiguratorIsolation` needs one change and one user. No fee is paid in `Configurator` (`Fees = {0}`), so the treasury's share stays empty there; `PoolBridge` has one |
| `MaxTime`, `MaxCalls`, `MaxDebt` | the moments, calls and debt of a reserve's life | the reset of the total needs two debtors, a wait and a repayment: three calls; five leave room for what follows it |
| scenario: `RAY = 10000`, amounts 500 and 2000, `InitialLiquidity = 2700`, `MaxCalls = 3`, `MaxTime = 5` | the numbers the oracle is compared on | fine enough that three units are less than the interest of one unit of time, and 2700 so that the usage passes the optimum with two borrows and not with one; an action needs two moments, three actions reach a user who owes in both modes |
| `TokensInTransfers` | 500 | a transfer looks at the amount only to subtract it |
| `Suites = 2`, `Tests = 3` | one suite that takes a snapshot for each test, one that takes it once | the second suite sees what the first leaves; a snapshot taken once is used up by the second test and asked for again by the third |

## 5. Fairness

`TestSuite` assumes `WF_vars(RunnerStep)`: Mocha goes on as soon as the promise
it awaits is settled, and the node settles every call, mined, reverted or
failed. Nothing else could go on instead: there is no timeout
(`hardhat.config.ts:47`). A transaction nobody waits for is given no fairness:
it may never be mined. Under this, `RunEndsRestored` says that the run ends and
that the chain is then as deployed, unless a call of a hook failed.

Nothing is assumed of the protocol, and no liveness is stated of it. Every step
there is a transaction somebody may or may not send; nothing is promised that
must eventually happen (a liquidation is an option, not an obligation), and any
fairness of users or administrators would be invented.

## 6. What is proved

For every set of users and reserves, every configuration, every amount and
bound, and every scale that satisfies the assumptions named in the modules:

| Module | Theorem | States |
|---|---|---|
| `PoolProofs` | `TypeCorrect` | `[]TypeOK`: in particular no balance, supply, unbacked amount or liquidity goes below zero |
| | `DebtsFlagged` | `[]DebtFlagged` |
| | `IsolationIsExclusive`, `SiloedIsExclusive`, `EModeDebts`, `CeilingsHold` | `[]IsolationExclusive`, `[]SiloedExclusive`, `[]EModeDebt`, `[]DebtWithinCeiling` |
| `AccountingProofs` | `SuppliesAlwaysAddUp` | `[]SuppliesAddUp`: each token's supply is the sum of its balances |
| | `SolventWithinRounding` | the action property `SolventUpToRounding`, of every call |
| | `FeesPay` | the action property `FeesPayForIncome`, for every bridge fee |
| | `HealthyAlwaysStays` | the action property `HealthyStaysHealthy`, of every call by anybody |
| `FlashLoanProofs` | `FlashTypeCorrect` | `[]FlashTypeOK`, in the middle of a callback too |
| | `FlashDebtsFlagged`, `FlashIsolationIsExclusive`, `FlashSiloedIsExclusive`, `FlashCeilingsHold`, `FlashSuppliesAddUp` | the same invariants as of the pool, whatever receivers do |
| | `FlashHealthyStays` | the action property `HealthyThroughFlashLoans`, in the middle of a callback too |
| | `LoansSettle`, `PremiumsPay` | the action properties `LoansAreSettled`, `PremiumsPayForIncome` |
| `ConfiguratorProofs` | `GovernedTypeCorrect`, `GovernedDebtsFlagged`, `GovernedSuppliesAddUp` | `[]GovernedTypeOK`, `[]DebtFlagged`, `[]SuppliesAddUp` under any governance |
| | `InactiveReservesAreEmpty`, `SiloedDebtsAlone` | `[]InactiveIsEmpty`, `[]SiloedDebtAlone` |
| | `ListingsTakeNothing`, `ZeroLtvAlwaysGoesFirst` | the action properties `ListingTakesNothing`, `ZeroLtvGoesFirst` |
| | `PausedReservesStandStill`, `FrozenReservesOnlyShrink` | the action properties `PausedStandsStill`, `FrozenOnlyShrinks` |
| `ReserveProofs` | `ReserveTypeCorrect` | `[]ReserveTypeOK`: rates, indices, debts and timestamps under every call at every time |
| | `ReserveAccrues` | `IndicesAccrue`: the reserve implements `AccruedIndices`, so time and rates do to the pool what `Accrue` allows |
| | `TotalFollowsDebts`, `AverageFollowsItsDebts` | the action properties `SupplyFollowsDebts`, `AverageFollowsRates` |
| `MarketProofs` | `MarketAddsUp` | `[]MarketTypeOK`: the reserve's supplies are the sums of its accounts |
| | `ReceiptsMatch` | `[]EventsMatched`: every event the tests expect is in the receipt |
| | `EventsTell` | `[]EventsTellBalances`: the transfers of a receipt add up to what it did to every balance and debt |
| | `BooksAreForeseen` | `[]BooksForeseen`: what a call leaves of the reserve is what the test oracle computes, to the unit |
| | `UserBooksAreForeseen` | `[]UserBooksForeseen`: and so is what it leaves of the user it acts for |
| `TestSuiteProofs` | `SuiteSnapshotAlwaysKept`, `SuitesAlwaysStartOnDeployedChain`, `TestsAlwaysStartAsTheirSuite` | the three invariants of their names, for any number of suites and tests, any kinds and stories |
| | `StoriesTellTheTruth` | `[]StoryToldTheTruth` |

*Assumptions.* The scales are positive and even (half a unit is then whole),
so RAY is at least 2; of the stable token also that WAD divides RAY, as in the code; the
sets of users and reserves are finite; the indices `Pool` is given stay between
RAY and `MaxIndex`; prices are positive; of every reserve and category the LTV is
at most the liquidation threshold and that at most 100 %, as the configurator
demands (`PoolConfigurator.sol:139`, `:153`); the bridge fee and the reserve's factor
are at most 100 %; the amounts of transfers are natural numbers; the zero address
and the suppliers from before are no users.

*The pool.* `TypeOK` is inductive as it stands, given that every fixed-point
operator returns a natural number. `DebtFlagged` rests on the *round trip* of
the scaled arithmetic (`RoundTrip` in `WadRayMathProofs`): at an index of at
least one ray, `rayDiv(rayMul(s, i), i) = s`. So repaying all that `balanceOf`
reports burns exactly the scaled debt, nothing of it is left when the flag is
cleared, and a call that burns less keeps the flag. This is why `TypeOK` keeps
the indices above RAY: below it two scaled balances would share one reported
balance and the theorem would be false. `IsolationExclusive` and
`SiloedExclusive` are inductive together with `TypeOK` because no call adds a
second bit next to an exclusive one (`ExclusiveWith`, `ExclusiveWithout`,
`ExclusiveOnReceipt`), and the configuration does not change (`ConfigFixed`).
`EModeDebt` follows the same way from the checks of borrowing and of changing
category. `DebtWithinCeiling` uses that only `Borrow` raises the counted debt,
after comparing.

*The books.* `Total` counts the pairs of a holder and a unit it holds. As the
size of a finite set it is accessible to the theorems about cardinality: one write of a balance moves it by what was written
(`TotalMoves`), a move between two holders leaves it (`TotalsAfterMove`).
`SuppliesAddUp` is then inductive: every action either writes a balance and the
supply by the same amount, moves between holders, or leaves both. For
`SolventUpToRounding` each call is a list of flows into and out of a reserve
(scaled claims, liquidity, debts, what is unbacked); `NetFlow` weighs them at
the index at hand, each write of a token is off by at most half a scaled unit
(`ATokenFlows`, `VariableDebtFlows`), and `RoundingSlack` is the sum of these
halves. The bridge fee and the premium are the one place where an index moves in
a call: `FeeShared` shows that the index rises by no more than the fee divided
by the claims, rounded once.

*Health.* `HealthyStaysHealthy` is about two states of a position whose health
factor is a quotient of sums of rounded products, and the account-data loop
averages over them. Three lemmas take that apart. `Weighted`, the sum over the
collaterals of value times threshold, is what the average forgets by flooring
(`AverageOf`): the threshold plus one unit, applied to the collateral, is at
least the weighted sum, and a healthy position owes at most
that sum and half a unit of the factor. So a call is harmless if the weighted sum falls by
no more than the debt does, up to the rounding of one asset (`LittleLost`); and
as both are sums of one summand for each reserve (`CountedIn`, `OwedIn`), it is
enough to look at the one reserve a call writes (`OneAssetMoves`). With this
every call falls into one of four kinds:

- *it takes nothing from this position*: a supply, a repayment, a transfer
  received, a bridge call (`NotWorse`);
- *it exchanges*: a repayment with aTokens, where debt and collateral fall by
  one amount, and a swap of the rate mode (`RoundedAway`; that the threshold is
  at most 100 % is used here, and nowhere else could it be missing);
- *it is validated before it writes*: a borrow, which needs the LTV to be at most
  the threshold and then the rounding of one new debt (`BorrowHealthy`);
- *it is validated after it has written*: a withdrawal, a transfer sent, a collateral
  switched off, a category left (`Validated`). A withdrawal is validated only if
  it is of a collateral, by somebody with a borrowing bit; that nothing is owed
  without one is `DebtFlagged`, which is why the invariant is
  `HealthInv` = `TypeOK` ∧ `AsListed` (no administrator acts here) ∧ `DebtFlagged`.

A liquidation needs the liquidated position to be out of health, and the
liquidator only receives, or is the same person and then out of health too
(`LiquidationHealthy`).

*Flash loans.* `FlashSteps` splits a step into a pool call, an opening, a return
and the settlement of a leg; a leg that is owed *is* the pool's `ExecuteBorrow`
without the release, so the lemmas of `PoolProofs` apply to it, and the others
move nothing but liquidity, indices and the treasury. `EModeDebt` is the one
invariant that does not carry over: the borrower's category is older than the
callback, which is the finding `FlashLoanEMode`; this is also why
`HealthyThroughFlashLoans` exempts him (`OwesInOtherCategory`). Otherwise health is
kept by the pool's lemmas: a leg owed is a borrow to `BorrowHealthy`, and
a premium raises an index and nothing else (`PositionKept`). For `LoansAreSettled` what is
still out is a sum over the loans and, in each, over the legs from the next one
on: opening one lends exactly what leaves the reserves (`OpeningLends`), settling
a leg peels one summand off (`TotalPeeled`, `SettlingReturns`) and either the
underlying or a debt takes its place (`RepaidBalances`, `OwedBalances`). No
invariant of the receiver's behaviour is needed, so any nesting is covered.

*Governance.* The setters are one lemma (`Configured`: a configuration of the
right type, positions untouched); listing and dropping are two more. The two
action properties are *frame arguments* over every call: what a call writes lies
in the reserves whose configuration it has checked (`OnlyIn`, `Still`), so a
paused one is not among them; and every call that a frozen reserve lets through
lowers its holdings and debts (`HoldingsShrink`, `DebtsShrink`). `InitReserve`
overwrites balances, but only of a slot that is not listed, whose blank
configuration is neither paused nor frozen: this is why `GovernedTypeOK` has
that conjunct. `InactiveIsEmpty` needs `SuppliesAddUp`, because the setter looks
at a supply and the invariant speaks of balances, and `EmptySlots`: a slot that
is not listed carries no debt. With the three, `ListingTakesNothing` follows,
since what a listing overwrites is empty already. It is not an
invariant that an inactive reserve owes the treasury nothing: only the supply is
looked at, so it may still have debts whose interest accrues. `SiloedDebtAlone`
is proved of the flags (`SiloedDebtFlaggedAlone`): the one borrowing bit of a
siloed debtor is what the validation of a new debt reads.

*The reserve.* The inductive invariant `ReserveInv` adds to the types that the
indices are at least one ray, that nothing was updated in the future, and that
the stable token was not updated after the reserve. With the first, no division
is by zero; with the others, no time span is negative. That the indices only
accrue is the monotonicity of linear and compounded interest in time
(`LinearInterestMonotone`, `CompoundedMonotone`): the index a call stores is the
one `getNormalizedIncome` was already answering. The refinement also needs that
income grows only on what is owed, which is not true of one state but of the
last call: `EarnsOnBooks` says that the liquidity rate a call leaves is zero
unless it leaves a supply of a debt token. A burn that resets the total still
reports the total it had before, and the next rates are computed from that; it
earns nothing only because the same burn has set the average to zero
(`BurnedOnBooks`), and a rate of zero over any total is no income.

*The stable token.* A call brings the total and one debt up to date
(`MintedTouches`, `BurnedTouches`: what they are in the block of the call, and
that no other debt has moved), so that both move by the amount. For the average
the argument is a bound on rounding: each product of a rate and a debt is off by
half a ray (`ProductRounds`), the division by half a unit of debt
(`AverageRounds`), and since WAD divides RAY the scale cancels: over the merged
debt the merged rate is within one WAD and half the debt (`MergedRounds`,
`BurnedRounds`). A rebalance is a burn and a mint, and its error their sum.

*The market and the receipts.* A market's supplies are compared with sums that
are folds, of which the provers know only the recursion. It has one solution, the
number of the accounts' units as above: a smallest set of accounts where another
differed would contradict it (`SumsCount`). So one account's move moves the sum by
what it wrote (`SumMoves`), and `MarketTypeOK` is inductive with
`MarketInv`, which is `ReserveInv` and the types of the accounts. `ReceiptsMatch`
compares two programs. The contracts compute a balance's interest while the call
runs, from what is stored before it; the tests compute it from balances they read
before and after. Four facts bring them together. On natural numbers the oracle's
signed arithmetic is the contracts' (`OracleArithmetic`, `OracleCompounds`).
Nobody calls between the first read and the transaction (`ReadInv`), so the
reserve, its token and its accounts are those that were read. A call leaves the
normalised indices alone, so a balance read afterwards in the same moment is the
scaled balance at the index the call itself used (`IndicesStay`, `InterestRead`).
And the events a call emits are, one kind of call at a time, the ones expected of
these numbers (`DepositTold`, `WithdrawTold`, `BorrowVariableTold`, and so on).
The theorem has no tolerance: the events agree to the unit.

`EventsTell` adds the transfers of a receipt up, by account. The sum is a fold
again; a receipt names at most three transfers of one token, and of so few the
recursion gives the sum term by term (`ToldOfThree`), once the terms are known
to be different (the zero address is no user; somebody who transfers to himself
is told of his interest once). What is told of an account is the interest
`rayMul(s, index) - rayMul(s, last)`, which is exact, and the amount, which is
written as `rayDiv(amount, index)` units and read back as their product with the
index. The round trip of one write is off by at most `Rounding(index)`, which is
nothing at one ray and grows with the index (`WriteRounds`, `MintNear`,
`BurnNear`). A burn of less than the interest is announced as a mint of the
difference; the sum is the same. Stable debts are told exactly, because the
principal itself is stored (`PrincipalMinted`, `PrincipalBurned`). The
strengthening is `SeenInv`: no balance has seen an index the reserve has not
reached. Without it the interest of a transfer's side could be negative, and
`_transfer` announces only interest above zero. It is kept because a call stores
the index of its own block and the indices never fall, neither in time
(`WaitRaises`) nor by a bridge's fee (`BackUnbackedTells`); that they rise is
also why what was within the rounding when it was told stays within it when it
is read later (`WithinLater`).

`BooksAreForeseen` compares the same two programs on the reserve. What has to
be remembered of the first read is `BooksRead`: the record the test keeps shows
the reserve, the accounts and the token as they still are, and it was taken no
earlier than the last update. From there the proof follows the order of both
programs. First `updateState`: the indices (`IndicesForeseen`), the stable total
(`TotalForeseen`) and the treasury's share (`TreasuryForeseen`) of the oracle are
those of `UpToDateReserve` in the block of the transaction (`StateForeseen`). The
indices differ in form: the oracle multiplies in the other order, and asks
whether the usage or the debt *read* is zero where the contracts ask for the rate
or the scaled debt; `ReadingSays` and `EarnsOnUse` close that. Then one lemma per kind
of call (`DepositForeseen`, `BackUnbackedForeseen`, `RebalanceForeseen`, ...) on
what the call moves, with what the oracle reckons of the user's debt
(`UserForesees`, `DebtForeseen`). New rates leave the books alone on both sides
(`RatedBooks`, `RatesShow`). After a borrow time may pass before the second read,
which the oracle is told of; its books do not depend on it (`BorrowTimeless`).
A repayment needs `AskedWithinDebt` and that "all of it" is asked for only with
`MAX_UINT_AMOUNT`: the number is a constant of the model, so `Payback` says that
no debt is larger, as in the code no debt is larger than `type(uint256).max`.

`UserBooksAreForeseen` goes on from there to the user, and needs `BooksForeseen`
as an invariant beside it: once the indices of the reserve are known to be the
ones expected (`IndicesConcluded`), the call and the oracle divide by the same
numbers. What is remembered is `UsersRead`, the records of users, accounts and
wallets as they still are. Then, for each kind of call, one lemma (`UserDeposit`,
`UserWithdraw`, ..., `UserSwitch`) sets side by side what the call does to the
account and the wallet (`AccountAfter`, `WalletAfter`) and what the oracle puts
in the fields (`DepositBooked`, `WithdrawBooked`, ...). Two places are less
than obvious. A swap out of a variable debt burns all of its scaled amount, for what is owed
divides back to it (`RoundTrip`), where the oracle just writes zero; and a
borrow read late is compared with an oracle that knows the later time, on which
nothing stored depends (`WaitKeepsUser`).

*The tests.* The strengthening is `IInv` = `TypesInv` ∧ `IdsInv` (the node gives
ids in order) ∧ `KeptInv` (the suite's snapshot, or its head, is the
deployment) ∧ `OwnInv` (a spec's own snapshot is *younger* than the suite's, or
used up) ∧ `FreshInv`. `OwnInv` is the point: reverting to an id discards the
later ones, so only an older id could take the suite's snapshot with it.
`JInv`, which says the same of the snapshot taken before a test, gives
`TestsAlwaysStartAsTheirSuite`. `KInv` follows an action's transaction from the
story to the chain: transactions of other tests have other names (`WordsInv`,
`EarlierInv`), so what a test looks at is its own.

*Only model-checked.* `InterestPaysForIncome` (its slack is that of a run: the
errors of the calls before add up, and no bound on them holds for all time); the
agreement of the oracle with what is read (`ReserveOracleAgrees`,
`UserOracleAgrees`) beyond what is stored of the reserve and of the user acted
for: rates, ratios and balances, within a tolerance that depends on the numbers
of the run; and liveness (`RunEndsRestored`), which like `ENABLED` is beyond the
prover.

## 7. Findings

Each is a run in which TLC reaches a state that a comment of the code excludes.

- `PoolIsolatedDebt`: `LiquidationLogic` clears the collateral flag (line 175)
  before it updates the isolated debt (line 188), so a liquidation that takes
  the whole isolated collateral leaves the repaid debt counted for good.
- `PoolEModeEntry`: `EModeLogic.sol:33` says that a change of category which
  drops the health factor below 1 reverts; the check is made only when a
  category is left. Entering one with a price source of its own can do it.
- `FlashLoanEMode`: the borrower's category is read before the receiver's
  callback and used after it, so a debt can end up outside of its owner's
  category, which `LiquidationLogic.sol:424` takes to be impossible.
- `StableReset`: `StableDebtToken.sol:201` says the reset of the total happens
  when the last user repays; it also happens while others owe. The call
  then returns the total it had before the reset, not the one it stored.
- `ConfiguratorIsolation`: `repayWithATokens` of the whole balance leaves the
  collateral flag on (`BorrowLogic.sol:246`; a withdrawal clears it). An asset
  without suppliers may then be made isolated, and its next supply is collateral
  at once, against `ValidationLogic.sol:728`: "isolated assets are not enabled as
  collateral automatically".

Two hazards have no property. The cut of the liquidation fee
(`LiquidationLogic.sol:209`) is part of the action, and that a liquidation stays
*possible* would be an `ENABLED` property. `setAssetEModeCategory` does not look
at debts (`PoolConfigurator.sol:378`) and nothing promises that it does, so
`EModeDebt` is stated of a fixed configuration.

## 8. What is not modelled

- `ACLManager`, `PoolAddressesProvider`, its registry: tables of roles and
  addresses, one write per call, no rule that relates two of them. The models
  let an administrator call anything at any time, the hardest case for the pool.
- `AaveOracle`: the pool sees a positive price, which here is any of a set at
  any time. The grace period of `PriceOracleSentinel`: its answer changes at any
  time, which covers every behaviour of the clock behind it.
- Allowances, permits, credit delegation: they restrict who may make a call
  that the models allow to anyone.
- Of the configurator: the addresses of rate strategies and token
  implementations, the bridge fee and the flash loan premiums (constants of the
  models). Of `PoolLogic`: `rescueTokens`.
- The bit layouts of `UserConfiguration` and `ReserveConfiguration` and the
  packed arguments of `L2Pool`: encodings without state; the model has the sets
  and records they encode.
- Proxies and initialisers, which replace the program itself; views and UI
  helpers; periphery reward and treasury contracts.
- Of the tests: the specs' single assertions, the printing of events, actions
  that only set the scene (`mint`, `approve`, `delegateBorrowAllowance` are in
  `TestSuite` by what becomes of them), typed wrappers of the deployment,
  mocks and third-party contracts.

## 9. What is left

As theorems: the agreement of the rates and of the balances read with the
oracle, once the tolerance is stated in terms of the index; and in `Pool`, the
stable token's total beside the sum of the debts.
