---------------------------- MODULE PoolStorage -----------------------------
(***************************************************************************)
(* The state of the lending pool: PoolStorage.sol, the reserves' data and  *)
(* configuration (DataTypes.sol), the three tokens of each reserve, the    *)
(* bitmap each user keeps (UserConfiguration.sol), and the prices and the  *)
(* sequencer status the pool reads.                                        *)
(*                                                                         *)
(* Two views of the code are folded together.                              *)
(*  - Indices are the normalised ones, caught up with the block: every     *)
(*    handler of the pool either runs updateState first or reads           *)
(*    getNormalizedIncome/getNormalizedDebt, which give the same value.    *)
(*    ReserveLogic's catching up is the Accrue step of the module Pool.    *)
(*  - A stable debt is what StableDebtToken.balanceOf returns; the rate    *)
(*    and the timestamp it is computed from are left out.                  *)
(* A user's bitmap is the two sets of reserves whose bits are on.          *)
(***************************************************************************)
EXTENDS WadRayMath, FiniteSetsExt

CONSTANTS
    Users,              \* accounts that call the pool
    Treasury,           \* RESERVE_TREASURY_ADDRESS of the aTokens
    Bridge,             \* the holder of the BRIDGE role
    Reserves,           \* the listed assets
    Assets,             \* the addresses the oracle prices
    NoAsset,            \* address(0) as a price source
    Categories,         \* the configured eMode categories
    Amounts,            \* the amounts calls carry
    MaxUint256,         \* type(uint256).max, "all of it" in an argument
    IsolatedSuppliers,  \* holders of ISOLATED_COLLATERAL_SUPPLIER_ROLE
    InitConfig,         \* the reserves' configuration
    InitEModeCategories \* the categories' configuration

NoCategory == 0
Accounts == Users \cup {Treasury}

(* The fields of the configuration bitmap.  unit is 10^decimals and        *)
(* ceilingUnit is 10^(decimals - DEBT_CEILING_DECIMALS).                   *)
ReserveConfiguration ==
    [ltv : Nat, liquidationThreshold : Nat, liquidationBonus : Nat,
     unit : Nat \ {0}, ceilingUnit : Nat \ {0},
     active : BOOLEAN, frozen : BOOLEAN, paused : BOOLEAN,
     borrowingEnabled : BOOLEAN, stableBorrowingEnabled : BOOLEAN,
     borrowableInIsolation : BOOLEAN, siloedBorrowing : BOOLEAN,
     flashLoanEnabled : BOOLEAN,
     reserveFactor : 0..PERCENTAGE_FACTOR,
     supplyCap : Nat, borrowCap : Nat, unbackedMintCap : Nat, debtCeiling : Nat,
     liquidationProtocolFee : 0..PERCENTAGE_FACTOR,
     eModeCategory : Categories \cup {NoCategory}]

EModeCategory ==
    [ltv : Nat, liquidationThreshold : Nat, liquidationBonus : Nat,
     priceSource : Assets \cup {NoAsset}]

ASSUME StorageAssumption ==
    /\ IsFiniteSet(Users) /\ IsFiniteSet(Reserves)
    /\ Treasury \notin Users
    /\ Reserves \subseteq Assets /\ NoAsset \notin Assets
    /\ Categories \subseteq Nat \ {NoCategory}
    /\ Amounts \subseteq Nat /\ MaxUint256 \in Nat \ Amounts
    /\ InitConfig \in [Reserves -> ReserveConfiguration]
    /\ InitEModeCategories \in [Categories -> EModeCategory]

VARIABLES
    config,                 \* _reserves[r].configuration
    eModeCategories,        \* _eModeCategories
    liquidityIndex,         \* normalised income of a reserve
    variableBorrowIndex,    \* normalised variable debt of a reserve
    accruedToTreasury,      \* scaled
    unbacked,
    isolationModeTotalDebt,
    liquidity,              \* underlying held by the reserve's aToken
    scaledBalance,          \* aToken, per account and reserve
    aTokenSupply,           \* its scaledTotalSupply
    scaledVariableDebt,     \* VariableDebtToken, per user and reserve
    variableDebtSupply,     \* its scaledTotalSupply
    stableDebt,             \* StableDebtToken, per user and reserve
    usingAsCollateral,      \* the collateral bits of _usersConfig
    borrowing,              \* the borrowing bits of _usersConfig
    eModeCategory,          \* _usersEModeCategory
    price,                  \* what the oracle answers
    sentinelUp              \* PriceOracleSentinel._isUpAndGracePeriodPassed

governance == <<config, eModeCategories>>
indices    == <<liquidityIndex, variableBorrowIndex>>
aToken     == <<scaledBalance, aTokenSupply>>
debtTokens == <<scaledVariableDebt, variableDebtSupply, stableDebt>>
userFlags  == <<usingAsCollateral, borrowing>>
market     == <<price, sentinelUp>>

vars == <<governance, indices, accruedToTreasury, unbacked,
          isolationModeTotalDebt, liquidity, aToken, debtTokens, userFlags,
          eModeCategory, market>>

-----------------------------------------------------------------------------
(* Balances, as the tokens report them.                                    *)
BalanceOf(a, r) == rayMul(scaledBalance[a][r], liquidityIndex[r])
VariableDebtOf(u, r) == rayMul(scaledVariableDebt[u][r], variableBorrowIndex[r])
DebtOf(u, r) == VariableDebtOf(u, r) + stableDebt[u][r]

(* What the holders of a token have of it together: as many units as there *)
(* are pairs of a holder and a unit.  A sum by recursion says the same,    *)
(* but nothing could be proved of it.                                      *)
Total(balances, r) ==
    Cardinality(UNION {{a} \X (1..balances[a][r]) : a \in DOMAIN balances})

TotalStableDebt(r) == Total(stableDebt, r)

(* UserConfiguration: one isolated collateral and nothing else puts its    *)
(* owner in isolation mode; one siloed borrow and nothing else, in siloed  *)
(* borrowing.  Both read the set given, which a handler may have changed.  *)
InIsolationModeOn(c, collateral) ==
    collateral = {c} /\ config[c].debtCeiling # 0
InIsolationMode(collateral) ==
    \E c \in Reserves : InIsolationModeOn(c, collateral)
SiloedOn(r, borrowed) == borrowed = {r} /\ config[r].siloedBorrowing
Siloed(borrowed) == \E r \in Reserves : SiloedOn(r, borrowed)

=============================================================================
