CONSTANTS
    alice = alice  bob = bob  treasury = treasury  bridge = bridge
    ColA = ColA  DebtA = DebtA  noAsset = noAsset
    RAY = 2  WAD = 20  PERCENTAGE_FACTOR = 10
    Users = {alice, bob}
    Treasury = treasury
    Bridge = bridge
    Reserves = {ColA, DebtA}
    Assets = {ColA, DebtA}
    NoAsset = noAsset
    Categories = {1}
    Amounts = {1}
    MaxUint256 = 1000
    IsolatedSuppliers = {}
    InitConfig <- GovernedConfig
    InitEModeCategories <- GovernedCategories
    MaxStableLoanPercent = 10
    CLOSE_FACTOR_HF_THRESHOLD = 18
    BridgeProtocolFee = 10
    Fees = {0}
    Prices <- GovernedPrices
    HasSentinel = FALSE
    MaxLiquidity = 1
    Indices = {2}
    MaxIndex = 2
    MaxTreasury = 1
    MaxStableDebt = 0
    CollateralSettings <- NewSettings
    CategorySettings <- NewCategories
    Percentages = {0}
    Caps = {1}
    Ceilings = {0, 1}
    Governed = {DebtA}
    MaxChanges = 2
SYMMETRY UserSymmetry
SPECIFICATION GovernedSpec
INVARIANTS GovernedTypeOK InactiveIsEmpty SiloedDebtAlone
PROPERTIES PausedStandsStill FrozenOnlyShrinks ZeroLtvGoesFirst ListingTakesNothing
CHECK_DEADLOCK FALSE
