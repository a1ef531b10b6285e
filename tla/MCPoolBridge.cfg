CONSTANTS
    alice = alice  bob = bob  treasury = treasury  bridge = bridge
    ColA = ColA  ColB = ColB  DebtA = DebtA  DebtB = DebtB  Feed = Feed  noAsset = noAsset
    RAY = 20  WAD = 20  PERCENTAGE_FACTOR = 10
    Users = {alice, bob}
    Treasury = treasury
    Bridge = bridge
    Reserves = {ColA}
    Assets = {ColA}
    NoAsset = noAsset
    Categories = {}
    Amounts = {1, 2}
    MaxUint256 = 1000
    IsolatedSuppliers = {}
    InitConfig <- BridgeConfig
    InitEModeCategories <- NoCategories
    MaxStableLoanPercent = 10
    CLOSE_FACTOR_HF_THRESHOLD = 17
    BridgeProtocolFee = 2
    Fees = {2}
    Prices <- BridgePrices
    HasSentinel = TRUE
    MaxLiquidity = 3
    Indices = {30}
    MaxIndex = 60
    MaxTreasury = 2
    MaxStableDebt = 2
SYMMETRY UserSymmetry
SPECIFICATION Spec
INVARIANTS TypeOK DebtFlagged SuppliesAddUp
PROPERTIES SolventUpToRounding FeesPayForIncome
CHECK_DEADLOCK FALSE
