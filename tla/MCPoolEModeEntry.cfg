CONSTANTS
    alice = alice  bob = bob  treasury = treasury  bridge = bridge
    ColA = ColA  ColB = ColB  DebtA = DebtA  DebtB = DebtB  Feed = Feed  noAsset = noAsset
    RAY = 2  WAD = 20  PERCENTAGE_FACTOR = 10
    Users = {alice, bob}
    Treasury = treasury
    Bridge = bridge
    Reserves = {ColA, DebtA}
    Assets = {ColA, DebtA, Feed}
    NoAsset = noAsset
    Categories = {1}
    Amounts = {1, 2}
    MaxUint256 = 1000
    IsolatedSuppliers = {}
    InitConfig <- PricedEModeConfig
    InitEModeCategories <- PricedEModeCategories
    MaxStableLoanPercent = 10
    CLOSE_FACTOR_HF_THRESHOLD = 18
    BridgeProtocolFee = 0
    Fees = {}
    Prices <- PricedEModePrices
    HasSentinel = FALSE
    MaxLiquidity = 2
    Indices = {2}
    MaxIndex = 2
    MaxTreasury = 2
    MaxStableDebt = 0
SYMMETRY UserSymmetry
SPECIFICATION Spec
PROPERTY EModeChangeKeepsHealth
CHECK_DEADLOCK FALSE
