CONSTANTS
    alice = alice  bob = bob  treasury = treasury  bridge = bridge
    ColA = ColA  ColB = ColB  DebtA = DebtA  DebtB = DebtB  Feed = Feed  noAsset = noAsset
    RAY = 2  WAD = 20  PERCENTAGE_FACTOR = 10
    Users = {alice, bob}
    Treasury = treasury
    Bridge = bridge
    Reserves = {ColA, ColB, DebtA}
    Assets = {ColA, ColB, DebtA}
    NoAsset = noAsset
    Categories = {}
    Amounts = {1, 2}
    MaxUint256 = 1000
    IsolatedSuppliers = {bob}
    InitConfig <- IsolationConfig
    InitEModeCategories <- NoCategories
    MaxStableLoanPercent = 10
    CLOSE_FACTOR_HF_THRESHOLD = 19
    BridgeProtocolFee = 0
    Fees = {}
    Prices <- IsolationPrices
    HasSentinel = FALSE
    MaxLiquidity = 3
    Indices = {2}
    MaxIndex = 2
    MaxTreasury = 2
    MaxStableDebt = 0
SPECIFICATION Spec
INVARIANT IsolatedDebtOutstanding
CHECK_DEADLOCK FALSE
