CONSTANTS
    alice = alice  bob = bob  treasury = treasury  bridge = bridge
    ColA = ColA  ColB = ColB  DebtA = DebtA  DebtB = DebtB  noAsset = noAsset
    RAY = 2  WAD = 20  PERCENTAGE_FACTOR = 10
    Users = {alice, bob}
    Treasury = treasury
    Bridge = bridge
    Reserves = {ColA, DebtA}
    Assets = {ColA, DebtA}
    NoAsset = noAsset
    Categories = {1, 2}
    Amounts = {1}
    MaxUint256 = 1000
    IsolatedSuppliers = {alice, bob}
    InitConfig <- EModeConfig
    InitEModeCategories <- EModeCategoriesPlain
    MaxStableLoanPercent = 10
    CLOSE_FACTOR_HF_THRESHOLD = 17
    BridgeProtocolFee = 0
    Fees = {}
    Prices <- EModePrices
    HasSentinel = FALSE
    MaxLiquidity = 3
    Indices = {2}
    MaxIndex = 2
    MaxTreasury = 2
    MaxStableDebt = 0
    FlashLoanPremiumTotal = 0
    FlashLoanPremiumToProtocol = 5
    LegLists <- EModeLegs
    MaxDepth = 2
SYMMETRY UserSymmetry
SPECIFICATION FlashSpec
INVARIANT EModeDebtAfterFlashLoans
CHECK_DEADLOCK FALSE
