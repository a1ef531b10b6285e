CONSTANTS
    alice = alice  bob = bob  treasury = treasury  bridge = bridge
    ColA = ColA  ColB = ColB  DebtA = DebtA  DebtB = DebtB  noAsset = noAsset
    RAY = 20  WAD = 20  PERCENTAGE_FACTOR = 10
    Users = {alice, bob}
    Treasury = treasury
    Bridge = bridge
    Reserves = {ColA}
    Assets = {ColA}
    NoAsset = noAsset
    Categories = {}
    Amounts = {1}
    MaxUint256 = 1000
    IsolatedSuppliers = {alice, bob}
    InitConfig <- FeesConfig
    InitEModeCategories <- NoCategories
    MaxStableLoanPercent = 10
    CLOSE_FACTOR_HF_THRESHOLD = 17
    BridgeProtocolFee = 0
    Fees = {}
    Prices <- FeesPrices
    HasSentinel = TRUE
    MaxLiquidity = 3
    Indices = {20}
    MaxIndex = 40
    MaxTreasury = 2
    MaxStableDebt = 0
    FlashLoanPremiumTotal = 10
    FlashLoanPremiumToProtocol = 5
    LegLists <- FeesLegs
    MaxDepth = 2
SYMMETRY UserSymmetry
SPECIFICATION FlashSpec
INVARIANTS FlashTypeOK DebtWithinCeiling
PROPERTIES LoansAreSettled PremiumsPayForIncome HealthyThroughFlashLoans
CHECK_DEADLOCK FALSE
