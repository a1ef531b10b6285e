CONSTANTS
    alice = alice  bob = bob  carol = carol
    RAY = 10000  WAD = 1000  PERCENTAGE_FACTOR = 100
    SECONDS_PER_YEAR = 4
    OPTIMAL_USAGE_RATIO = 8000  OPTIMAL_STABLE_TO_TOTAL_DEBT_RATIO = 2000
    BaseVariableBorrowRate = 100
    VariableRateSlope1 = 700  VariableRateSlope2 = 3000
    StableRateSlope1 = 500  StableRateSlope2 = 3000
    BaseStableRateOffset = 200  StableRateExcessOffset = 800
    Users = {alice, bob}
    Others = carol
    Amounts = {500, 2000}
    TokensInTransfers = {500}
    StableRates = {}
    MaxDebt = 6000
    MaxTime = 5
    MaxCalls = 3
    MaxLiquidity = 20000
    InitialLiquidity = 2700
    MaxStableLoanPercent = 25
    bridgeProtocolFee = 30
    Fees = {0, 100}
    MAX_UINT_AMOUNT = 100000
    reserveFactor = 20
SYMMETRY UserSymmetry
SPECIFICATION ScenarioSpec
CHECK_DEADLOCK FALSE
INVARIANTS MarketTypeOK ReserveOracleAgrees UserOracleAgrees BooksForeseen UserBooksForeseen EventsMatched EventsTellBalances
