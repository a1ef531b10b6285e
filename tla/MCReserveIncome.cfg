CONSTANTS
    alice = alice  bob = bob
    RAY = 1000  WAD = 10  PERCENTAGE_FACTOR = 100
    SECONDS_PER_YEAR = 4
    OPTIMAL_USAGE_RATIO = 800  OPTIMAL_STABLE_TO_TOTAL_DEBT_RATIO = 200
    BaseVariableBorrowRate = 20
    VariableRateSlope1 = 100  VariableRateSlope2 = 800
    StableRateSlope1 = 50  StableRateSlope2 = 1000
    BaseStableRateOffset = 20  StableRateExcessOffset = 100
    Users = {alice, bob}
    Amounts = {60, 100}
    StableRates = {}
    MaxDebt = 200
    MaxTime = 4
    MaxCalls = 5
    MaxLiquidity = 300
    reserveFactor = 20
SYMMETRY UserSymmetry
SPECIFICATION ReserveSpec
CHECK_DEADLOCK FALSE
INVARIANT ReserveTypeOK
PROPERTIES InterestPaysForIncome IndicesAccrue SupplyFollowsDebts AverageFollowsRates
